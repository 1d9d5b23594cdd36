--------------------------- MODULE SapWrite_proof ---------------------------
(***************************************************************************)
(* Proofs about SapWrite: for any number of calls, sessions and any        *)
(* time-out, whatever SAP and the network do.                              *)
(***************************************************************************)
EXTENDS SapWrite, FiniteSetTheorems, TLAPS

Locals(c) == <<call[c], request[c], reply[c], applied[c], begun[c], used[c], rejected[c]>>

\* A step of call c leaves the others' state alone.
Others(c) == \A d \in Calls \ {c} : Locals(d)' = Locals(d)

Step(c) == Create(c) \/ Read(c) \/ TransportFails(c) \/ Sap(c)

\* A step of one call leaves the others alone.
LEMMA StepIsLocal ==
  ASSUME TypeOK, NEW c \in Calls, Step(c)
  PROVE  Others(c)
<1> USE DEF TypeOK, Others, Locals, sap
<1>1. CASE Create(c)
  BY <1>1 DEF Create, StartCreate, FetchFails, PostWithToken, FetchAgain, PostAnswered,
              Closed, Expire, Post, Send, Receive, Forget
<1>2. CASE Read(c)
  BY <1>2 DEF Read, StartRead, ReadAnswered, Send, Receive, Forget
<1>3. CASE TransportFails(c)
  BY <1>3 DEF TransportFails, Forget
<1>4. CASE Sap(c)
  BY <1>4 DEF Sap, GiveToken, RefuseToken, Write, RefuseWrite, RejectToken, AnswerRead,
              NewSession, Asked, Respond
<1>5. QED
  BY <1>1, <1>2, <1>3, <1>4 DEF Step

\* What a caller is told is a status, never 401 or 403, and an error stays an
\* error.
LEMMA ResultType ==
  ASSUME NEW answer \in Reply
  PROVE  /\ Result(answer) \in Status
         /\ ToHttpException(answer.status) \in Status
         /\ Result(answer) \notin {401, 403}
         /\ answer.status >= 400 => ToHttpException(answer.status) \notin {200, 401, 403}
  BY DEF Result, ToHttpException, UnwrapOdata, Reply, Status, Body

\* The jar and what a reply brings are sessions.
LEMMA JarType ==
  ASSUME TypeOK, NEW c \in Calls
  PROVE  Jar(c) \in Session /\ reply[c].cookie \in Session /\ reply[c].token \in Session
<1>1. reply[c] \in Reply /\ call[c] \in Call
  BY DEF TypeOK
<1>2. reply[c].cookie \in Session /\ reply[c].token \in Session /\ call[c].jar \in Session
  BY <1>1 DEF Reply, Call
<1>3. QED
  BY <1>2 DEF Jar

\* No reply is a reply as well.
LEMMA NoReplyType == NoReply \in Reply
  BY SessionAssumption DEF NoReply, Answer, Reply, Status, Body, Session, None

\* Forgetting a reply keeps the types.
LEMMA ForgetType ==
  ASSUME TypeOK, NEW c \in Calls, Forget(c)
  PROVE  reply' \in [Calls -> Reply]
BY NoReplyType, Zenon DEF TypeOK, Forget

\* An answer of SAP keeps the types.
LEMMA RespondType ==
  ASSUME TypeOK, NEW c \in Calls, NEW answer \in Reply, Respond(c, answer)
  PROVE  reply' \in [Calls -> Reply]
BY NoReplyType DEF TypeOK, Respond

\* A new session is one of those opened and of those the call has used.
LEMMA NewSessionType ==
  ASSUME TypeOK, NEW c \in Calls, NewSession(c)
  PROVE  /\ opened' \in Session /\ opened + 1 \in Session \ {None}
         /\ alive' \subseteq 1..opened'
         /\ used' \in [Calls -> SUBSET (1..opened')]
<1>1. opened \in Nat /\ opened' = opened + 1
  BY SessionAssumption DEF TypeOK, NewSession, Session
<1>2. used \in [Calls -> SUBSET (1..opened')] /\ opened' \in 1..opened'
  BY <1>1 DEF TypeOK
<1>3. used' \in [Calls -> SUBSET (1..opened')]
  BY <1>1, <1>2, Zenon DEF NewSession
<1>4. alive' \subseteq 1..opened'
  BY <1>1 DEF TypeOK, NewSession
<1>5. QED
  BY <1>1, <1>3, <1>4, SessionAssumption DEF NewSession, Session, None

\* Where a call may be.
Pc == {"new", "closing", "done"} \cup Waiting

\* A call that moves on with a result is still a call.
LEMMA CallTold ==
  ASSUME NEW k \in Call, NEW pc \in Pc, NEW result \in Status
  PROVE  [k EXCEPT !.pc = pc, !.result = result] \in Call
BY Zenon DEF Call, Pc

\* And so is one that keeps its answer too.
LEMMA CallAnswered ==
  ASSUME NEW k \in Call, NEW pc \in Pc, NEW answer \in Status, NEW result \in Status
  PROVE  [k EXCEPT !.pc = pc, !.answer = answer, !.result = result] \in Call
BY Zenon DEF Call, Pc

\* The locals of a call stay of their type.
LEMMA StepKeepsLocals ==
  ASSUME TypeOK, NEW c \in Calls, Step(c)
  PROVE  call' \in [Calls -> Call]
<1>0. call \in [Calls -> Call]
  BY DEF TypeOK
<1>1. call[c] \in Call
  BY <1>0
<1>p. /\ "fetching" \in Pc /\ "posting" \in Pc /\ "getting" \in Pc
      /\ "closing" \in Pc /\ "done" \in Pc
  BY DEF Pc, Waiting
<1>r. reply[c] \in Reply
  BY DEF TypeOK
<1>2. clock \in 0..MaxTime
  BY DEF TypeOK
<1> DEFINE error == ToHttpException(reply[c].status)
           result == Result(reply[c])
           none == 0
           failed == 500
           late == 504
           status == reply[c].status
<1>a. error \in Status /\ 502 \in Status
  BY <1>r, ResultType DEF Status
<1>c. none \in Status /\ failed \in Status /\ late \in Status
  BY DEF Status
<1>d. result \in Status
  BY <1>r, ResultType
<1>b. status \in Status
  BY <1>r DEF Reply
<1>3. Jar(c) \in Session /\ reply[c].cookie \in Session /\ reply[c].token \in Session
  BY JarType
<1>4. CASE StartCreate(c)
  <2> DEFINE due == clock + Timeout
  <2>0. due \in 0..MaxTime
    BY <1>2, TimeAssumption, <1>4 DEF StartCreate
  <2> DEFINE k == [call[c] EXCEPT !.pc = "fetching", !.op = "create", !.deadline = due]
  <2>1. call' = [call EXCEPT ![c].pc = "fetching", ![c].op = "create", ![c].deadline = due]
    BY <1>4, Zenon DEF StartCreate
  <2> HIDE DEF error, result, none, failed, late, status, due
  <2>2. k \in Call
    BY <1>1, <2>0, <1>p, Zenon DEF Call, Pc
  <2>3. call' = [call EXCEPT ![c] = k]
    BY <1>0, <2>1 DEF Call
  <2> HIDE DEF k
  <2>4. QED
    BY <2>2, <2>3, <1>0, Zenon
<1>5. CASE StartRead(c)
  <2> DEFINE k == [call[c] EXCEPT !.pc = "getting", !.op = "read"]
  <2>1. call' = [call EXCEPT ![c].pc = "getting", ![c].op = "read"]
    BY <1>5, Zenon DEF StartRead
  <2> HIDE DEF error, result, none, failed, late, status
  <2>2. k \in Call
    BY <1>1, <1>p, Zenon DEF Call, Pc
  <2>3. call' = [call EXCEPT ![c] = k]
    BY <1>0, <2>1 DEF Call
  <2> HIDE DEF k
  <2>4. QED
    BY <2>2, <2>3, <1>0, Zenon
<1>6. CASE FetchFails(c)
  <2> DEFINE told == IF reply[c].status >= 400 THEN error ELSE 502
  <2>0. told \in Status
    BY <1>a
  <2> DEFINE k == [call[c] EXCEPT !.pc = "closing", !.result = told]
  <2>1. call' = [call EXCEPT ![c].pc = "closing", ![c].result = told]
    BY <1>6, Zenon DEF FetchFails
  <2> HIDE DEF error, result, none, failed, late, status, told
  <2>2. k \in Call
    BY <1>1, <2>0, <1>p, CallTold, Zenon
  <2>3. call' = [call EXCEPT ![c] = k]
    BY <1>0, <2>1 DEF Call
  <2> HIDE DEF k
  <2>4. QED
    BY <2>2, <2>3, <1>0, Zenon
<1>7. CASE PostWithToken(c)
  <2> DEFINE k == [call[c] EXCEPT !.pc = "posting", !.jar = Jar(c), !.token = reply[c].token]
  <2>1. call' = [call EXCEPT ![c].pc = "posting", ![c].jar = Jar(c), ![c].token = reply[c].token]
    BY <1>7, Zenon DEF PostWithToken, Post
  <2> HIDE DEF error, result, none, failed, late, status
  <2>2. k \in Call
    BY <1>1, <1>2, <1>3, <1>p, Zenon DEF Call, Pc
  <2>3. call' = [call EXCEPT ![c] = k]
    BY <1>0, <2>1 DEF Call
  <2> HIDE DEF k
  <2>4. QED
    BY <2>2, <2>3, <1>0, Zenon
<1>8. CASE FetchAgain(c)
  <2> DEFINE k == [call[c] EXCEPT !.pc = "fetching", !.again = TRUE, !.jar = Jar(c)]
  <2>1. call' = [call EXCEPT ![c].pc = "fetching", ![c].again = TRUE, ![c].jar = Jar(c)]
    BY <1>8, Zenon DEF FetchAgain
  <2> HIDE DEF error, result, none, failed, late, status
  <2>2. k \in Call
    BY <1>1, <1>3, <1>p, Zenon DEF Call, Pc
  <2>3. call' = [call EXCEPT ![c] = k]
    BY <1>0, <2>1 DEF Call
  <2> HIDE DEF k
  <2>4. QED
    BY <2>2, <2>3, <1>0, Zenon
<1>9. CASE PostAnswered(c)
  <2> DEFINE k == [call[c] EXCEPT !.pc = "closing", !.answer = status, !.result = result]
  <2>1. call' = [call EXCEPT ![c].pc = "closing", ![c].answer = status, ![c].result = result]
    BY <1>9, Zenon DEF PostAnswered
  <2> HIDE DEF error, result, none, failed, late, status
  <2>2. k \in Call
    BY <1>1, <1>b, <1>d, <1>p, CallAnswered, Zenon
  <2>3. call' = [call EXCEPT ![c] = k]
    BY <1>0, <2>1 DEF Call
  <2> HIDE DEF k
  <2>4. QED
    BY <2>2, <2>3, <1>0, Zenon
<1>10. CASE Closed(c)
  <2> DEFINE k == [call[c] EXCEPT !.pc = "done"]
  <2>1. call' = [call EXCEPT ![c].pc = "done"]
    BY <1>10, Zenon DEF Closed
  <2> HIDE DEF error, result, none, failed, late, status
  <2>2. k \in Call
    BY <1>1, <1>p, Zenon DEF Call, Pc
  <2>3. call' = [call EXCEPT ![c] = k]
    BY <1>0, <2>1 DEF Call
  <2> HIDE DEF k
  <2>4. QED
    BY <2>2, <2>3, <1>0, Zenon
<1>11. CASE Expire(c)
  <2> DEFINE k == [call[c] EXCEPT !.pc = "done", !.answer = none, !.result = late]
  <2>1. call' = [call EXCEPT ![c].pc = "done", ![c].answer = none, ![c].result = late]
    BY <1>11, Zenon DEF Expire
  <2> HIDE DEF error, result, none, failed, late, status
  <2>2. k \in Call
    BY <1>1, <1>c, <1>p, CallAnswered, Zenon
  <2>3. call' = [call EXCEPT ![c] = k]
    BY <1>0, <2>1 DEF Call
  <2> HIDE DEF k
  <2>4. QED
    BY <2>2, <2>3, <1>0, Zenon
<1>12. CASE ReadAnswered(c)
  <2> DEFINE k == [call[c] EXCEPT !.pc = "done", !.answer = status, !.result = result]
  <2>1. call' = [call EXCEPT ![c].pc = "done", ![c].answer = status, ![c].result = result]
    BY <1>12, Zenon DEF ReadAnswered
  <2> HIDE DEF error, result, none, failed, late, status
  <2>2. k \in Call
    BY <1>1, <1>b, <1>d, <1>p, CallAnswered, Zenon
  <2>3. call' = [call EXCEPT ![c] = k]
    BY <1>0, <2>1 DEF Call
  <2> HIDE DEF k
  <2>4. QED
    BY <2>2, <2>3, <1>0, Zenon
<1>13. CASE TransportFails(c)
  <2> DEFINE next == IF call[c].pc = "getting" THEN "done" ELSE "closing"
  <2>0. next \in Pc
    BY <1>p
  <2> DEFINE k == [call[c] EXCEPT !.pc = next, !.result = failed]
  <2>1. call' = [call EXCEPT ![c].pc = next, ![c].result = failed]
    BY <1>13, Zenon DEF TransportFails
  <2> HIDE DEF error, result, none, failed, late, status, next
  <2>2. k \in Call
    BY <1>1, <1>c, <2>0, CallTold, Zenon
  <2>3. call' = [call EXCEPT ![c] = k]
    BY <1>0, <2>1 DEF Call
  <2> HIDE DEF k
  <2>4. QED
    BY <2>2, <2>3, <1>0, Zenon
<1>14. CASE Sap(c)
  BY <1>14, <1>0 DEF Sap, GiveToken, RefuseToken, Write, RefuseWrite, RejectToken, AnswerRead
<1>15. QED
  BY <1>4, <1>5, <1>6, <1>7, <1>8, <1>9, <1>10, <1>11, <1>12, <1>13, <1>14 DEF Step, Create, Read

\* And so does everything else.
LEMMA StepKeepsType ==
  ASSUME TypeOK, NEW c \in Calls, Step(c)
  PROVE  TypeOK'
<1>0. call' \in [Calls -> Call]
  BY StepKeepsLocals
<1> SUFFICES ASSUME call' \in [Calls -> Call]
             PROVE  TypeOK'
  BY <1>0
<1> USE DEF TypeOK, sap
<1>1. CASE StartCreate(c)
  BY <1>1, SessionAssumption, TimeAssumption DEF StartCreate, Send, NoRequest, NoReply, Answer,
                                                 Request, Reply, Session, None, Status, Body
<1>2. CASE StartRead(c)
  BY <1>2, SessionAssumption, TimeAssumption DEF StartRead, Send, NoRequest, NoReply, Answer,
                                                 Request, Reply, Session, None, Status, Body
<1>3. CASE FetchFails(c)
  BY <1>3, SessionAssumption, TimeAssumption DEF FetchFails, Receive, Forget, NoRequest,
                                                 NoReply, Answer, Request, Reply, Session,
                                                 None, Status, Body
<1>4. CASE PostWithToken(c)
  <2>1. [kind |-> "post", cookie |-> Jar(c), token |-> reply[c].token] \in Request
    BY <1>4, JarType DEF PostWithToken, Request
  <2>2. request' \in [Calls -> Request]
    BY <1>4, <2>1, Zenon DEF PostWithToken, Post, Send
  <2>3. QED
    BY <1>4, <2>2, ForgetType DEF PostWithToken, Receive, Post
<1>5. CASE FetchAgain(c)
  <2>1. [kind |-> "fetch", cookie |-> Jar(c), token |-> None] \in Request
    BY JarType DEF Request
  <2>2. request' \in [Calls -> Request]
    BY <1>5, <2>1, Zenon DEF FetchAgain, Send
  <2>3. QED
    BY <1>5, <2>2, ForgetType DEF FetchAgain, Receive
<1>6. CASE PostAnswered(c)
  BY <1>6, SessionAssumption, TimeAssumption DEF PostAnswered, Receive, Forget, NoRequest,
                                                 NoReply, Answer, Request, Reply, Session,
                                                 None, Status, Body
<1>7. CASE Closed(c)
  BY <1>7, SessionAssumption, TimeAssumption DEF Closed, NoRequest, NoReply, Answer, Request,
                                                 Reply, Session, None, Status, Body
<1>8. CASE Expire(c)
  BY <1>8, SessionAssumption, TimeAssumption DEF Expire, Forget, NoRequest, NoReply, Answer,
                                                 Request, Reply, Session, None, Status, Body
<1>9. CASE ReadAnswered(c)
  BY <1>9, SessionAssumption, TimeAssumption DEF ReadAnswered, Receive, Forget, NoRequest,
                                                 NoReply, Answer, Request, Reply, Session,
                                                 None, Status, Body
<1>10. CASE TransportFails(c)
  BY <1>10, SessionAssumption, TimeAssumption DEF TransportFails, Forget, NoRequest, NoReply,
                                                  Answer, Request, Reply, Session, None,
                                                  Status, Body
<1>11. CASE GiveToken(c)
  <2>1. request' \in [Calls -> Request]
    BY <1>11, SessionAssumption DEF GiveToken, Asked, NoRequest, Request, Session, None
  <2>2. request[c] \in Request /\ request[c].cookie \in Session
    BY DEF Request
  <2>3. CASE /\ request[c].cookie \in alive
             /\ Respond(c, [Answer(200, "json") EXCEPT !.token = request[c].cookie])
             /\ UNCHANGED <<opened, alive, used>>
    <3>1. [Answer(200, "json") EXCEPT !.token = request[c].cookie] \in Reply
      BY <2>2, SessionAssumption DEF Answer, Reply, Status, Body, Session, None
    <3>2. reply' \in [Calls -> Reply]
      BY <2>3, <3>1, RespondType
    <3>3. QED
      BY <1>11, <2>1, <2>3, <3>2 DEF GiveToken
  <2>4. CASE /\ request[c].cookie \notin alive
             /\ NewSession(c)
             /\ Respond(c, [Answer(200, "json") EXCEPT !.token = opened + 1, !.cookie = opened + 1])
    <3> DEFINE session == opened + 1
           page == Answer(200, "json")
    <3>0. session \in Session
      BY <2>4, NewSessionType
    <3>a. page \in Reply
      BY SessionAssumption DEF Answer, Reply, Status, Body, Session, None
    <3> HIDE DEF session, page
    <3>1. [page EXCEPT !.token = session, !.cookie = session] \in Reply
      BY <3>0, <3>a DEF Reply
    <3> USE DEF session, page
    <3>2. reply' \in [Calls -> Reply]
      BY <2>4, <3>1, RespondType
    <3>3. QED
      BY <1>11, <2>1, <2>4, <3>2, NewSessionType DEF GiveToken
  <2>5. QED
    BY <1>11, <2>3, <2>4 DEF GiveToken
<1>12. CASE RefuseToken(c)
  BY <1>12, SessionAssumption, TimeAssumption DEF RefuseToken, Asked, Respond, NoRequest,
                                                  NoReply, Answer, Request, Reply, Session,
                                                  None, Status, Body
<1>13. CASE Write(c)
  BY <1>13, SessionAssumption, TimeAssumption DEF Write, Asked, Respond, NoRequest, NoReply,
                                                  Answer, Request, Reply, Session, None,
                                                  Status, Body
<1>14. CASE RefuseWrite(c)
  BY <1>14, SessionAssumption, TimeAssumption DEF RefuseWrite, Asked, Respond, NoRequest,
                                                  NoReply, Answer, Request, Reply, Session,
                                                  None, Status, Body
<1>15. CASE RejectToken(c)
  <2>1. request' \in [Calls -> Request]
    BY <1>15, SessionAssumption DEF RejectToken, Asked, NoRequest, Request, Session, None
  <2>2. rejected' \in [Calls -> Nat]
    BY <1>15 DEF RejectToken
  <2>3. CASE Respond(c, Answer(403, "none")) /\ UNCHANGED <<opened, alive, used>>
    <3>1. Answer(403, "none") \in Reply
      BY SessionAssumption DEF Answer, Reply, Status, Body, Session, None
    <3>2. reply' \in [Calls -> Reply]
      BY <2>3, <3>1, RespondType
    <3>3. QED
      BY <1>15, <2>1, <2>2, <2>3, <3>2 DEF RejectToken
  <2>4. CASE /\ NewSession(c)
             /\ Respond(c, [Answer(403, "none") EXCEPT !.cookie = opened + 1])
    <3>1. [Answer(403, "none") EXCEPT !.cookie = opened + 1] \in Reply
      BY <2>4, NewSessionType, SessionAssumption DEF Answer, Reply, Status, Body, Session, None
    <3>2. reply' \in [Calls -> Reply]
      BY <2>4, <3>1, RespondType
    <3>3. QED
      BY <1>15, <2>1, <2>2, <2>4, <3>2, NewSessionType DEF RejectToken
  <2>5. QED
    BY <1>15, <2>3, <2>4 DEF RejectToken
<1>16. CASE AnswerRead(c)
  BY <1>16, SessionAssumption, TimeAssumption DEF AnswerRead, Asked, Respond, NoRequest,
                                                  NoReply, Answer, Request, Reply, Session,
                                                  None, Status, Body
<1>17. QED
  BY <1>1, <1>2, <1>3, <1>4, <1>5, <1>6, <1>7, <1>8, <1>9, <1>10, <1>11, <1>12, <1>13, <1>14,
     <1>15, <1>16
     DEF Step, Create, Read, Sap

------------------------------------------------------------------------------
(* Where a call stands: what is on the wire for it, and what SAP has done.    *)

\* A call has one request or one answer under way, and its kind fits the place.
Wired(c) ==
  /\ At(c, "new") => call[c].op = "none" /\ request[c] = NoRequest
  /\ Limited(c) => call[c].op = "create"
  /\ At(c, "getting") => call[c].op = "read"
  /\ At(c, "fetching") => request[c].kind \in {"fetch", "none"}
  /\ At(c, "posting") => request[c].kind \in {"post", "none"}
  /\ request[c].kind = "none" => request[c] = NoRequest
  /\ request[c].kind \in {"fetch", "post"} => call[c].op = "create"
  /\ request[c].kind = "get" => call[c].op = "read"
  /\ request[c].kind # "none" \/ call[c].pc \notin Waiting => reply[c] = NoReply
  /\ At(c, "fetching") /\ reply[c] # NoReply => reply[c].status # 0

\* A write that is still under way has not been applied, and its answer tells
\* whether it was.
Counted(c) ==
  /\ applied[c] <= 1
  /\ call[c].pc \in {"new", "fetching"} \/ call[c].op # "create" => applied[c] = 0
  /\ request[c].kind = "post" => applied[c] = 0
  /\ At(c, "posting") /\ reply[c] # NoReply =>
       \/ reply[c].status \in {200, 204} /\ applied[c] = 1
       \/ reply[c].status \in {302, 400, 401, 403} /\ applied[c] = 0
       \/ reply[c].status = 500

\* So does what the caller is told.
Told(c) ==
  /\ call[c].result \notin {401, 403}
  /\ call[c].pc \in {"closing", "done"} /\ call[c].op = "create" =>
       /\ call[c].result = 200 /\ call[c].answer # 302 => applied[c] = 1
       /\ call[c].result = 200 /\ call[c].answer = 302 =>
            applied[c] = 0 /\ request[c] = NoRequest
       /\ call[c].result \in 400..499 => applied[c] = 0 /\ request[c] = NoRequest

\* The deadline counts from the beginning, and time does not pass it.
Clocked(c) ==
  call[c].op = "create" /\ ~At(c, "done") =>
    call[c].deadline = begun[c] + Timeout /\ clock <= call[c].deadline

\* A token, wherever it is, belongs to the session in the cookie beside it, and
\* that session is not among the ended ones that rejections are counted against.
Ended(c) == used[c] \ alive
Fresh(c, s) == s \in used[c] /\ rejected[c] <= Cardinality(Ended(c) \ {s})
InSession(c) ==
  /\ rejected[c] <= Cardinality(Ended(c))
  /\ call[c].jar \in used[c] \cup {None} /\ reply[c].cookie \in used[c] \cup {None}
  /\ At(c, "new") => call[c].jar = None
  /\ At(c, "fetching") => request[c].cookie = call[c].jar \/ request[c] = NoRequest
  /\ At(c, "fetching") /\ reply[c].token # None =>
       Jar(c) = reply[c].token /\ Fresh(c, reply[c].token)
  /\ request[c].kind = "post" =>
       request[c].token = request[c].cookie /\ Fresh(c, request[c].cookie)

\* The answer to a request for a token: the session's, or a new one with a cookie.
LEMMA TokenGiven ==
  ASSUME TypeOK, NEW c \in Calls, GiveToken(c)
  PROVE  /\ call' = call /\ request'[c] = NoRequest /\ rejected' = rejected
         /\ request[c].kind = "fetch"
         /\ reply'[c] = NoReply \/ (call[c].pc \in Waiting /\ reply'[c].status = 200)
         /\ \/ /\ request[c].cookie \in alive /\ UNCHANGED <<alive, used>>
               /\ reply'[c] = NoReply \/ reply'[c].token = request[c].cookie
               /\ reply'[c].cookie = None
            \/ /\ NewSession(c)
               /\ \/ reply'[c] = NoReply
                  \/ (reply'[c].token = opened + 1 /\ reply'[c].cookie = opened + 1)
<1> DEFINE old == [Answer(200, "json") EXCEPT !.token = request[c].cookie]
           new == [Answer(200, "json") EXCEPT !.token = opened + 1, !.cookie = opened + 1]
<1>1. /\ call' = call /\ request'[c] = NoRequest /\ rejected' = rejected
      /\ request[c].kind = "fetch"
  BY DEF GiveToken, Asked, TypeOK
<1>2. \/ request[c].cookie \in alive /\ UNCHANGED <<alive, used>> /\ Respond(c, old)
      \/ NewSession(c) /\ Respond(c, new)
  BY DEF GiveToken
<1>3. /\ old.status = 200 /\ old.token = request[c].cookie /\ old.cookie = None
      /\ new.status = 200 /\ new.token = opened + 1 /\ new.cookie = opened + 1
  BY DEF Answer
<1>4. NoReply.cookie = None
  BY DEF NoReply, Answer
<1> HIDE DEF old, new
<1>5. ASSUME NEW answer, Respond(c, answer)
      PROVE  reply'[c] = NoReply \/ (call[c].pc \in Waiting /\ reply'[c] = answer)
  <2>1. reply'[c] = IF call[c].pc \in Waiting THEN answer ELSE NoReply
    BY <1>5, Zenon DEF Respond, TypeOK
  <2>2. QED
    BY <2>1
<1>6. QED
  BY <1>1, <1>2, <1>3, <1>4, <1>5

\* Where a call stands and what is under way for it stay in step.
LEMMA StepWired ==
  ASSUME TypeOK, TypeOK', NEW c \in Calls, Wired(c), Step(c)
  PROVE  Wired(c)'
<1> USE DEF TypeOK, Wired, At, Limited, Waiting, sap, NoRequest, NoReply, Answer, Request,
            Call, None
<1>1. CASE StartCreate(c)
  BY <1>1 DEF StartCreate, Send
<1>2. CASE StartRead(c)
  BY <1>2 DEF StartRead, Send
<1>3. CASE FetchFails(c)
  BY <1>3 DEF FetchFails, Receive, Forget
<1>4. CASE PostWithToken(c)
  BY <1>4 DEF PostWithToken, Post, Send, Receive, Forget
<1>5. CASE FetchAgain(c)
  BY <1>5 DEF FetchAgain, Send, Receive, Forget, Retryable
<1>6. CASE PostAnswered(c)
  BY <1>6 DEF PostAnswered, Receive, Forget, Retryable
<1>7. CASE Closed(c)
  BY <1>7 DEF Closed
<1>8. CASE Expire(c)
  BY <1>8 DEF Expire, Forget, Due, Limited
<1>9. CASE ReadAnswered(c)
  BY <1>9 DEF ReadAnswered, Receive, Forget
<1>10. CASE TransportFails(c)
  BY <1>10 DEF TransportFails, Forget, Waiting
<1>11. CASE GiveToken(c)
  BY <1>11, TokenGiven
<1>12. CASE RefuseToken(c)
  BY <1>12 DEF RefuseToken, Asked, Respond
<1>13. CASE Write(c)
  BY <1>13 DEF Write, Asked, Respond
<1>14. CASE RefuseWrite(c)
  BY <1>14 DEF RefuseWrite, Asked, Respond
<1>15. CASE RejectToken(c)
  BY <1>15 DEF RejectToken, Asked, Respond, NewSession
<1>16. CASE AnswerRead(c)
  BY <1>16 DEF AnswerRead, Asked, Respond
<1>17. QED
  BY <1>1, <1>2, <1>3, <1>4, <1>5, <1>6, <1>7, <1>8, <1>9, <1>10, <1>11, <1>12, <1>13, <1>14,
     <1>15, <1>16
     DEF Step, Create, Read, Sap

\* The writes of a call stay counted.
LEMMA StepCounted ==
  ASSUME TypeOK, TypeOK', NEW c \in Calls, Wired(c), Counted(c), Step(c)
  PROVE  Counted(c)'
<1> USE DEF TypeOK, Wired, Counted, At, Limited, Waiting, sap, NoRequest, NoReply, Answer, None
<1>1. CASE StartCreate(c)
  BY <1>1 DEF StartCreate, Send
<1>2. CASE StartRead(c)
  BY <1>2 DEF StartRead, Send
<1>3. CASE FetchFails(c)
  BY <1>3 DEF FetchFails, Receive, Forget
<1>4. CASE PostWithToken(c)
  BY <1>4 DEF PostWithToken, Post, Send, Receive, Forget
<1>5. CASE FetchAgain(c)
  BY <1>5 DEF FetchAgain, Send, Receive, Forget, Retryable
<1>6. CASE PostAnswered(c)
  BY <1>6 DEF PostAnswered, Receive, Forget, Retryable
<1>7. CASE Closed(c)
  BY <1>7 DEF Closed
<1>8. CASE Expire(c)
  BY <1>8 DEF Expire, Forget, Due, Limited
<1>9. CASE ReadAnswered(c)
  BY <1>9 DEF ReadAnswered, Receive, Forget
<1>10. CASE TransportFails(c)
  BY <1>10 DEF TransportFails, Forget, Waiting
<1>11. CASE GiveToken(c)
  BY <1>11 DEF GiveToken, Asked, Respond, NewSession
<1>12. CASE RefuseToken(c)
  BY <1>12 DEF RefuseToken, Asked, Respond
<1>13. CASE Write(c)
  BY <1>13 DEF Write, Asked, Respond
<1>14. CASE RefuseWrite(c)
  BY <1>14 DEF RefuseWrite, Asked, Respond
<1>15. CASE RejectToken(c)
  BY <1>15 DEF RejectToken, Asked, Respond, NewSession
<1>16. CASE AnswerRead(c)
  BY <1>16 DEF AnswerRead, Asked, Respond
<1>17. QED
  BY <1>1, <1>2, <1>3, <1>4, <1>5, <1>6, <1>7, <1>8, <1>9, <1>10, <1>11, <1>12, <1>13, <1>14,
     <1>15, <1>16
     DEF Step, Create, Read, Sap

\* What a call has been told stays true.
LEMMA StepTold ==
  ASSUME TypeOK, TypeOK', NEW c \in Calls, Wired(c), Counted(c), Told(c), Step(c)
  PROVE  Told(c)'
<1> USE DEF TypeOK, Wired, Counted, Told, At, Waiting, sap, NoRequest, NoReply, Answer, None,
            Result, ToHttpException, UnwrapOdata
<1>1. CASE StartCreate(c)
  BY <1>1 DEF StartCreate, Send
<1>2. CASE StartRead(c)
  BY <1>2 DEF StartRead, Send
<1>3. CASE FetchFails(c)
  BY <1>3 DEF FetchFails, Receive, Forget
<1>4. CASE PostWithToken(c)
  BY <1>4 DEF PostWithToken, Post, Send, Receive, Forget
<1>5. CASE FetchAgain(c)
  BY <1>5 DEF FetchAgain, Send, Receive, Forget, Retryable
<1>6. CASE PostAnswered(c)
  BY <1>6 DEF PostAnswered, Receive, Forget, Retryable
<1>7. CASE Closed(c)
  BY <1>7 DEF Closed
<1>8. CASE Expire(c)
  BY <1>8 DEF Expire, Forget, Due, Limited
<1>9. CASE ReadAnswered(c)
  BY <1>9 DEF ReadAnswered, Receive, Forget
<1>10. CASE TransportFails(c)
  BY <1>10 DEF TransportFails, Forget, Waiting
<1>11. CASE GiveToken(c)
  BY <1>11 DEF GiveToken, Asked, Respond, NewSession
<1>12. CASE RefuseToken(c)
  BY <1>12 DEF RefuseToken, Asked, Respond
<1>13. CASE Write(c)
  BY <1>13 DEF Write, Asked, Respond
<1>14. CASE RefuseWrite(c)
  BY <1>14 DEF RefuseWrite, Asked, Respond
<1>15. CASE RejectToken(c)
  BY <1>15 DEF RejectToken, Asked, Respond, NewSession
<1>16. CASE AnswerRead(c)
  BY <1>16 DEF AnswerRead, Asked, Respond
<1>17. QED
  BY <1>1, <1>2, <1>3, <1>4, <1>5, <1>6, <1>7, <1>8, <1>9, <1>10, <1>11, <1>12, <1>13, <1>14,
     <1>15, <1>16
     DEF Step, Create, Read, Sap

\* No step moves a deadline.
LEMMA StepClocked ==
  ASSUME TypeOK, TypeOK', NEW c \in Calls, Wired(c), Clocked(c), Step(c)
  PROVE  Clocked(c)'
<1> USE DEF TypeOK, Wired, Clocked, At, Limited, Waiting, sap
<1>1. CASE StartCreate(c)
  BY <1>1, TimeAssumption DEF StartCreate, Send
<1>2. CASE StartRead(c)
  BY <1>2, TimeAssumption DEF StartRead, Send
<1>3. CASE FetchFails(c)
  BY <1>3, TimeAssumption DEF FetchFails, Receive, Forget
<1>4. CASE PostWithToken(c)
  BY <1>4, TimeAssumption DEF PostWithToken, Post, Send, Receive, Forget
<1>5. CASE FetchAgain(c)
  BY <1>5, TimeAssumption DEF FetchAgain, Send, Receive, Forget, Retryable
<1>6. CASE PostAnswered(c)
  BY <1>6, TimeAssumption DEF PostAnswered, Receive, Forget, Retryable
<1>7. CASE Closed(c)
  BY <1>7, TimeAssumption DEF Closed
<1>8. CASE Expire(c)
  BY <1>8, TimeAssumption DEF Expire, Forget, Due, Limited
<1>9. CASE ReadAnswered(c)
  BY <1>9, TimeAssumption DEF ReadAnswered, Receive, Forget
<1>10. CASE TransportFails(c)
  BY <1>10, TimeAssumption DEF TransportFails, Forget, Waiting
<1>11. CASE GiveToken(c)
  BY <1>11, TimeAssumption DEF GiveToken, Asked, Respond, NewSession
<1>12. CASE RefuseToken(c)
  BY <1>12, TimeAssumption DEF RefuseToken, Asked, Respond
<1>13. CASE Write(c)
  BY <1>13, TimeAssumption DEF Write, Asked, Respond
<1>14. CASE RefuseWrite(c)
  BY <1>14, TimeAssumption DEF RefuseWrite, Asked, Respond
<1>15. CASE RejectToken(c)
  BY <1>15, TimeAssumption DEF RejectToken, Asked, Respond, NewSession
<1>16. CASE AnswerRead(c)
  BY <1>16, TimeAssumption DEF AnswerRead, Asked, Respond
<1>17. QED
  BY <1>1, <1>2, <1>3, <1>4, <1>5, <1>6, <1>7, <1>8, <1>9, <1>10, <1>11, <1>12, <1>13, <1>14,
     <1>15, <1>16
     DEF Step, Create, Read, Sap

------------------------------------------------------------------------------
(* Sessions.  An ended session stays ended, so what counts against it stays.  *)

\* A part of a finite set is no larger than the set.
LEMMA Smaller ==
  ASSUME NEW S, IsFiniteSet(S), NEW T \in SUBSET S
  PROVE  Cardinality(T) \in Nat /\ Cardinality(S) \in Nat /\ Cardinality(T) <= Cardinality(S)
BY FS_Subset, FS_CardinalityType

\* The sessions opened so far are finite in number.
LEMMA FiniteUpTo ==
  ASSUME NEW n \in Nat, NEW S \in SUBSET (1..n)
  PROVE  IsFiniteSet(S)
<1>1. IsFiniteSet(1..n)
  BY FS_Interval
<1>2. QED
  BY <1>1, FS_Subset

\* What a step does to the sessions of a call, its own or another's.
Onward(c) == used[c] \subseteq used'[c] /\ Ended(c) \subseteq Ended(c)'

\* The sessions a call has used, and those of them that have ended, only grow.
LEMMA StepIsOnward ==
  ASSUME TypeOK, NEW d \in Calls, NEW c \in Calls, Step(d)
  PROVE  Onward(c)
<1> USE DEF Onward, Ended, sap, TypeOK
<1>1. CASE Create(d)
  BY <1>1 DEF Create, StartCreate, FetchFails, PostWithToken, FetchAgain, PostAnswered,
              Closed, Expire
<1>2. CASE Read(d)
  BY <1>2 DEF Read, StartRead, ReadAnswered
<1>3. CASE TransportFails(d)
  BY <1>3 DEF TransportFails
<1>4. ASSUME NewSession(d) PROVE Onward(c)
  <2>1. opened + 1 \notin used[c]
    BY SessionAssumption DEF Session
  <2>2. QED
    BY <1>4, <2>1 DEF NewSession
<1>5. ASSUME UNCHANGED <<alive, used>> PROVE Onward(c)
  BY <1>5
<1>6. CASE Sap(d)
  BY <1>4, <1>5, <1>6 DEF Sap, GiveToken, RefuseToken, Write, RefuseWrite, RejectToken,
                          AnswerRead
<1>7. QED
  BY <1>1, <1>2, <1>3, <1>6 DEF Step

\* Rejections do not come to outnumber the ended sessions by others' steps.
LEMMA FreshStays ==
  ASSUME TypeOK, TypeOK', NEW c \in Calls, Onward(c), rejected'[c] = rejected[c]
  PROVE  /\ rejected[c] <= Cardinality(Ended(c)) => rejected'[c] <= Cardinality(Ended(c)')
         /\ \A s \in Session : Fresh(c, s) => Fresh(c, s)'
<1>1. IsFiniteSet(Ended(c)')
  <2>1. opened' \in Nat /\ Ended(c)' \in SUBSET (1..opened')
    BY SessionAssumption DEF TypeOK, Session, Ended
  <2>2. QED
    BY <2>1, FiniteUpTo
<1>2. rejected[c] \in Nat
  BY DEF TypeOK
<1>3. ASSUME NEW T, T \in SUBSET Ended(c), NEW U, U \in SUBSET Ended(c)', T \subseteq U
      PROVE  rejected[c] <= Cardinality(T) => rejected[c] <= Cardinality(U)
  <2>1. IsFiniteSet(U) /\ T \in SUBSET U
    BY <1>1, <1>3, FS_Subset
  <2>2. Cardinality(T) \in Nat /\ Cardinality(U) \in Nat /\ Cardinality(T) <= Cardinality(U)
    BY <2>1, Smaller
  <2>3. QED
    BY <1>2, <2>2
<1>4. rejected[c] <= Cardinality(Ended(c)) => rejected'[c] <= Cardinality(Ended(c)')
  BY <1>3 DEF Onward
<1>5. ASSUME NEW s \in Session PROVE Fresh(c, s) => Fresh(c, s)'
  <2>1. rejected[c] <= Cardinality(Ended(c) \ {s})
          => rejected[c] <= Cardinality(Ended(c)' \ {s})
    BY <1>3 DEF Onward
  <2>2. QED
    BY <2>1 DEF Onward, Fresh
<1>6. QED
  BY <1>4, <1>5

\* A rejection is one of a token whose session has ended, and not one counted
\* before.
LEMMA RejectionCounts ==
  ASSUME TypeOK, TypeOK', NEW c \in Calls, InSession(c), Onward(c), RejectToken(c)
  PROVE  rejected'[c] <= Cardinality(Ended(c)')
<1> DEFINE s == request[c].cookie
<1>1. s \in Ended(c) /\ rejected[c] <= Cardinality(Ended(c) \ {s})
  BY DEF RejectToken, Asked, Valid, InSession, Fresh, Ended
<1>2. IsFiniteSet(Ended(c)) /\ IsFiniteSet(Ended(c)')
  <2>1. opened \in Nat /\ opened' \in Nat
    BY SessionAssumption DEF TypeOK, Session
  <2>2. Ended(c) \in SUBSET (1..opened) /\ Ended(c)' \in SUBSET (1..opened')
    BY DEF TypeOK, Ended
  <2>3. QED
    BY <2>1, <2>2, FiniteUpTo
<1>3. Cardinality(Ended(c) \ {s}) = Cardinality(Ended(c)) - 1 /\ Cardinality(Ended(c)) \in Nat
  BY <1>1, <1>2, FS_RemoveElement, FS_CardinalityType
<1>4. Cardinality(Ended(c)) <= Cardinality(Ended(c)') /\ Cardinality(Ended(c)') \in Nat
  BY <1>2, Smaller DEF Onward
<1>5. rejected'[c] = rejected[c] + 1 /\ rejected[c] \in Nat
  BY DEF RejectToken, TypeOK
<1>6. QED
  BY <1>1, <1>3, <1>4, <1>5

\* A rejection is always paid for with a session that has ended.
LEMMA StepInSession ==
  ASSUME TypeOK, TypeOK', NEW c \in Calls, Wired(c), InSession(c), Step(c)
  PROVE  InSession(c)'
<1>1. Onward(c)
  BY StepIsOnward
<1>2. rejected'[c] = rejected[c] =>
        /\ rejected'[c] <= Cardinality(Ended(c)')
        /\ \A s \in Session : Fresh(c, s) => Fresh(c, s)'
  BY <1>1, FreshStays DEF InSession
<1>3. /\ call[c].jar \in used'[c] \cup {None}
      /\ reply[c].cookie \in used'[c] \cup {None}
  BY <1>1 DEF InSession, Onward
<1>4. /\ Jar(c) \in Session /\ reply[c].token \in Session /\ reply[c].cookie \in Session
      /\ request[c].cookie \in Session
  BY JarType DEF TypeOK, Request
<1>5. Jar(c) \in used'[c] \cup {None}
  BY <1>3 DEF Jar
<1>6. NoReply.token = None /\ NoReply.cookie = None /\ NoRequest.kind = "none"
  BY DEF NoReply, Answer, NoRequest
<1> USE <1>2, <1>3, <1>4, <1>5, <1>6 DEF TypeOK, Wired, InSession, At, Limited, Waiting, sap
<1>7. CASE StartCreate(c)
  BY <1>7 DEF StartCreate, Send, Jar
<1>8. CASE StartRead(c)
  BY <1>8 DEF StartRead, Send, Jar
<1>9. CASE FetchFails(c)
  BY <1>9 DEF FetchFails, Receive, Forget, Jar
<1>10. CASE PostWithToken(c)
  BY <1>10 DEF PostWithToken, Post, Send, Receive, Forget, Jar
<1>11. CASE FetchAgain(c)
  BY <1>11 DEF FetchAgain, Send, Receive, Forget, Retryable, Jar
<1>12. CASE PostAnswered(c)
  BY <1>12 DEF PostAnswered, Receive, Forget, Retryable, Jar
<1>13. CASE Closed(c)
  BY <1>13 DEF Closed, Jar
<1>14. CASE Expire(c)
  BY <1>14 DEF Expire, Forget, Jar
<1>15. CASE ReadAnswered(c)
  BY <1>15 DEF ReadAnswered, Receive, Forget, Jar
<1>16. CASE TransportFails(c)
  BY <1>16 DEF TransportFails, Forget, Jar
<1>17. CASE GiveToken(c)
  <2>1. CASE /\ request[c].cookie \in alive /\ UNCHANGED <<alive, used>>
             /\ reply'[c] = NoReply \/ reply'[c].token = request[c].cookie
             /\ reply'[c].cookie = None
    <3>1. request[c].cookie # None /\ Ended(c) \ {request[c].cookie} = Ended(c)
      BY <2>1 DEF None, Ended
    <3>2. CASE reply'[c] = NoReply
      BY <1>17, <3>2, TokenGiven
    <3>3. CASE reply'[c] # NoReply
      <4>1. At(c, "fetching") /\ request[c].cookie = call[c].jar
        BY <1>17, <2>1, <3>3, TokenGiven DEF NoRequest
      <4>2. Fresh(c, call[c].jar) /\ call[c].jar \in Session
        BY <4>1, <3>1 DEF Fresh
      <4>3. Fresh(c, call[c].jar)'
        BY <4>2, <1>17, TokenGiven
      <4>4. QED
        BY <4>1, <4>3, <1>17, <2>1, <3>3, TokenGiven DEF Jar, NoRequest
    <3>4. QED
      BY <3>2, <3>3
  <2>2. CASE /\ NewSession(c)
             /\ \/ reply'[c] = NoReply
                \/ (reply'[c].token = opened + 1 /\ reply'[c].cookie = opened + 1)
    <3> DEFINE s == opened + 1
    <3>1. s \in used'[c] /\ s \in alive'
      BY <2>2 DEF NewSession
    <3>2. Ended(c)' \ {s} = Ended(c)'
      BY <3>1 DEF Ended
    <3>3. CASE reply'[c] = NoReply
      BY <1>17, <3>3, TokenGiven
    <3>4. CASE reply'[c].token = s /\ reply'[c].cookie = s
      <4>1. s # None
        BY SessionAssumption DEF Session, None
      <4>2. s \in used'[c] /\ rejected'[c] <= Cardinality(Ended(c)' \ {s})
        BY <3>1, <3>2, <1>17, TokenGiven
      <4> HIDE DEF s
      <4>3. QED
        BY <4>1, <4>2, <1>17, <3>4, TokenGiven DEF Jar, NoRequest, Fresh
    <3>5. QED
      BY <2>2, <3>3, <3>4
  <2>3. QED
    BY <1>17, <2>1, <2>2, TokenGiven
<1>18. CASE RefuseToken(c)
  BY <1>18 DEF RefuseToken, Asked, Respond, Answer, Jar
<1>19. CASE Write(c)
  BY <1>19 DEF Write, Asked, Respond, Answer, Jar
<1>20. CASE RefuseWrite(c)
  BY <1>20 DEF RefuseWrite, Asked, Respond, Answer, Jar
<1>21. CASE RejectToken(c)
  <2>1. rejected'[c] <= Cardinality(Ended(c)')
    BY <1>1, <1>21, RejectionCounts
  <2>2. call' = call /\ request'[c] = NoRequest /\ call[c].pc # "fetching" /\ call[c].pc # "new"
    BY <1>21 DEF RejectToken, Asked, NoRequest
  <2>3. reply'[c].cookie \in used'[c] \cup {None}
    BY <1>21 DEF RejectToken, Respond, NewSession, Answer
  <2>4. QED
    BY <2>1, <2>2, <2>3
<1>22. CASE AnswerRead(c)
  BY <1>22 DEF AnswerRead, Asked, Respond, Answer, Jar
<1>23. QED
  BY <1>7, <1>8, <1>9, <1>10, <1>11, <1>12, <1>13, <1>14, <1>15, <1>16, <1>17, <1>18, <1>19,
     <1>20, <1>21, <1>22
     DEF Step, Create, Read, Sap

------------------------------------------------------------------------------
(* All of it *)

IInv ==
  /\ TypeOK
  /\ \A c \in Calls : Wired(c) /\ Counted(c) /\ Told(c) /\ Clocked(c) /\ InSession(c)

\* The invariant holds at first.
LEMMA InitIInv == Init => IInv
<1> SUFFICES ASSUME Init PROVE IInv
  OBVIOUS
<1>1. TypeOK
  BY TimeAssumption, SessionAssumption
     DEF Init, TypeOK, NewCall, Call, Waiting, NoRequest, Request, NoReply, Answer, Reply,
         Status, Body, Session, None
<1>2. ASSUME NEW c \in Calls PROVE Wired(c) /\ Counted(c) /\ Told(c) /\ Clocked(c)
  BY DEF Init, Wired, Counted, Told, Clocked, NewCall, NoRequest, At, Limited, Waiting
<1>3. ASSUME NEW c \in Calls PROVE InSession(c)
  <2>1. Ended(c) = {} /\ rejected[c] = 0
    BY DEF Init, Ended
  <2>2. rejected[c] <= Cardinality(Ended(c))
    BY <2>1, FS_EmptySet
  <2>3. QED
    BY <2>2 DEF Init, InSession, NewCall, NoRequest, NoReply, Answer, At, None
<1>4. QED
  BY <1>1, <1>2, <1>3 DEF IInv

\* A call keeps its place while another moves.
LEMMA OthersKeep ==
  ASSUME IInv, TypeOK', NEW c \in Calls, Locals(c)' = Locals(c), Onward(c)
  PROVE  /\ (Wired(c) /\ Counted(c) /\ Told(c) /\ InSession(c))'
         /\ clock' = clock => Clocked(c)'
<1>1. Wired(c) /\ Counted(c) /\ Told(c) /\ Clocked(c) /\ InSession(c) /\ TypeOK
  BY DEF IInv
<1>2. /\ call'[c] = call[c] /\ request'[c] = request[c] /\ reply'[c] = reply[c]
      /\ applied'[c] = applied[c] /\ begun'[c] = begun[c]
      /\ used'[c] = used[c] /\ rejected'[c] = rejected[c]
  BY DEF Locals
<1>3. (Wired(c) /\ Counted(c) /\ Told(c))' /\ (clock' = clock => Clocked(c)')
  BY <1>1, <1>2 DEF Wired, Counted, Told, Clocked, At, Limited
<1>4. /\ rejected'[c] <= Cardinality(Ended(c)')
      /\ \A s \in Session : Fresh(c, s) => Fresh(c, s)'
  BY <1>1, <1>2, FreshStays DEF InSession
<1>5. reply[c].token \in Session /\ request[c].cookie \in Session
  BY <1>1, JarType DEF TypeOK, Request
<1>6. InSession(c)'
  BY <1>1, <1>2, <1>4, <1>5 DEF InSession, Jar, At
<1>7. QED
  BY <1>3, <1>6

\* Time passes in Tick only.
LEMMA StepKeepsClock ==
  ASSUME NEW c \in Calls, Step(c)
  PROVE  clock' = clock
BY DEF Step, Create, StartCreate, FetchFails, PostWithToken, FetchAgain, PostAnswered, Closed,
       Expire, Read, StartRead, ReadAnswered, TransportFails, Sap, GiveToken, RefuseToken,
       Write, RefuseWrite, RejectToken, AnswerRead

\* Every step preserves it.
LEMMA NextIInv == IInv /\ [Next]_vars => IInv'
<1> SUFFICES ASSUME IInv, [Next]_vars PROVE IInv'
  OBVIOUS
<1>0. TypeOK
  BY DEF IInv
<1>1. ASSUME NEW d \in Calls, Step(d) PROVE IInv'
  <2>1. TypeOK'
    BY <1>0, <1>1, StepKeepsType
  <2>2. ASSUME NEW c \in Calls
        PROVE  (Wired(c) /\ Counted(c) /\ Told(c) /\ Clocked(c) /\ InSession(c))'
    <3>1. CASE c = d
      BY <1>0, <1>1, <2>1, <3>1, StepWired, StepCounted, StepTold, StepClocked, StepInSession
         DEF IInv
    <3>2. CASE c # d
      BY <1>0, <1>1, <2>1, <3>2, StepIsLocal, StepIsOnward, StepKeepsClock, OthersKeep
         DEF Others
    <3>3. QED
      BY <3>1, <3>2
  <2>3. QED
    BY <2>1, <2>2 DEF IInv
<1>2. CASE EndSession
  <2>1. TypeOK'
    BY <1>0, <1>2 DEF EndSession, TypeOK
  <2>2. ASSUME NEW c \in Calls PROVE Locals(c)' = Locals(c) /\ clock' = clock /\ Onward(c)
    BY <1>2 DEF EndSession, Locals, Onward, Ended
  <2>3. QED
    BY <2>1, <2>2, OthersKeep DEF IInv
<1>3. CASE Tick
  <2>1. TypeOK'
    BY <1>0, <1>3, TimeAssumption DEF Tick, TypeOK, sap
  <2>2. ASSUME NEW c \in Calls
        PROVE  (Wired(c) /\ Counted(c) /\ Told(c) /\ InSession(c))'
    <3>1. Locals(c)' = Locals(c) /\ Onward(c)
      BY <1>3 DEF Tick, sap, Locals, Onward, Ended
    <3>2. QED
      BY <2>1, <3>1, OthersKeep
  <2>3. ASSUME NEW c \in Calls PROVE Clocked(c)'
    <3>1. Clocked(c) /\ Wired(c) /\ call[c] \in Call /\ clock \in Nat
      BY <1>0 DEF IInv, TypeOK
    <3>2. ~Due(c) /\ clock' = clock + 1 /\ call' = call /\ begun' = begun
      BY <1>3 DEF Tick
    <3>3. call[c].op = "create" /\ ~At(c, "done") => Limited(c)
      BY <3>1 DEF Wired, Call, Waiting, At, Limited
    <3>4. call[c].deadline \in Int
      BY <3>1 DEF Call
    <3>5. QED
      BY <3>1, <3>2, <3>3, <3>4 DEF Clocked, Due, At
  <2>4. QED
    BY <2>1, <2>2, <2>3 DEF IInv
<1>4. CASE UNCHANGED vars
  <2>1. TypeOK'
    BY <1>0, <1>4 DEF TypeOK, vars, sap
  <2>2. ASSUME NEW c \in Calls PROVE Locals(c)' = Locals(c) /\ clock' = clock /\ Onward(c)
    BY <1>4 DEF vars, sap, Locals, Onward, Ended
  <2>3. QED
    BY <2>1, <2>2, OthersKeep DEF IInv
<1>5. QED
  BY <1>1, <1>2, <1>3, <1>4 DEF Next, Step

\* So it holds in every reachable state.
LEMMA Invariance == Spec => []IInv
BY InitIInv, NextIInv, PTL DEF Spec

------------------------------------------------------------------------------
(* What the runs check, for every value of the constants *)

\* The types hold in every reachable state.
THEOREM TypeCorrect == Spec => []TypeOK
BY Invariance, PTL DEF IInv

\* The retry after a 403 never writes twice, however late SAP handles a request.
THEOREM WritesOnce == Spec => []AtMostOneWrite
<1>1. IInv => AtMostOneWrite
  BY DEF IInv, Counted, AtMostOneWrite
<1>2. QED
  BY <1>1, Invariance, PTL

\* A value and a client error both tell the caller what became of the write.
THEOREM AnswersTell == Spec => []AnswerTellsTheWrite
<1>1. IInv => AnswerTellsTheWrite
  BY DEF IInv, Told, AnswerTellsTheWrite, At
<1>2. QED
  BY <1>1, Invariance, PTL

\* SAP's 401 and 403 never reach the caller.
THEOREM NoSpuriousLogout == Spec => []NeverLooksLikeLogout
<1>1. IInv => NeverLooksLikeLogout
  BY DEF IInv, Told, NeverLooksLikeLogout
<1>2. QED
  BY <1>1, Invariance, PTL

\* Each rejected token costs an ended session: token and cookie stay together.
THEOREM RejectionsNeedExpiries == Spec => []RejectionNeedsExpiry
<1>1. IInv => RejectionNeedsExpiry
  BY DEF IInv, InSession, Ended, RejectionNeedsExpiry
<1>2. QED
  BY <1>1, Invariance, PTL

\* The aggregate deadline bounds every create(), its retry included.
THEOREM DeadlineHolds == Spec => []NeverPinned
<1>1. IInv => NeverPinned
  <2> SUFFICES ASSUME IInv, NEW c \in Calls, call[c].op = "create", ~At(c, "done")
               PROVE  clock <= begun[c] + Timeout
    BY DEF NeverPinned
  <2>1. Clocked(c)
    BY DEF IInv
  <2>2. QED
    BY <2>1 DEF Clocked
<1>2. QED
  BY <1>1, Invariance, PTL

------------------------------------------------------------------------------
(* The refinement of RemoteWrite *)

\* What a caller has heard, case by case.
LEMMA HeardIs ==
  ASSUME NEW c \in Calls
  PROVE  /\ ~(At(c, "done") /\ call[c].op = "create") <=> Heard(c) = "nothing"
         /\ At(c, "done") /\ call[c].op = "create" =>
              /\ call[c].result = 200 => Heard(c) \in {"written", "moved"}
              /\ Heard(c) = "written" => call[c].result = 200 /\ call[c].answer # 302
              /\ Heard(c) = "moved" => call[c].result = 200 /\ call[c].answer = 302
              /\ Heard(c) = "refused" => call[c].result \in 400..499
         /\ Heard(c) \in {"nothing"} \cup Remote!Verdict
BY DEF Heard, Means, Creates, Remote!Verdict

\* What RemoteWrite sees of a call.
Seen(c) == <<call[c].op = "create", applied[c], Heard(c)>>

\* A call that keeps its place is seen as before.
LEMMA SeenAsBefore ==
  ASSUME NEW c \in Calls, call'[c] = call[c], applied'[c] = applied[c]
  PROVE  Seen(c)' = Seen(c)
BY DEF Seen, Heard, Means, Creates, At

\* Nothing is seen of a step that leaves every call as it is seen.
LEMMA NothingSeen ==
  ASSUME TypeOK, TypeOK', \A c \in Calls : Seen(c)' = Seen(c)
  PROVE  UNCHANGED Remote!remote
<1>1. \A c \in Calls : /\ (call'[c].op = "create") = (call[c].op = "create")
                       /\ applied'[c] = applied[c] /\ Heard(c)' = Heard(c)
  BY DEF Seen
<1>2. Creates' = Creates /\ applied' = applied
  BY <1>1 DEF TypeOK, Creates
<1>3. [c \in Calls |-> Heard(c)]' = [c \in Calls |-> Heard(c)]
  BY <1>1
<1>4. QED
  BY <1>2, <1>3 DEF Remote!remote

\* A step seen in one call is one of the three RemoteWrite knows.
LEMMA OneSeen ==
  ASSUME TypeOK, TypeOK', NEW c \in Calls, \A d \in Calls \ {c} : Seen(d)' = Seen(d),
         \/ /\ call[c].op # "create" /\ call'[c].op = "create"
            /\ applied'[c] = applied[c] /\ Heard(c)' = Heard(c)
         \/ /\ call[c].op = "create" /\ call'[c].op = "create"
            /\ applied[c] = 0 /\ applied'[c] = 1
            /\ Heard(c) \in {"nothing", "unknown"} /\ Heard(c)' = Heard(c)
         \/ /\ call[c].op = "create" /\ call'[c].op = "create"
            /\ applied'[c] = applied[c]
            /\ Heard(c) = "nothing" /\ Heard(c)' \in Remote!Verdict
            /\ Heard(c)' = "written" => applied[c] = 1
            /\ Heard(c)' \in {"moved", "refused"} => applied[c] = 0
  PROVE  Remote!Next
<1> DEFINE told == [d \in Calls |-> Heard(d)]
           next == [d \in Calls |-> Heard(d)']
<1>1. \A d \in Calls \ {c} : /\ (call'[d].op = "create") = (call[d].op = "create")
                             /\ applied'[d] = applied[d] /\ Heard(d)' = Heard(d)
  BY DEF Seen
<1>2. /\ applied \in [Calls -> Nat] /\ applied' \in [Calls -> Nat]
      /\ told[c] = Heard(c) /\ next = [told EXCEPT ![c] = Heard(c)']
  BY <1>1 DEF TypeOK
<1>3. Heard(c)' = Heard(c) => next = told
  BY <1>1
<1>4. /\ applied' = [applied EXCEPT ![c] = applied'[c]]
      /\ applied'[c] = applied[c] => applied' = applied
  BY <1>1, <1>2
<1> HIDE DEF told, next
<1>5. CASE call[c].op # "create" /\ call'[c].op = "create" /\ applied'[c] = applied[c]
             /\ Heard(c)' = Heard(c)
  <2>1. c \notin Creates /\ Creates' = Creates \cup {c}
    BY <1>1, <1>5 DEF Creates
  <2>2. Remote!Ask(c)
    BY <1>3, <1>4, <1>5, <2>1 DEF Remote!Ask, told, next
  <2>3. QED
    BY <2>2 DEF Remote!Next
<1>6. ASSUME call[c].op = "create", call'[c].op = "create"
      PROVE  c \in Creates /\ Creates' = Creates
  BY <1>1, <1>6 DEF Creates
<1>7. CASE /\ call[c].op = "create" /\ call'[c].op = "create"
           /\ applied[c] = 0 /\ applied'[c] = 1
           /\ Heard(c) \in {"nothing", "unknown"} /\ Heard(c)' = Heard(c)
  <2>1. Remote!Apply(c)
    BY <1>2, <1>3, <1>4, <1>6, <1>7 DEF Remote!Apply, told, next
  <2>2. QED
    BY <2>1 DEF Remote!Next
<1>8. CASE /\ call[c].op = "create" /\ call'[c].op = "create"
           /\ applied'[c] = applied[c]
           /\ Heard(c) = "nothing" /\ Heard(c)' \in Remote!Verdict
           /\ Heard(c)' = "written" => applied[c] = 1
           /\ Heard(c)' \in {"moved", "refused"} => applied[c] = 0
  <2>1. Remote!Tell(c, Heard(c)')
    BY <1>2, <1>4, <1>6, <1>8 DEF Remote!Tell, told, next
  <2>2. QED
    BY <1>8, <2>1 DEF Remote!Next
<1>9. QED
  BY <1>5, <1>7, <1>8

\* The steps that neither apply a write nor end a call of create() show nothing.
LEMMA StepUnseen ==
  ASSUME IInv, TypeOK', NEW c \in Calls,
         \/ StartRead(c) \/ FetchFails(c) \/ PostWithToken(c) \/ FetchAgain(c)
         \/ PostAnswered(c) \/ ReadAnswered(c) \/ TransportFails(c)
         \/ GiveToken(c) \/ RefuseToken(c) \/ RefuseWrite(c) \/ RejectToken(c)
         \/ AnswerRead(c)
  PROVE  Seen(c)' = Seen(c)
<1>0. TypeOK /\ Wired(c) /\ call \in [Calls -> Call]
  BY DEF IInv, TypeOK
<1>1. CASE GiveToken(c) \/ RefuseToken(c) \/ RefuseWrite(c) \/ RejectToken(c) \/ AnswerRead(c)
  BY <1>1, SeenAsBefore
     DEF GiveToken, RefuseToken, RefuseWrite, RejectToken, AnswerRead, sap
<1>2. ASSUME applied' = applied, call'[c].op = call[c].op, ~At(c, "done"), ~At(c, "done")'
      PROVE  Seen(c)' = Seen(c)
  BY <1>2, HeardIs DEF Seen, Heard, Means, Creates
<1>3. ASSUME applied' = applied, call'[c].op # "create", call[c].op # "create"
      PROVE  Seen(c)' = Seen(c)
  BY <1>3 DEF Seen, Heard, Means, Creates
<1>4. CASE FetchFails(c)
  BY <1>0, <1>2, <1>4 DEF FetchFails, At, sap
<1>5. CASE PostWithToken(c)
  BY <1>0, <1>2, <1>5 DEF PostWithToken, Post, At, sap
<1>6. CASE FetchAgain(c)
  BY <1>0, <1>2, <1>6 DEF FetchAgain, At, sap
<1>7. CASE PostAnswered(c)
  BY <1>0, <1>2, <1>7 DEF PostAnswered, At, sap
<1>8. CASE StartRead(c)
  BY <1>0, <1>3, <1>8 DEF StartRead, Wired, At, sap
<1>9. CASE ReadAnswered(c)
  BY <1>0, <1>3, <1>9 DEF ReadAnswered, Wired, At, sap
<1>10. CASE TransportFails(c)
  <2>1. CASE At(c, "getting")
    BY <1>0, <1>3, <1>10, <2>1 DEF TransportFails, Wired, At, sap
  <2>2. CASE ~At(c, "getting")
    BY <1>0, <1>2, <1>10, <2>2 DEF TransportFails, Waiting, At, sap
  <2>3. QED
    BY <2>1, <2>2
<1>11. QED
  BY <1>1, <1>4, <1>5, <1>6, <1>7, <1>8, <1>9, <1>10

\* Every step of a call is one of RemoteWrite or shows nothing.
LEMMA StepIsRemote ==
  ASSUME IInv, TypeOK', NEW c \in Calls, Step(c)
  PROVE  Remote!Next \/ UNCHANGED Remote!remote
<1>0. TypeOK /\ Wired(c) /\ Counted(c) /\ Told(c) /\ call \in [Calls -> Call]
  BY DEF IInv, TypeOK
<1>1. \A d \in Calls \ {c} : Seen(d)' = Seen(d)
  BY <1>0, StepIsLocal, SeenAsBefore DEF Others, Locals
<1>2. ASSUME Seen(c)' = Seen(c) PROVE UNCHANGED Remote!remote
  BY <1>0, <1>1, <1>2, NothingSeen
<1>3. CASE StartCreate(c)
  <2>1. /\ At(c, "new") /\ call[c].op = "none" /\ call'[c].op = "create" /\ ~At(c, "done")'
        /\ applied' = applied
    BY <1>0, <1>3 DEF StartCreate, Wired, At, sap
  <2>2. Heard(c) = "nothing" /\ Heard(c)' = "nothing"
    BY <2>1 DEF Heard, Means, Creates, At
  <2>3. QED
    BY <1>0, <1>1, <2>1, <2>2, OneSeen
<1>4. CASE Write(c)
  <2>1. /\ call' = call /\ applied[c] = 0 /\ applied'[c] = 1
        /\ call[c].op = "create" /\ request[c].kind = "post"
    BY <1>0, <1>4 DEF Write, Asked, Wired, Counted, TypeOK
  <2>2. request[c] # NoRequest
    BY <2>1 DEF NoRequest
  <2>3. Heard(c) \in {"nothing", "unknown"}
    BY <1>0, <2>1, <2>2, HeardIs DEF Told, At, Remote!Verdict
  <2>4. Heard(c)' = Heard(c)
    BY <2>1 DEF Heard, Means, Creates, At
  <2>5. QED
    BY <1>0, <1>1, <2>1, <2>3, <2>4, OneSeen
<1>5. ASSUME ~At(c, "done"), At(c, "done")', call[c].op = "create", call'[c].op = "create",
             applied' = applied, Told(c)'
      PROVE  Remote!Next
  <2>1. Heard(c) = "nothing"
    BY <1>5, HeardIs
  <2>2. /\ Heard(c)' \in Remote!Verdict
        /\ Heard(c)' = "written" => applied[c] = 1
        /\ Heard(c)' \in {"moved", "refused"} => applied[c] = 0
    BY <1>5 DEF Heard, Means, Creates, Told, At, Remote!Verdict
  <2>3. QED
    BY <1>0, <1>1, <1>5, <2>1, <2>2, OneSeen
<1>6. Told(c)'
  BY <1>0, StepTold
<1>7. CASE Closed(c) \/ Expire(c)
  <2>1. Limited(c) /\ call'[c].op = call[c].op /\ applied' = applied /\ At(c, "done")'
    <3>1. CASE Closed(c)
      BY <1>0, <3>1 DEF Closed, Limited, Call, At, sap
    <3>2. CASE Expire(c)
      BY <1>0, <3>2 DEF Expire, Due, Call, At, sap
    <3>3. QED
      BY <1>7, <3>1, <3>2
  <2>2. ~At(c, "done") /\ call[c].op = "create"
    BY <1>0, <2>1 DEF Limited, Wired, At
  <2>3. QED
    BY <1>5, <1>6, <2>1, <2>2
<1>8. QED
  BY <1>2, <1>3, <1>4, <1>7, StepUnseen DEF Step, Create, Read, Sap

\* A call of create() is a write applied at most once, whose caller is told
\* nothing untrue of it, however SAP and the network behave.
THEOREM ImplementsRemoteWrite == Spec => WriteSpec
<1>1. Init => Remote!Init
  BY DEF Init, Remote!Init, Creates, Heard, Means, NewCall, At
<1>2. IInv /\ IInv' /\ [Next]_vars => [Remote!Next]_(Remote!remote)
  <2> SUFFICES ASSUME IInv, IInv', [Next]_vars PROVE Remote!Next \/ UNCHANGED Remote!remote
    OBVIOUS
  <2>1. TypeOK /\ TypeOK'
    BY DEF IInv
  <2>2. ASSUME UNCHANGED <<call, applied>> PROVE UNCHANGED Remote!remote
    BY <2>1, <2>2, SeenAsBefore, NothingSeen
  <2>3. QED
    BY <2>1, <2>2, StepIsRemote DEF Next, Step, EndSession, Tick, vars, sap
<1>3. QED
  BY <1>1, <1>2, Invariance, PTL DEF Spec, WriteSpec, Remote!Spec

------------------------------------------------------------------------------
(* What create() still has before it *)

\* The requests a call may yet wait for, and its way to the end.
Left(k) ==
  IF k.pc = "new" THEN 6
  ELSE IF k.pc = "fetching" THEN IF k.again THEN 3 ELSE 5
  ELSE IF k.pc = "posting" THEN IF k.again THEN 2 ELSE 4
  ELSE IF k.pc \in {"getting", "closing"} THEN 1
  ELSE 0

\* client.py:70 "up to 4x the per-request timeout": no step takes a call back.
\* It retries once, so that it waits for at most four answers, and its end is
\* never more than six of its own steps away.  This is the part of EveryCreateEnds
\* that is not about fairness.
THEOREM CallsOnlyAdvance ==
  Spec => [][\A c \in Calls : call'[c] # call[c] => Left(call'[c]) < Left(call[c])]_vars
<1>1. ASSUME IInv, NEW c \in Calls, Step(c), call'[c] # call[c]
      PROVE  Left(call'[c]) < Left(call[c])
  <2>1. call \in [Calls -> Call] /\ call[c] \in Call
    BY <1>1 DEF IInv, TypeOK
  <2>2. ASSUME call'[c].pc = "closing" \/ call'[c].pc = "done", call[c].pc \in Waiting,
               call[c].pc = "getting" => call'[c].pc = "done"
        PROVE  Left(call'[c]) < Left(call[c])
    BY <2>1, <2>2 DEF Left, Call, Waiting
  <2>3. CASE FetchFails(c) \/ PostAnswered(c) \/ ReadAnswered(c) \/ TransportFails(c)
    <3>1. /\ call[c].pc \in Waiting
          /\ call'[c].pc = "closing" \/ call'[c].pc = "done"
          /\ call[c].pc = "getting" => call'[c].pc = "done"
      BY <2>1, <2>3 DEF FetchFails, PostAnswered, ReadAnswered, TransportFails, At, Waiting, Call
    <3>2. QED
      BY <2>2, <3>1
  <2>4. CASE Closed(c) \/ Expire(c)
    <3>1. call[c].pc \in {"fetching", "posting", "closing"} /\ call'[c].pc = "done"
      BY <2>1, <2>4 DEF Closed, Expire, Due, Limited, At, Call
    <3>2. QED
      BY <2>1, <3>1 DEF Left, Call
  <2>5. CASE StartCreate(c) \/ StartRead(c)
    <3>1. call[c].pc = "new" /\ call'[c].pc \in {"fetching", "getting"}
      BY <2>1, <2>5 DEF StartCreate, StartRead, At, Call
    <3>2. QED
      BY <2>1, <3>1 DEF Left, Call
  <2>6. CASE PostWithToken(c)
    <3>1. call[c].pc = "fetching" /\ call'[c].pc = "posting" /\ call'[c].again = call[c].again
      BY <2>1, <2>6 DEF PostWithToken, Post, At, Call
    <3>2. QED
      BY <2>1, <3>1 DEF Left, Call
  <2>7. CASE FetchAgain(c)
    <3>1. /\ call[c].pc = "posting" /\ call'[c].pc = "fetching"
          /\ ~call[c].again /\ call'[c].again
      BY <2>1, <2>7 DEF FetchAgain, Retryable, At, Call
    <3>2. QED
      BY <2>1, <3>1 DEF Left, Call
  <2>8. CASE Sap(c)
    BY <1>1, <2>8 DEF Sap, GiveToken, RefuseToken, Write, RefuseWrite, RejectToken, AnswerRead
  <2>9. QED
    BY <1>1, <2>3, <2>4, <2>5, <2>6, <2>7, <2>8 DEF Step, Create, Read
<1>2. ASSUME IInv, Next, NEW c \in Calls, call'[c] # call[c]
      PROVE  Left(call'[c]) < Left(call[c])
  <2>1. CASE EndSession \/ Tick
    BY <1>2, <2>1 DEF EndSession, Tick
  <2>2. ASSUME NEW d \in Calls, Step(d), d # c PROVE FALSE
    <3>1. Others(d)
      BY <1>2, <2>2, StepIsLocal DEF IInv
    <3>2. QED
      BY <1>2, <2>2, <3>1 DEF Others, Locals
  <2>3. QED
    BY <1>1, <1>2, <2>1, <2>2 DEF Next, Step
<1>3. IInv /\ [Next]_vars =>
        [\A c \in Calls : call'[c] # call[c] => Left(call'[c]) < Left(call[c])]_vars
  BY <1>2
<1>4. QED
  BY <1>3, Invariance, PTL DEF Spec
==============================================================================
