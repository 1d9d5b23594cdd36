------------------------------ MODULE SapWrite ------------------------------
(***************************************************************************)
(* The SAP client of app/core/sap/client.py: read(), and create() with its *)
(* CSRF dance, its one retry after a 403 and its one deadline.  SAP and    *)
(* the network are external: SAP answers any request late or never, its    *)
(* sessions end at any time, a connection breaks at any time, and a write  *)
(* is handled although nobody waits for its answer any more.               *)
(*                                                                         *)
(* What is assumed of SAP: a request is handled at most once; a write is   *)
(* applied only if its token belongs to the session in its cookie and that *)
(* session lives, and never if it is answered 3xx or 4xx; one answered 2xx *)
(* has been applied, and one answered 5xx perhaps.                         *)
(*                                                                         *)
(* A token and the session cookie it belongs to are both the number of the *)
(* session.  Every call has a client, and so a cookie jar, of its own.     *)
(***************************************************************************)
EXTENDS Integers, FiniteSets

CONSTANTS
  Calls,        \* calls of read() and create() (bound)
  Timeout,      \* sap_timeout_seconds
  MaxSessions,  \* sessions SAP ever opens (bound)
  MaxTime       \* (bound)

ASSUME TimeAssumption == Timeout \in Nat \ {0} /\ MaxTime \in Nat
ASSUME SessionAssumption == MaxSessions \in Nat

VARIABLES
  call,      \* the locals of the calls
  request,   \* what is on the way to SAP
  reply,     \* and on the way back
  opened,    \* how many sessions SAP has opened
  alive,     \* those that live
  applied,   \* how often each call's write has been applied
  clock

\* History: when each create() began, the sessions it was given, and how often
\* SAP rejected its token.
VARIABLES begun, used, rejected

sap == <<opened, alive, applied, used, rejected>>
vars == <<call, request, reply, clock, begun, sap>>

------------------------------------------------------------------------------

None == 0
Session == 0..MaxSessions     \* with None

\* A write always carries a token.
Request ==
  [kind : {"none", "fetch", "get"}, cookie : Session, token : {None}]
    \cup [kind : {"post"}, cookie : Session, token : Session \ {None}]
NoRequest == [kind |-> "none", cookie |-> None, token |-> None]

Status == {0, 200, 204, 302, 400, 401, 403, 500, 502, 504}
Body == {"none", "json", "other"}
Reply == [status : Status, body : Body, cookie : Session, token : Session]
Answer(status, body) == [status |-> status, body |-> body, cookie |-> None, token |-> None]
NoReply == Answer(0, "none")

\* `again` after the one retry has begun; `result` is the status the caller
\* sees: 200 for a value, 500 for an exception that nobody maps.
Waiting == {"fetching", "posting", "getting"}
Call == [pc : {"new", "closing", "done"} \cup Waiting, op : {"none", "create", "read"},
         again : BOOLEAN, jar : Session, token : Session, deadline : 0..MaxTime,
         answer : Status, result : Status]

NewCall == [pc |-> "new", op |-> "none", again |-> FALSE, jar |-> None, token |-> None,
            deadline |-> 0, answer |-> 0, result |-> 0]

TypeOK ==
  /\ call \in [Calls -> Call]
  /\ request \in [Calls -> Request]
  /\ reply \in [Calls -> Reply]
  /\ opened \in Session /\ alive \subseteq 1..opened
  /\ applied \in [Calls -> Nat] /\ rejected \in [Calls -> Nat]
  /\ used \in [Calls -> SUBSET (1..opened)]
  /\ clock \in 0..MaxTime /\ begun \in [Calls -> 0..MaxTime]

Init ==
  /\ call = [c \in Calls |-> NewCall]
  /\ request = [c \in Calls |-> NoRequest]
  /\ reply = [c \in Calls |-> NoReply]
  /\ opened = 0 /\ alive = {}
  /\ applied = [c \in Calls |-> 0]
  /\ clock = 0 /\ begun = [c \in Calls |-> 0]
  /\ used = [c \in Calls |-> {}]
  /\ rejected = [c \in Calls |-> 0]

At(c, pc) == call[c].pc = pc

------------------------------------------------------------------------------
(* The client.  Operators with a suffix are faulty variants.                 *)

Limited_PostOnly(c) == call[c].pc \in {"posting", "closing"}

\* create() runs under its deadline until its client is closed.
Limited(c) == call[c].pc \in {"fetching", "posting", "closing"}
Due(c) == Limited(c) /\ clock >= call[c].deadline

Send(c, kind, cookie, token) ==
  request' = [request EXCEPT ![c] = [kind |-> kind, cookie |-> cookie, token |-> token]]

Forget(c) == reply' = [reply EXCEPT ![c] = NoReply]
Receive(c) == reply[c] # NoReply /\ Forget(c)

\* A response puts its cookie in the jar, if it has one.
Jar(c) == IF reply[c].cookie = None THEN call[c].jar ELSE reply[c].cookie

\* create() asks for a token first.
StartCreate(c) ==
  /\ At(c, "new")
  /\ clock + Timeout <= MaxTime
  /\ call' = [call EXCEPT ![c].pc = "fetching", ![c].op = "create",
                          ![c].deadline = clock + Timeout]
  /\ begun' = [begun EXCEPT ![c] = clock]
  /\ Send(c, "fetch", None, None)
  /\ UNCHANGED <<reply, clock, sap>>

StartRead(c) ==
  /\ At(c, "new")
  /\ call' = [call EXCEPT ![c].pc = "getting", ![c].op = "read"]
  /\ Send(c, "get", None, None)
  /\ UNCHANGED <<reply, clock, begun, sap>>

ToHttpException_BlamesCaller(status) ==
  IF status \in {401, 403} THEN 502 ELSE 400

\* SAP's 401, 403 and 5xx become 502, its other errors stay what they are.
ToHttpException(status) == IF status \in {401, 403} \/ status >= 500 THEN 502 ELSE status

\* No body is a value too, a body that is not JSON is 502.
UnwrapOdata(answer) ==
  IF answer.status # 204 /\ answer.body = "other" THEN 502 ELSE 200

Result(answer) ==
  IF answer.status >= 400 THEN ToHttpException(answer.status) ELSE UnwrapOdata(answer)

\* An error, or an answer without a token.
FetchFails(c) ==
  /\ At(c, "fetching") /\ Receive(c)
  /\ reply[c].status >= 400 \/ reply[c].token = None
  /\ call' = [call EXCEPT ![c].pc = "closing", ![c].result =
                IF reply[c].status >= 400 THEN ToHttpException(reply[c].status) ELSE 502]
  /\ UNCHANGED <<request, clock, begun, sap>>

Post(c, token) ==
  /\ call' = [call EXCEPT ![c].pc = "posting", ![c].jar = Jar(c), ![c].token = token]
  /\ Send(c, "post", Jar(c), token)

PostWithToken_Unchecked(c) ==
  /\ At(c, "fetching") /\ Receive(c)
  /\ reply[c].status < 400
  /\ Post(c, reply[c].token)
  /\ UNCHANGED <<clock, begun, sap>>

PostWithToken_KeepsOld(c) ==
  /\ At(c, "fetching") /\ Receive(c)
  /\ reply[c].status < 400 /\ reply[c].token # None
  /\ Post(c, IF call[c].again THEN call[c].token ELSE reply[c].token)
  /\ UNCHANGED <<clock, begun, sap>>

\* The write goes out with the token and the cookie in the jar.
PostWithToken(c) ==
  /\ At(c, "fetching") /\ Receive(c)
  /\ reply[c].status < 400 /\ reply[c].token # None
  /\ Post(c, reply[c].token)
  /\ UNCHANGED <<clock, begun, sap>>

Retryable_AnyError(c) == ~call[c].again /\ reply[c].status >= 400
Retryable(c) == ~call[c].again /\ reply[c].status = 403

FetchAgain_NewDeadline(c) ==
  /\ At(c, "posting") /\ Receive(c)
  /\ Retryable(c)
  /\ call' = [call EXCEPT ![c].pc = "fetching", ![c].again = TRUE, ![c].jar = Jar(c),
                          ![c].deadline = clock + Timeout]
  /\ Send(c, "fetch", Jar(c), None)
  /\ UNCHANGED <<clock, begun, sap>>

\* 403: the token has expired.  Once more, with a new one.
FetchAgain(c) ==
  /\ At(c, "posting") /\ Receive(c)
  /\ Retryable(c)
  /\ call' = [call EXCEPT ![c].pc = "fetching", ![c].again = TRUE, ![c].jar = Jar(c)]
  /\ Send(c, "fetch", Jar(c), None)
  /\ UNCHANGED <<clock, begun, sap>>

\* The response stands; what it means is worked out after the client is closed.
PostAnswered(c) ==
  /\ At(c, "posting") /\ Receive(c)
  /\ ~Retryable(c)
  /\ call' = [call EXCEPT ![c].pc = "closing", ![c].answer = reply[c].status,
                          ![c].result = Result(reply[c])]
  /\ UNCHANGED <<request, clock, begun, sap>>

Closed(c) ==
  /\ At(c, "closing")
  /\ call' = [call EXCEPT ![c].pc = "done"]
  /\ UNCHANGED <<request, reply, clock, begun, sap>>

\* asyncio.timeout fires: 504, whatever was in hand.
Expire(c) ==
  /\ Due(c)
  /\ call' = [call EXCEPT ![c].pc = "done", ![c].answer = 0, ![c].result = 504]
  /\ Forget(c)
  /\ UNCHANGED <<request, clock, begun, sap>>

ReadAnswered(c) ==
  /\ At(c, "getting") /\ Receive(c)
  /\ call' = [call EXCEPT ![c].pc = "done", ![c].answer = reply[c].status,
                          ![c].result = Result(reply[c])]
  /\ UNCHANGED <<request, clock, begun, sap>>

\* httpx raises: no connection, a broken one, its own time-outs.  Nothing maps
\* these.
TransportFails(c) ==
  /\ call[c].pc \in Waiting
  /\ call' = [call EXCEPT ![c].pc = IF @ = "getting" THEN "done" ELSE "closing",
                          ![c].result = 500]
  /\ Forget(c)
  /\ UNCHANGED <<request, clock, begun, sap>>

------------------------------------------------------------------------------
(* SAP and the network (external).  A request or an answer that is lost is    *)
(* one that is never handled.                                                 *)

Asked(c, kind) == request[c].kind = kind /\ request' = [request EXCEPT ![c] = NoRequest]

\* SAP's answer, or nothing if nobody waits for it any more.
Respond(c, answer) ==
  reply' = [reply EXCEPT ![c] = IF call[c].pc \in Waiting THEN answer ELSE NoReply]

\* SAP opens a session for a call that comes without a living one.
NewSession(c) ==
  /\ opened < MaxSessions
  /\ opened' = opened + 1
  /\ alive' = alive \cup {opened + 1}
  /\ used' = [used EXCEPT ![c] = @ \cup {opened + 1}]

GiveToken(c) ==
  /\ Asked(c, "fetch")
  /\ LET cookie == request[c].cookie IN
     \/ /\ cookie \in alive
        /\ Respond(c, [Answer(200, "json") EXCEPT !.token = cookie])
        /\ UNCHANGED <<opened, alive, used>>
     \/ /\ cookie \notin alive
        /\ NewSession(c)
        /\ Respond(c, [Answer(200, "json") EXCEPT !.token = opened + 1, !.cookie = opened + 1])
  /\ UNCHANGED <<call, applied, clock, begun, rejected>>

\* No token: an error, or a page that has none.
RefuseToken(c) ==
  /\ Asked(c, "fetch")
  /\ \E status \in {200, 400, 401, 500} : Respond(c, Answer(status, "other"))
  /\ UNCHANGED <<call, clock, begun, sap>>

Valid(c) == request[c].cookie \in alive /\ request[c].token = request[c].cookie

Write(c) ==
  /\ Valid(c) /\ Asked(c, "post")
  /\ applied' = [applied EXCEPT ![c] = @ + 1]
  /\ \E answer \in {Answer(200, "json"), Answer(200, "other"), Answer(204, "none"),
                    Answer(500, "other")} : Respond(c, answer)
  /\ UNCHANGED <<call, opened, alive, clock, begun, used, rejected>>

RefuseWrite(c) ==
  /\ Valid(c) /\ Asked(c, "post")
  /\ \E status \in {302, 400, 401, 403, 500} : Respond(c, Answer(status, "none"))
  /\ UNCHANGED <<call, clock, begun, sap>>

\* The token is not the session's: 403, perhaps with a cookie for a new one.
RejectToken(c) ==
  /\ ~Valid(c) /\ Asked(c, "post")
  /\ rejected' = [rejected EXCEPT ![c] = @ + 1]
  /\ \/ /\ Respond(c, Answer(403, "none"))
        /\ UNCHANGED <<opened, alive, used>>
     \/ /\ request[c].cookie \notin alive
        /\ NewSession(c)
        /\ Respond(c, [Answer(403, "none") EXCEPT !.cookie = opened + 1])
  /\ UNCHANGED <<call, applied, clock, begun>>

AnswerRead(c) ==
  /\ Asked(c, "get")
  /\ \E status \in {200, 400, 401, 403, 500}, body \in {"json", "other"} :
       Respond(c, Answer(status, body))
  /\ UNCHANGED <<call, clock, begun, sap>>

EndSession ==
  /\ \E s \in alive : alive' = alive \ {s}
  /\ UNCHANGED <<call, request, reply, opened, applied, clock, begun, used, rejected>>

\* Time passes while no deadline is due: the event loop is prompt.
Tick ==
  /\ clock < MaxTime
  /\ \A c \in Calls : ~Due(c)
  /\ clock' = clock + 1
  /\ UNCHANGED <<call, request, reply, begun, sap>>

------------------------------------------------------------------------------

Create(c) ==
  \/ StartCreate(c) \/ FetchFails(c) \/ PostWithToken(c) \/ FetchAgain(c)
  \/ PostAnswered(c) \/ Closed(c) \/ Expire(c)

Read(c) == StartRead(c) \/ ReadAnswered(c)

Sap(c) ==
  \/ GiveToken(c) \/ RefuseToken(c) \/ Write(c) \/ RefuseWrite(c) \/ RejectToken(c)
  \/ AnswerRead(c)

Next ==
  \/ \E c \in Calls : Create(c) \/ Read(c) \/ TransportFails(c) \/ Sap(c)
  \/ EndSession \/ Tick

Spec == Init /\ [][Next]_vars

\* Time passes and a deadline that is due is kept.  Nothing is assumed of SAP.
FairSpec == Spec /\ WF_vars(Tick) /\ \A c \in Calls : WF_vars(Expire(c))

------------------------------------------------------------------------------
(* Properties *)

\* The retry never writes a second time: SAP applies the write of a call at most
\* once, also if it handles it long after the call has ended.
AtMostOneWrite == \A c \in Calls : applied[c] <= 1

\* A value means SAP has applied the write, unless it answered with a redirect,
\* which create() takes for a success; an error of the caller's own (4xx) means
\* it has not and never will.  Only 500, 502 and 504 leave it open.
AnswerTellsTheWrite ==
  \A c \in Calls : At(c, "done") /\ call[c].op = "create" =>
    /\ call[c].result = 200 => applied[c] = 1 \/ call[c].answer = 302
    /\ call[c].result \in 400..499 => applied[c] = 0 /\ request[c] = NoRequest

\* client.py:147-150: SAP's refusal of our technical user must never look like
\* the end of the caller's session.
NeverLooksLikeLogout == \A c \in Calls : call[c].result \notin {401, 403}

\* client.py:7-9: a token travels with the cookie of its session, also after the
\* retry: SAP rejects a call's token no more often than sessions of that call
\* have ended.  No more than that: a 403 for another reason takes the one retry
\* too, and then an expiry is not survived.
RejectionNeedsExpiry ==
  \A c \in Calls : rejected[c] <= Cardinality(used[c] \ alive)

\* client.py:69-70 "One aggregate deadline": no call of create() is in flight
\* longer than the time-out, its retry included.
NeverPinned ==
  \A c \in Calls :
    call[c].op = "create" /\ ~At(c, "done") => clock <= begun[c] + Timeout

\* create() ends though SAP should never answer.
EveryCreateEnds == \A c \in Calls : At(c, "fetching") ~> At(c, "done")

------------------------------------------------------------------------------
(* Refinement *)

Creates == {c \in Calls : call[c].op = "create"}

\* What a value or an exception says of the write.
Means(result, answer) ==
  IF result = 200 THEN IF answer = 302 THEN "moved" ELSE "written"
  ELSE IF result \in 400..499 THEN "refused" ELSE "unknown"

\* What the caller of create() has heard when it is over.
Heard(c) ==
  IF At(c, "done") /\ c \in Creates THEN Means(call[c].result, call[c].answer) ELSE "nothing"

Remote ==
  INSTANCE RemoteWrite WITH
    asked   <- Creates,
    written <- applied,
    told    <- [c \in Calls |-> Heard(c)]

\* Whatever is retried, expires or breaks, a call of create() is a write that is
\* applied at most once and of which its caller is told nothing that is, or later
\* becomes, untrue.
WriteSpec == Remote!Spec
==============================================================================
