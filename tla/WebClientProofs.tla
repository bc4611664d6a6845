-------------------------- MODULE WebClientProofs ---------------------------
(***************************************************************************)
(* Proofs about WebClient, for any sessions, queries, uploads and requests *)
(* under way.                                                              *)
(***************************************************************************)
EXTENDS WebClient, TLAPS

-----------------------------------------------------------------------------
(***************************************************************************)
(* The inductive invariant.                                                *)
(***************************************************************************)

IsEnsure(r) == r.kind = "ensure"
OpensSession(a) == a.req.kind \in {"ensure", "new"} /\ a.ok

\* requests and answers carry what their handlers take from them
RequestFits(r) ==
  /\ r.kind \in {"run", "events", "upload", "get", "delete"} => r.at \in sessions
  /\ r.kind \in {"run", "events"} => r.what \in Queries
  /\ r.kind = "upload" => r.what \in Uploads
AnswerFits(a) ==
  /\ RequestFits(a.req)
  /\ OpensSession(a) => a.data \subseteq sessions
  /\ a.req.kind = "get" => a.data \subseteq Queries
  /\ a.ok /\ a.req.kind = "upload" => a.data \subseteq Uploads
FitInv == (\A r \in sent : RequestFits(r)) /\ (\A a \in answers : AnswerFits(a))

\* there is one request for a session, or none, and somebody waits for it
EnsureInv ==
  /\ creating <=> \E r \in InFlight : IsEnsure(r)
  /\ \A r, s \in sent : IsEnsure(r) /\ IsEnsure(s) => r = s
  /\ \A a, b \in answers : IsEnsure(a.req) /\ IsEnsure(b.req) => a = b
  /\ \A r \in sent, a \in answers : ~(IsEnsure(r) /\ IsEnsure(a.req))

-----------------------------------------------------------------------------
(***************************************************************************)
(* Types: TypeOK needs of the requests and answers that they fit.          *)
(***************************************************************************)

TypedInv == TypeOK /\ FitInv

LEMMA TypedInit ==
  ASSUME Init
  PROVE  TypedInv
<1>1. <<>> \in Seq(Queries)
  OBVIOUS
<1> QED
  BY <1>1 DEF Init, TypedInv, TypeOK, FitInv

\* requests that fit stay so, when those that are added do
LEMMA ProceedTyped ==
  ASSUME TypedInv, NEW jobs \in SUBSET Jobs, NEW s \in sessions,
         NEW loads, \A r \in loads : r \in Requests /\ RequestFits(r),
         Proceed(jobs, s, loads)
  PROVE  /\ sent' \subseteq Requests /\ (\A r \in sent' : RequestFits(r))
         /\ messages' \in [Queries -> {"none", "pending", "stopped", "answered", "error"}]
         /\ streaming' \in BOOLEAN
         /\ asked' \in [Queries -> Sessions \cup {None}]
         /\ chips' \in [Uploads -> {"none", "uploading", "error"} \cup Uploads]
<1>1. /\ sent \subseteq Requests
      /\ messages \in [Queries -> {"none", "pending", "stopped", "answered", "error"}]
      /\ chips \in [Uploads -> {"none", "uploading", "error"} \cup Uploads]
      /\ (\A r \in sent : RequestFits(r)) /\ s \in Sessions
  BY DEF TypedInv, TypeOK, FitInv
<1>2. \A q \in jobs \cap Queries :
        Request("run", s, q) \in Requests /\ RequestFits(Request("run", s, q))
  BY <1>1 DEF Request, Requests, RequestFits, Jobs
<1>3. \A u \in jobs \cap Uploads :
        Request("upload", s, u) \in Requests /\ RequestFits(Request("upload", s, u))
  BY <1>1 DEF Request, Requests, RequestFits, Jobs
<1>4. sent' \subseteq Requests /\ \A r \in sent' : RequestFits(r)
  BY <1>1, <1>2, <1>3 DEF Proceed
<1>5. /\ messages' \in [Queries -> {"none", "pending", "stopped", "answered", "error"}]
      /\ streaming' \in BOOLEAN
      /\ asked' \in [Queries -> Sessions \cup {None}]
  BY <1>1 DEF Proceed, TypedInv, TypeOK
<1>6. chips' \in [Uploads -> {"none", "uploading", "error"} \cup Uploads]
  BY <1>1 DEF Proceed
<1> QED
  BY <1>4, <1>5, <1>6

LEMMA EnsureTyped ==
  ASSUME TypedInv, NEW job \in Jobs, Ensure(job)
  PROVE  /\ sent' \subseteq Requests /\ (\A r \in sent' : RequestFits(r))
         /\ messages' \in [Queries -> {"none", "pending", "stopped", "answered", "error"}]
         /\ streaming' \in BOOLEAN
         /\ asked' \in [Queries -> Sessions \cup {None}]
         /\ chips' \in [Uploads -> {"none", "uploading", "error"} \cup Uploads]
         /\ active' = active /\ listed' = listed /\ creating' \in BOOLEAN /\ waiting' \subseteq Jobs
         /\ waiting' # {} => creating'
<1>1. CASE active # None
  <2>1. active \in sessions
    BY <1>1 DEF TypedInv, TypeOK
  <2>2. Proceed({job}, active, {}) /\ UNCHANGED handlers
    BY <1>1 DEF Ensure
  <2> QED
    BY <2>1, <2>2, ProceedTyped DEF handlers, TypedInv, TypeOK
<1>2. CASE active = None
  <2>1. Request("ensure", None, job) \in Requests /\ RequestFits(Request("ensure", None, job))
    BY DEF Request, Requests, RequestFits
  <2> QED
    BY <1>2, <2>1 DEF Ensure, TypedInv, TypeOK, FitInv
<1> QED
  BY <1>1, <1>2

LEMMA ClickTyped ==
  ASSUME TypedInv, Click
  PROVE  TypedInv'
<1> USE DEF TypedInv
<1>1. ASSUME NEW q \in Queries, Ask(q)
      PROVE  TypedInv'
  <2>1. q \in Jobs /\ Ensure(q)
    BY <1>1 DEF Jobs, Ask
  <2> QED
    BY <1>1, <2>1, EnsureTyped DEF Ask, TypeOK, FitInv, AnswerFits, RequestFits, server
<1>2. ASSUME NEW u \in Uploads, Attach(u)
      PROVE  TypedInv'
  <2>1. u \in Jobs /\ Ensure(u)
    BY <1>2 DEF Jobs, Attach
  <2> QED
    BY <1>2, <2>1, EnsureTyped DEF Attach, TypeOK, FitInv, AnswerFits, RequestFits, server
<1>3. ASSUME NEW u \in Uploads, RemoveUploading(u)
      PROVE  TypedInv'
  BY <1>3 DEF RemoveUploading, TypeOK, FitInv, AnswerFits, RequestFits, server, handlers,
      history
<1>4. ASSUME NEW u \in Uploads, RemoveUploaded(u)
      PROVE  TypedInv'
  <2>1. /\ Request("purge", None, chips[u]) \in Requests
        /\ RequestFits(Request("purge", None, chips[u]))
    BY <1>4 DEF RemoveUploaded, Request, Requests, RequestFits, Jobs
  <2> QED
    BY <1>4, <2>1
    DEF RemoveUploaded, TypeOK, FitInv, AnswerFits, RequestFits, server, handlers, user,
        history
<1>5. ASSUME NEW s \in Sessions, Select(s)
      PROVE  TypedInv'
  <2>1. Request("get", s, None) \in Requests /\ RequestFits(Request("get", s, None))
    BY <1>5 DEF Select, TypeOK, Request, Requests, RequestFits
  <2> QED
    BY <1>5, <2>1 DEF Select, TypeOK, FitInv, AnswerFits, RequestFits, server, user, history
<1>6. ASSUME Stop
      PROVE  TypedInv'
  BY <1>6
  DEF Stop, TypeOK, FitInv, AnswerFits, RequestFits, server, network, handlers, user,
      history
<1>7. ASSUME NewSession
      PROVE  TypedInv'
  <2>1. Request("new", None, None) \in Requests /\ RequestFits(Request("new", None, None))
    BY DEF Request, Requests, RequestFits
  <2> QED
    BY <1>7, <2>1
    DEF NewSession, TypeOK, FitInv, AnswerFits, RequestFits, server, handlers, page, user, history
<1>8. ASSUME NEW s \in Sessions, Delete(s)
      PROVE  TypedInv'
  <2>1. s \in sessions /\ s \in Sessions /\ \A next \in listed : next \in Sessions \cap sessions
    BY <1>8 DEF Delete, TypeOK
  <2>2. /\ Request("delete", s, None) \in Requests /\ RequestFits(Request("delete", s, None))
        /\ \A next \in listed :
             LET r == Request("get", next, None) IN r \in Requests /\ RequestFits(r)
    BY <2>1 DEF Request, Requests, RequestFits
  <2>3. sent' \subseteq Requests /\ \A r \in sent' : RequestFits(r)
    BY <1>8, <2>2 DEF Delete, TypeOK, FitInv
  <2>4. active' \in listed' \cup {None} /\ listed' \subseteq listed
    BY <1>8 DEF Delete, TypeOK
  <2>5. /\ messages' \in [Queries -> {"none", "pending", "stopped", "answered", "error"}]
        /\ chips' \in [Uploads -> {"none", "uploading", "error"} \cup Uploads]
        /\ shown' \in Sessions \cup {None}
    BY <1>8 DEF Delete, TypeOK
  <2>6. UNCHANGED <<server, answers, creating, waiting, streaming, stopping, user, asked>>
    BY <1>8 DEF Delete
  <2> QED
    BY <2>3, <2>4, <2>5, <2>6
    DEF TypeOK, FitInv, AnswerFits, RequestFits, OpensSession, server, user,
        history
<1> QED
  BY <1>1, <1>2, <1>3, <1>4, <1>5, <1>6, <1>7, <1>8 DEF Click

\* what Serve does to the network: the request becomes an answer with data, or none
Replied(r, data) ==
  /\ sent' = sent \ {r}
  /\ \/ answers' = answers
     \/ \E ok \in BOOLEAN : answers' = answers \cup {Answer(r, ok, IF ok THEN data ELSE {})}

LEMMA ReplyReplied ==
  ASSUME NEW r, NEW data, Reply(r, data)
  PROVE  Replied(r, data)
BY DEF Reply, Replied

LEMMA FailReplied ==
  ASSUME NEW r, ServeFails(r)
  PROVE  /\ sent' = sent \ {r}
         /\ answers' = answers \/ answers' = answers \cup {Answer(r, FALSE, {})}
BY DEF ServeFails

LEMMA RepliedTyped ==
  ASSUME TypedInv, NEW r \in sent, NEW data, Replied(r, data),
         sessions \subseteq sessions',
         r.kind \in {"ensure", "new"} => data \subseteq sessions',
         r.kind = "get" => data \subseteq Queries,
         r.kind = "upload" => data \subseteq Uploads
  PROVE  /\ sent' \subseteq Requests
         /\ \A a \in answers' : a.req \in Requests /\ a.ok \in BOOLEAN
         /\ FitInv'
<1>1. /\ sent \subseteq Requests /\ (\A x \in sent : RequestFits(x))
      /\ \A a \in answers : a.req \in Requests /\ a.ok \in BOOLEAN /\ AnswerFits(a)
  BY DEF TypedInv, TypeOK, FitInv
<1>2. \A x : RequestFits(x) => RequestFits(x)'
  BY DEF RequestFits
<1>3. \A a \in answers : AnswerFits(a)'
  BY <1>1, <1>2 DEF AnswerFits, OpensSession
<1>4. ASSUME NEW ok \in BOOLEAN
      PROVE  LET a == Answer(r, ok, IF ok THEN data ELSE {}) IN
             a.req \in Requests /\ a.ok \in BOOLEAN /\ AnswerFits(a)'
  BY <1>1, <1>2 DEF Answer, AnswerFits, OpensSession
<1> QED
  BY <1>1, <1>2, <1>3, <1>4 DEF Replied, FitInv

LEMMA ServeTyped ==
  ASSUME TypedInv, NEW r \in sent, Serve(r)
  PROVE  TypedInv'
<1> USE DEF TypedInv
<1>1. UNCHANGED <<handlers, page, user, history>>
  BY DEF Serve
<1>2. r \in Requests /\ RequestFits(r)
  BY DEF TypeOK, FitInv
<1>3. CASE ServeSession(r)
  <2>1. PICK s \in Sessions \ sessions : sessions' = sessions \cup {s} /\ Reply(r, {s})
    BY <1>3 DEF ServeSession
  <2> QED
    BY <1>1, <1>3, <2>1, ReplyReplied, RepliedTyped
    DEF ServeSession, TypeOK, handlers, page, user, history
<1>4. CASE ServeRead(r)
  <2>1. CASE r.kind = "get" /\ Reply(r, Recent(r.at))
    <3>1. Recent(r.at) \subseteq Queries
      BY <1>2, <2>1 DEF RequestFits, Recent, TypeOK
    <3> QED
      BY <1>1, <1>4, <2>1, <3>1, ReplyReplied, RepliedTyped
      DEF ServeRead, TypeOK, server, handlers, page, user, history
  <2>2. CASE r.kind = "events" /\ Reply(r, {})
    BY <1>1, <1>4, <2>2, ReplyReplied, RepliedTyped
    DEF ServeRead, TypeOK, server, handlers, page, user, history
  <2> QED
    BY <1>4, <2>1, <2>2 DEF ServeRead
<1>5. CASE ServeRun(r)
  <2>1. r.at \in Sessions /\ r.what \in Queries
    BY <1>2, <1>5 DEF ServeRun, RequestFits, TypeOK
  <2>2. turns' \in [Sessions -> Seq(Queries)]
    <3>1. turns \in [Sessions -> Seq(Queries)]
      BY DEF TypeOK
    <3>2. Append(turns[r.at], r.what) \in Seq(Queries)
      BY <2>1, <3>1
    <3> QED
      BY <1>5, <3>1, <3>2 DEF ServeRun
  <2> QED
    BY <1>1, <1>5, <2>2, ReplyReplied, RepliedTyped
    DEF ServeRun, TypeOK, handlers, page, user, history
<1>6. CASE ServeUpload(r)
  <2>1. [id |-> r.what, at |-> r.at] \in [id : Uploads, at : Sessions] /\ {r.what} \subseteq Uploads
    BY <1>2, <1>6 DEF ServeUpload, RequestFits, TypeOK
  <2> QED
    BY <1>1, <1>6, <2>1, ReplyReplied, RepliedTyped
    DEF ServeUpload, TypeOK, handlers, page, user, history
<1>7. CASE ServePurge(r)
  BY <1>1, <1>7, ReplyReplied, RepliedTyped DEF ServePurge, TypeOK, handlers, page, user, history
<1>8. CASE ServeFails(r)
  <2>1. RequestFits(r)' /\ \A a \in answers : AnswerFits(a)'
    BY <1>2, <1>8 DEF RequestFits, AnswerFits, OpensSession, ServeFails, server, FitInv
  <2>2. LET a == Answer(r, FALSE, {}) IN
        a.req \in Requests /\ a.ok \in BOOLEAN /\ AnswerFits(a)'
    BY <1>2, <2>1 DEF Answer, AnswerFits, OpensSession
  <2>3. \A x \in sent' : RequestFits(x)'
    BY <1>8 DEF ServeFails, RequestFits, FitInv, server
  <2> QED
    BY <1>1, <1>8, <2>1, <2>2, <2>3, FailReplied
    DEF ServeFails, FitInv, TypeOK, server, handlers, page, user, history
<1>9. CASE ServeDelete(r)
  <2>1. r.at \in sessions
    BY <1>2, <1>9 DEF ServeDelete, RequestFits
  <2>2. turns' \in [Sessions -> Seq(Queries)]
    <3>1. <<>> \in Seq(Queries)
      OBVIOUS
    <3> QED
      BY <1>9, <3>1 DEF ServeDelete, TypeOK
  <2> QED
    BY <1>1, <1>9, <2>1, <2>2, ReplyReplied, RepliedTyped
    DEF ServeDelete, TypeOK, handlers, page, user, history
<1> QED
  BY <1>3, <1>4, <1>5, <1>6, <1>7, <1>8, <1>9 DEF Serve

LEMMA HandleTyped ==
  ASSUME TypedInv, NEW a \in answers, Handle(a)
  PROVE  TypedInv'
<1> USE DEF TypedInv
<1>1. /\ a.req \in Requests /\ a.ok \in BOOLEAN /\ AnswerFits(a) /\ RequestFits(a.req)
      /\ \A s \in sessions : s \in Sessions
  BY DEF TypeOK, FitInv, AnswerFits
<1>2. \A s \in sessions :
        Request("get", s, None) \in Requests /\ RequestFits(Request("get", s, None))
  BY <1>1 DEF Request, Requests, RequestFits
<1>3. ASSUME Ensured(a)
      PROVE  TypedInv'
  <2>1. PICK s \in a.data :
          active' = s /\ Proceed(waiting, s, {Request("get", s, None)})
    BY <1>3 DEF Ensured
  <2>2. s \in sessions /\ s \in Sessions
    BY <1>1, <1>3 DEF Ensured, Takes, AnswerFits, OpensSession
  <2>3. waiting \in SUBSET Jobs
    BY DEF TypeOK
  <2>4. /\ sent' \subseteq Requests /\ (\A r \in sent' : RequestFits(r))
        /\ messages' \in [Queries -> {"none", "pending", "stopped", "answered", "error"}]
        /\ streaming' \in BOOLEAN
        /\ asked' \in [Queries -> Sessions \cup {None}]
        /\ chips' \in [Uploads -> {"none", "uploading", "error"} \cup Uploads]
    BY <1>2, <2>1, <2>2, <2>3, ProceedTyped
  <2> QED
    BY <1>3, <2>1, <2>2, <2>4
    DEF Ensured, Takes, TypeOK, FitInv, AnswerFits, RequestFits, OpensSession, server, user,
        history
<1>4. ASSUME EnsureFailed(a)
      PROVE  TypedInv'
  BY <1>4
  DEF EnsureFailed, Takes, TypeOK, FitInv, AnswerFits, RequestFits, OpensSession, server, page, user,
      history
<1>5. ASSUME NewOpened(a)
      PROVE  TypedInv'
  <2>1. PICK s \in a.data : active' = s /\ sent' = sent \cup {Request("get", s, None)}
    BY <1>5 DEF NewOpened
  <2>2. s \in sessions /\ s \in Sessions
    BY <1>1, <1>5 DEF NewOpened, Takes, AnswerFits, OpensSession
  <2> QED
    BY <1>2, <1>5, <2>1, <2>2
    DEF NewOpened, Takes, TypeOK, FitInv, AnswerFits, RequestFits, OpensSession, server, user,
        history
<1>6. ASSUME NewFailed(a)
      PROVE  TypedInv'
  BY <1>6
  DEF NewFailed, Takes, TypeOK, FitInv, AnswerFits, RequestFits, OpensSession, server, handlers,
      page, user, history
<1>7. ASSUME ShowTurns(a)
      PROVE  TypedInv'
  <2>1. a.req.at \in Sessions
    BY <1>1, <1>7 DEF ShowTurns, Takes, RequestFits
  <2> QED
    BY <1>7, <2>1
    DEF ShowTurns, Takes, TypeOK, FitInv, AnswerFits, RequestFits, OpensSession, server,
        handlers, user, history
<1>8. ASSUME a.req.kind \in {"run", "events"}
      PROVE  /\ a.req.at \in sessions /\ a.req.what \in Queries
             /\ LET r == Request("events", a.req.at, a.req.what) IN
                r \in Requests /\ RequestFits(r)
             /\ \A by \in {"answered", "error"} : Replace(a.req.what, by) =>
                  messages' \in [Queries -> {"none", "pending", "stopped", "answered", "error"}]
  <2>1. a.req.at \in sessions /\ a.req.what \in Queries
    BY <1>1, <1>8 DEF RequestFits
  <2> QED
    BY <1>1, <2>1 DEF Request, Requests, RequestFits, Jobs, Replace, TypeOK
<1>9. ASSUME FetchEvents(a)
       PROVE  TypedInv'
  <2>1. /\ answers' = answers \ {a}
        /\ sent' = sent \cup {Request("events", a.req.at, a.req.what)}
        /\ UNCHANGED <<server, handlers, page, user, history>>
    BY <1>9 DEF FetchEvents, Takes
  <2>2. /\ Request("events", a.req.at, a.req.what) \in Requests
        /\ RequestFits(Request("events", a.req.at, a.req.what))
    BY <1>8, <1>9 DEF FetchEvents, Takes
  <2>3. TypeOK'
    BY <2>1, <2>2 DEF TypeOK, server, handlers, page, user, history
  <2>4. \A r : RequestFits(r)' <=> RequestFits(r)
    BY <2>1 DEF RequestFits, server
  <2>5. FitInv'
    BY <2>1, <2>2, <2>4 DEF FitInv, AnswerFits, OpensSession, server
  <2> QED
    BY <2>3, <2>5
<1>10. ASSUME DropAnswer(a)
       PROVE  TypedInv'
  BY <1>10
  DEF DropAnswer, Takes, TypeOK, FitInv, AnswerFits, RequestFits, OpensSession, server,
      handlers, user, history
<1>11. ASSUME ShowError(a)
       PROVE  TypedInv'
  BY <1>8, <1>11
  DEF ShowError, Takes, TypeOK, FitInv, AnswerFits, RequestFits, OpensSession, server,
      handlers, user, history
<1>12. ASSUME ShowAnswer(a)
       PROVE  TypedInv'
  BY <1>8, <1>12
  DEF ShowAnswer, Takes, TypeOK, FitInv, AnswerFits, RequestFits, OpensSession, server,
      user, history
<1>13. ASSUME Uploaded(a)
       PROVE  TypedInv'
  <2>1. a.req.what \in Uploads /\ (a.ok => a.data \subseteq Uploads)
    BY <1>1, <1>13 DEF Uploaded, Takes, RequestFits, AnswerFits
  <2>2. chips' \in [Uploads -> {"none", "uploading", "error"} \cup Uploads]
    BY <1>13, <2>1 DEF Uploaded, TypeOK
  <2>3. /\ answers' = answers \ {a}
        /\ UNCHANGED <<server, sent, handlers, messages, streaming, stopping, user, history>>
    BY <1>13 DEF Uploaded, Takes
  <2> QED
    BY <2>2, <2>3
    DEF TypeOK, FitInv, AnswerFits, RequestFits, OpensSession, server, handlers, user, history
<1> QED
  BY <1>3, <1>4, <1>5, <1>6, <1>7, <1>9, <1>10, <1>11, <1>12, <1>13
  DEF Handle

LEMMA TypedStep ==
  ASSUME TypedInv, [Next]_vars
  PROVE  TypedInv'
<1>1. CASE UNCHANGED vars
  BY <1>1
  DEF vars, server, network, handlers, page, user, history, TypedInv, TypeOK, FitInv, AnswerFits,
      RequestFits, OpensSession
<1>2. CASE Next
  BY <1>2, ClickTyped, ServeTyped, HandleTyped DEF Next
<1> QED
  BY <1>1, <1>2

\* The state of the page and of the requests under way keeps its types, and no
\* handler waits for a session that nobody is creating.
THEOREM TypeCorrect == Spec => []TypeOK
<1>1. Spec => []TypedInv
  BY TypedInit, TypedStep, PTL DEF Spec
<1>2. TypedInv => TypeOK
  BY DEF TypedInv
<1> QED
  BY <1>1, <1>2, PTL

-----------------------------------------------------------------------------
(***************************************************************************)
(* The session that is created: each step leaves the requests for one      *)
(* alone, or moves the only one on.                                        *)
(***************************************************************************)

EnsureSent == {r \in sent : IsEnsure(r)}
EnsureAnswers == {a \in answers : IsEnsure(a.req)}
EnsureQuiet == UNCHANGED <<creating, EnsureSent, EnsureAnswers>>

LEMMA EnsureSets ==
  EnsureInv <=>
    /\ creating <=> EnsureSent # {} \/ EnsureAnswers # {}
    /\ \A r, s \in EnsureSent : r = s
    /\ \A a, b \in EnsureAnswers : a = b
    /\ EnsureSent = {} \/ EnsureAnswers = {}
BY DEF EnsureInv, EnsureSent, EnsureAnswers, InFlight

LEMMA EnsureSetsNext ==
  EnsureInv' <=>
    /\ creating' <=> EnsureSent' # {} \/ EnsureAnswers' # {}
    /\ \A r, s \in EnsureSent' : r = s
    /\ \A a, b \in EnsureAnswers' : a = b
    /\ EnsureSent' = {} \/ EnsureAnswers' = {}
BY DEF EnsureInv, EnsureSent, EnsureAnswers, InFlight

LEMMA EnsureUndisturbed ==
  ASSUME EnsureInv, EnsureQuiet
  PROVE  EnsureInv'
BY EnsureSets, EnsureSetsNext DEF EnsureQuiet

LEMMA ProceedEnsure ==
  ASSUME NEW jobs, NEW s, NEW loads, \A r \in loads : ~IsEnsure(r), Proceed(jobs, s, loads)
  PROVE  EnsureSent' = EnsureSent
BY DEF Proceed, EnsureSent, IsEnsure, Request

LEMMA EnsureCreates ==
  ASSUME EnsureInv, NEW job, Ensure(job), answers' = answers
  PROVE  EnsureInv'
<1>1. CASE active # None
  BY <1>1, ProceedEnsure, EnsureUndisturbed DEF Ensure, handlers, EnsureQuiet, EnsureAnswers
<1>2. CASE active = None /\ creating
  BY <1>2, EnsureSets, EnsureSetsNext DEF Ensure, EnsureSent, EnsureAnswers
<1>3. CASE active = None /\ ~creating
  <2>1. IsEnsure(Request("ensure", None, job))
    BY DEF IsEnsure, Request
  <2>2. EnsureSent = {} /\ EnsureAnswers = {}
    BY <1>3, EnsureSets
  <2>3. EnsureSent' = {Request("ensure", None, job)} /\ EnsureAnswers' = {} /\ creating'
    BY <1>3, <2>1, <2>2 DEF Ensure, EnsureSent, EnsureAnswers
  <2> QED
    BY <2>3, EnsureSetsNext
<1> QED
  BY <1>1, <1>2, <1>3

LEMMA ClickEnsure ==
  ASSUME EnsureInv, Click
  PROVE  EnsureInv'
<1> USE DEF EnsureQuiet, EnsureSent, EnsureAnswers, IsEnsure, Request
<1>1. ASSUME NEW q \in Queries, Ask(q)
      PROVE  EnsureInv'
  BY <1>1, EnsureCreates DEF Ask
<1>2. ASSUME NEW u \in Uploads, Attach(u)
      PROVE  EnsureInv'
  BY <1>2, EnsureCreates DEF Attach
<1>3. ASSUME NEW u \in Uploads, RemoveUploading(u)
      PROVE  EnsureQuiet
  BY <1>3 DEF RemoveUploading, handlers
<1>4. ASSUME NEW u \in Uploads, RemoveUploaded(u)
      PROVE  EnsureQuiet
  BY <1>4 DEF RemoveUploaded, handlers
<1>5. ASSUME NEW s \in Sessions, Select(s)
      PROVE  EnsureQuiet
  BY <1>5 DEF Select
<1>6. ASSUME Stop
      PROVE  EnsureQuiet
  BY <1>6 DEF Stop, network, handlers
<1>7. ASSUME NewSession
      PROVE  EnsureQuiet
  BY <1>7 DEF NewSession, handlers
<1>8. ASSUME NEW s \in Sessions, Delete(s)
      PROVE  EnsureQuiet
  BY <1>8 DEF Delete
<1> QED
  BY <1>1, <1>2, <1>3, <1>4, <1>5, <1>6, <1>7, <1>8, EnsureUndisturbed DEF Click

\* a request is served, refused or lost, but not done twice
LEMMA ServeReplies ==
  ASSUME NEW r \in sent, Serve(r)
  PROVE  /\ sent' = sent \ {r}
         /\ UNCHANGED <<handlers, page, user, history>>
         /\ r.kind \notin {"upload", "purge", "delete"} =>
              \E ok, data : answers' = answers \cup {Answer(r, ok, data)}
         /\ answers' = answers \/ \E ok, data : answers' = answers \cup {Answer(r, ok, data)}
<1>1. sent' = sent \ {r}
  BY DEF Serve, ServeSession, ServeRead, ServeRun, ServeUpload, ServePurge, ServeDelete,
         ServeFails, Reply
<1>2. \E ok, data :
        answers' = IF Abandoned(r) THEN answers ELSE answers \cup {Answer(r, ok, data)}
  BY DEF Serve, ServeSession, ServeRead, ServeRun, ServeUpload, ServePurge, ServeDelete,
         ServeFails, Reply
<1> QED
  BY <1>1, <1>2 DEF Abandoned, Serve

LEMMA ServeEnsure ==
  ASSUME EnsureInv, NEW r \in sent, Serve(r)
  PROVE  EnsureInv'
<1>1. sent' = sent \ {r} /\ creating' = creating
  BY ServeReplies DEF handlers
<1>2. CASE r.kind = "ensure"
  <2>1. EnsureSent = {r} /\ EnsureAnswers = {} /\ creating
    BY <1>2, EnsureSets DEF EnsureSent, IsEnsure
  <2>2. PICK ok, data : answers' = answers \cup {Answer(r, ok, data)}
    BY <1>2, ServeReplies
  <2>3. EnsureSent' = {} /\ EnsureAnswers' = {Answer(r, ok, data)}
    BY <1>1, <1>2, <2>1, <2>2 DEF EnsureSent, EnsureAnswers, IsEnsure, Answer
  <2> QED
    BY <1>1, <2>1, <2>3, EnsureSetsNext
<1>3. CASE r.kind # "ensure"
  <2>1. EnsureAnswers' = EnsureAnswers
    BY <1>3, ServeReplies DEF EnsureAnswers, IsEnsure, Answer
  <2>2. EnsureSent' = EnsureSent
    BY <1>1, <1>3 DEF EnsureSent, IsEnsure
  <2> QED
    BY <1>1, <2>1, <2>2, EnsureUndisturbed DEF EnsureQuiet
<1> QED
  BY <1>2, <1>3

LEMMA HandleEnsure ==
  ASSUME EnsureInv, NEW a \in answers, Handle(a)
  PROVE  EnsureInv'
<1>1. CASE Ensured(a) \/ EnsureFailed(a)
  <2>1. EnsureAnswers = {a} /\ EnsureSent = {} /\ answers' = answers \ {a} /\ ~creating'
    BY <1>1, EnsureSets DEF Ensured, EnsureFailed, Takes, EnsureAnswers, IsEnsure
  <2>2. EnsureSent' = EnsureSent
    <3>1. CASE EnsureFailed(a)
      BY <3>1 DEF EnsureFailed, EnsureSent
    <3>2. CASE Ensured(a)
      <4>1. PICK s : Proceed(waiting, s, {Request("get", s, None)})
        BY <3>2 DEF Ensured
      <4>2. ~IsEnsure(Request("get", s, None))
        BY DEF IsEnsure, Request
      <4> QED
        BY <4>1, <4>2, ProceedEnsure
    <3> QED
      BY <1>1, <3>1, <3>2
  <2>3. EnsureAnswers' = {}
    BY <2>1 DEF EnsureAnswers
  <2> QED
    BY <2>1, <2>2, <2>3, EnsureSetsNext
<1>2. CASE ~(Ensured(a) \/ EnsureFailed(a))
  <2>1. a.req.kind # "ensure" /\ answers' = answers \ {a} /\ creating' = creating
    BY <1>2
    DEF Handle, NewOpened, NewFailed, ShowTurns, FetchEvents, DropAnswer,
        ShowError, ShowAnswer, Uploaded, Takes, handlers
  <2>2. EnsureAnswers' = EnsureAnswers
    BY <2>1 DEF EnsureAnswers, IsEnsure
  <2>3. EnsureSent' = EnsureSent
    BY <1>2
    DEF Handle, NewOpened, NewFailed, ShowTurns, FetchEvents, DropAnswer,
        ShowError, ShowAnswer, Uploaded, EnsureSent, IsEnsure, Request
  <2> QED
    BY <2>1, <2>2, <2>3, EnsureUndisturbed DEF EnsureQuiet
<1> QED
  BY <1>1, <1>2

\* However many files and questions wait for it, at most one session is being
\* created, and whoever waits waits for a request that is under way.
THEOREM SessionIsCreatedOnce == Spec => []OneSessionIsCreated
<1>1. Init => EnsureInv
  BY DEF Init, EnsureInv, InFlight
<1>2. EnsureInv /\ [Next]_vars => EnsureInv'
  <2>1. EnsureInv /\ UNCHANGED vars => EnsureInv'
    BY EnsureUndisturbed
    DEF vars, network, handlers, EnsureQuiet, EnsureSent, EnsureAnswers
  <2>2. EnsureInv /\ Next => EnsureInv'
    BY ClickEnsure, ServeEnsure, HandleEnsure DEF Next
  <2> QED
    BY <2>1, <2>2
<1>3. EnsureInv => OneSessionIsCreated
  BY DEF EnsureInv, OneSessionIsCreated, IsEnsure, InFlight
<1> QED
  BY <1>1, <1>2, <1>3, PTL DEF Spec

-----------------------------------------------------------------------------
(***************************************************************************)
(* The chat and the selected session: a query is asked in one session, and *)
(* the runs, the turns and the loads that carry it are of that session.    *)
(***************************************************************************)

Loading == \E r \in InFlight : r.kind = "get"
Carries(r) == r.kind \in {"run", "events"}

AskedInv ==
  /\ waiting \subseteq begun
  /\ \A q \in Queries : q \notin begun \/ q \in waiting => asked[q] = None
  /\ \A r \in InFlight : Carries(r) => asked[r.what] = r.at
  /\ \A s \in Sessions : \A i \in DOMAIN turns[s] : asked[turns[s][i]] = s
  /\ \A a \in answers : a.req.kind = "get" => \A q \in a.data : asked[q] = a.req.at

ShownInv ==
  /\ \A q \in Queries : messages[q] # "none" => asked[q] # None
  /\ ChatIsOfSession

\* what has been asked stays so
Kept == \A q \in Queries : asked[q] # None => asked'[q] = asked[q]

LEMMA NoneIsNoSession ==
  None \notin Sessions
BY JobAssumption

LEMMA AskedKept ==
  ASSUME TypedInv, AskedInv, Kept,
         waiting' \subseteq begun',
         \A q \in Queries : q \notin begun' \/ q \in waiting' => asked'[q] = None,
         \A r \in InFlight' \ InFlight : Carries(r) => asked'[r.what] = r.at,
         \A s \in Sessions : \A i \in DOMAIN turns'[s] :
           \/ i \in DOMAIN turns[s] /\ turns'[s][i] = turns[s][i]
           \/ asked'[turns'[s][i]] = s,
         \A a \in answers' \ answers :
           a.req.kind = "get" => \A q \in a.data : asked'[q] = a.req.at
  PROVE  AskedInv'
<1>1. ASSUME NEW r \in InFlight', Carries(r)
      PROVE  asked'[r.what] = r.at
  <2>1. CASE r \in InFlight
    <3>1. RequestFits(r)
      BY <2>1 DEF TypedInv, FitInv, AnswerFits, InFlight
    <3>2. r.what \in Queries /\ r.at \in Sessions
      BY <1>1, <3>1 DEF RequestFits, Carries, TypedInv, TypeOK
    <3> QED
      BY <1>1, <2>1, <3>2, NoneIsNoSession DEF AskedInv, Kept
  <2> QED
    BY <1>1, <2>1
<1>2. ASSUME NEW s \in Sessions, NEW i \in DOMAIN turns'[s]
      PROVE  asked'[turns'[s][i]] = s
  <2>1. CASE i \in DOMAIN turns[s] /\ turns'[s][i] = turns[s][i]
    <3>1. turns[s][i] \in Queries
      BY <2>1 DEF TypedInv, TypeOK
    <3> QED
      BY <2>1, <3>1, NoneIsNoSession DEF AskedInv, Kept
  <2> QED
    BY <1>2, <2>1
<1>3. ASSUME NEW a \in answers', a.req.kind = "get", NEW q \in a.data
      PROVE  asked'[q] = a.req.at
  <2>1. CASE a \in answers
    <3>1. AnswerFits(a)
      BY <2>1 DEF TypedInv, FitInv
    <3>2. q \in Queries /\ a.req.at \in Sessions
      BY <1>3, <3>1 DEF AnswerFits, RequestFits, TypedInv, TypeOK
    <3> QED
      BY <1>3, <2>1, <3>2, NoneIsNoSession DEF AskedInv, Kept
  <2> QED
    BY <1>3, <2>1
<1> QED
  BY <1>1, <1>2, <1>3 DEF AskedInv

\* a chat is not written to for another session while none is being loaded
LEMMA ShownKept ==
  ASSUME ShownInv, Kept,
         Loading => Loading',
         ~Loading' => active' = active /\ shown' = shown,
         \A q \in Queries : messages'[q] # "none" =>
           \/ messages[q] # "none"
           \/ asked'[q] # None /\ asked'[q] = active
  PROVE  ShownInv'
<1>1. ASSUME NEW q \in Queries, messages'[q] # "none"
      PROVE  asked'[q] # None
  BY <1>1 DEF ShownInv, Kept
<1>2. ASSUME ~Loading', shown' = active', NEW q \in Queries, messages'[q] # "none"
      PROVE  asked'[q] = active'
  <2>1. ~Loading /\ shown = active /\ active' = active
    BY <1>2
  <2>2. messages[q] # "none" => asked[q] = active /\ asked[q] # None
    BY <2>1 DEF ShownInv, ChatIsOfSession, Loading
  <2> QED
    BY <1>2, <2>1, <2>2 DEF Kept
<1> QED
  BY <1>1, <1>2 DEF ShownInv, ChatIsOfSession, Loading

\* a chat that is empty, or about to be loaded
LEMMA ShownLater ==
  ASSUME ShownInv, Kept,
         \A q \in Queries : messages'[q] # "none" => messages[q] # "none" \/ asked'[q] # None,
         Loading' \/ \A q \in Queries : messages'[q] = "none"
  PROVE  ShownInv'
BY DEF ShownInv, ChatIsOfSession, Loading, Kept

ChatInv == AskedInv /\ ShownInv

LEMMA ChatProceed ==
  ASSUME TypedInv, ChatInv, NEW jobs \in SUBSET Jobs, NEW s \in sessions, NEW loads,
         Proceed(jobs, s, loads), \A r \in loads : r.kind = "get",
         turns' = turns, answers' \subseteq answers,
         \A a \in answers \ answers' : a.req.kind # "get",
         jobs \subseteq begun', begun \subseteq begun', waiting' \subseteq waiting \ jobs,
         \A j \in jobs : j \in waiting \/ j \notin begun,
         \/ s = active /\ active' = active /\ shown' = shown
         \/ loads # {}
  PROVE  ChatInv'
<1>1. s \in Sessions
  BY DEF TypedInv, TypeOK
<1>2. \A q \in Queries : asked'[q] = IF q \in jobs THEN s ELSE asked[q]
  BY DEF Proceed
<1>3. Kept
  BY <1>2 DEF Kept, ChatInv, AskedInv
<1>4. \A r \in InFlight' \ InFlight : Carries(r) => asked'[r.what] = r.at
  BY <1>2 DEF Proceed, InFlight, Carries, Request, Jobs
<1>5. AskedInv'
  <2>1. /\ waiting' \subseteq begun'
        /\ \A q \in Queries : q \notin begun' \/ q \in waiting' => asked'[q] = None
    BY <1>2 DEF ChatInv, AskedInv
  <2> QED
    BY <1>3, <1>4, <2>1, AskedKept DEF ChatInv
<1>6. Loading => Loading'
  BY DEF Loading, InFlight, Proceed
<1>7. \A q \in Queries : messages'[q] # "none" => messages[q] # "none" \/ (q \in jobs /\ asked'[q] = s)
  BY <1>2 DEF Proceed
<1>8. s # None
  BY <1>1, NoneIsNoSession
<1>9. CASE loads # {}
  <2>1. Loading'
    BY <1>9 DEF Loading, InFlight, Proceed
  <2> QED
    BY <1>3, <1>5, <1>7, <1>8, <2>1, ShownLater DEF ChatInv
<1>10. CASE s = active /\ active' = active /\ shown' = shown
  <2>1. \A q \in Queries : messages'[q] # "none" =>
          \/ messages[q] # "none"
          \/ asked'[q] # None /\ asked'[q] = active
    BY <1>7, <1>8, <1>10
  <2>2. ~Loading' => active' = active /\ shown' = shown
    BY <1>10
  <2>3. ShownInv'
    BY <1>3, <1>6, <2>1, <2>2, ShownKept DEF ChatInv
  <2> QED
    BY <1>5, <2>3 DEF ChatInv
<1> QED
  BY <1>9, <1>10

\* a step that asks nothing and stores nothing
LEMMA ChatQuiet ==
  ASSUME TypedInv, ChatInv, UNCHANGED <<turns, asked>>,
         waiting' \subseteq waiting \cup (begun' \ begun), begun \subseteq begun',
         \A q \in Queries : q \notin begun' => q \notin begun,
         \A r \in InFlight' \ InFlight : Carries(r) => asked[r.what] = r.at,
         \A a \in answers' \ answers : a.req.kind # "get",
         \/ /\ UNCHANGED <<active, shown>> /\ (Loading => Loading')
            /\ \A q \in Queries : messages'[q] # "none" => messages[q] # "none"
         \/ /\ Loading'
            /\ \A q \in Queries : messages'[q] # "none" => messages[q] # "none"
         \/ \A q \in Queries : messages'[q] = "none"
  PROVE  ChatInv'
<1>1. Kept
  BY DEF Kept
<1>2. AskedInv'
  <2>1. waiting' \subseteq begun'
    BY DEF ChatInv, AskedInv
  <2>2. \A q \in Queries : q \notin begun' \/ q \in waiting' => asked'[q] = None
    BY DEF ChatInv, AskedInv
  <2> QED
    BY <1>1, <2>1, <2>2, AskedKept DEF ChatInv
<1>3. ShownInv'
  <2>1. CASE /\ UNCHANGED <<active, shown>> /\ (Loading => Loading')
             /\ \A q \in Queries : messages'[q] # "none" => messages[q] # "none"
    <3>1. ~Loading' => active' = active /\ shown' = shown
      BY <2>1
    <3>2. \A q \in Queries : messages'[q] # "none" =>
            \/ messages[q] # "none"
            \/ asked'[q] # None /\ asked'[q] = active
      BY <2>1
    <3>3. Loading => Loading'
      BY <2>1
    <3>4. ShownInv
      BY DEF ChatInv
    <3> QED
      BY <1>1, <3>1, <3>2, <3>3, <3>4, ShownKept
  <2>2. CASE /\ Loading'
             /\ \A q \in Queries : messages'[q] # "none" => messages[q] # "none"
    BY <1>1, <2>2, ShownLater DEF ChatInv
  <2>3. CASE \A q \in Queries : messages'[q] = "none"
    BY <1>1, <2>3, ShownLater DEF ChatInv
  <2> QED
    BY <2>1, <2>2, <2>3
<1> QED
  BY <1>2, <1>3 DEF ChatInv

LEMMA ClickChat ==
  ASSUME TypedInv, ChatInv, Click
  PROVE  ChatInv'
<1>1. ASSUME NEW job \in Jobs, job \notin begun, begun' = begun \cup {job}, Ensure(job),
             UNCHANGED <<turns, answers, shown>>
      PROVE  ChatInv'
  <2>1. CASE active # None
    <3>1. Proceed({job}, active, {}) /\ UNCHANGED handlers /\ active \in sessions
      BY <1>1, <2>1 DEF Ensure, TypedInv, TypeOK
    <3>2. job \notin waiting
      BY <1>1 DEF ChatInv, AskedInv
    <3> QED
      BY <1>1, <3>1, <3>2, ChatProceed DEF handlers
  <2>2. CASE active = None
    <3>1. /\ UNCHANGED <<active, messages, asked>> /\ waiting' = waiting \cup {job}
          /\ sent \subseteq sent' /\ \A r \in sent' \ sent : r.kind = "ensure"
      BY <2>2, <1>1 DEF Ensure, Request
    <3>2. /\ InFlight \subseteq InFlight'
          /\ \A r \in InFlight' \ InFlight : ~Carries(r)
      BY <1>1, <3>1 DEF InFlight, Carries
    <3>3. Loading => Loading'
      BY <3>2 DEF Loading
    <3> QED
      BY <1>1, <3>1, <3>2, <3>3, ChatQuiet
  <2> QED
    BY <2>1, <2>2
<1>2. ASSUME NEW q \in Queries, Ask(q)
      PROVE  ChatInv'
  BY <1>1, <1>2 DEF Ask, Jobs, server
<1>3. ASSUME NEW u \in Uploads, Attach(u)
      PROVE  ChatInv'
  BY <1>1, <1>3 DEF Attach, Jobs, server
<1>4. ASSUME UNCHANGED <<turns, asked, waiting, begun>>, answers' \subseteq answers,
             \A r \in sent' \ sent : ~Carries(r),
             \A r \in InFlight : r.kind = "get" => r \in InFlight',
             UNCHANGED <<active, shown>> \/ Loading' \/ \A q \in Queries : messages'[q] = "none",
             \A q \in Queries : messages'[q] # "none" => messages[q] # "none"
      PROVE  ChatInv'
  <2>1. Loading => Loading'
    BY <1>4 DEF Loading
  <2>2. \A r \in InFlight' \ InFlight : ~Carries(r)
    BY <1>4 DEF InFlight
  <2> QED
    BY <1>4, <2>1, <2>2, ChatQuiet
<1>5. ASSUME NEW u \in Uploads, RemoveUploading(u)
      PROVE  ChatInv'
  BY <1>4, <1>5 DEF RemoveUploading, server, handlers, history, InFlight
<1>6. ASSUME NEW u \in Uploads, RemoveUploaded(u)
      PROVE  ChatInv'
  BY <1>4, <1>6 DEF RemoveUploaded, server, handlers, user, history, InFlight, Carries, Request
<1>7. ASSUME NEW s \in Sessions, Select(s)
      PROVE  ChatInv'
  <2>1. Request("get", s, None) \in sent' /\ Request("get", s, None).kind = "get"
    BY <1>7 DEF Select, Request
  <2>2. Loading'
    BY <2>1 DEF Loading, InFlight
  <2>3. \A r \in sent' \ sent : ~Carries(r)
    BY <1>7 DEF Select, Carries, Request
  <2> QED
    BY <1>4, <1>7, <2>2, <2>3 DEF Select, server, user, history, InFlight
<1>8. ASSUME NEW s \in Sessions, Delete(s)
      PROVE  ChatInv'
  <2>1. \A r \in sent' \ sent : ~Carries(r)
    BY <1>8 DEF Delete, Carries, Request
  <2>2. UNCHANGED <<active, messages, shown>> \/ Loading' \/ \A q \in Queries : messages'[q] = "none"
    <3>1. CASE active # s \/ listed' = {}
      BY <1>8, <3>1 DEF Delete
    <3>2. ASSUME NEW next, sent' = sent \cup {Request("get", next, None), Request("delete", s, None)}
          PROVE  Loading'
      <4>1. Request("get", next, None) \in sent' /\ Request("get", next, None).kind = "get"
        BY <3>2 DEF Request
      <4> QED
        BY <4>1 DEF Loading, InFlight
    <3> QED
      BY <1>8, <3>1, <3>2 DEF Delete
  <2>3. \A q \in Queries : messages'[q] # "none" => messages[q] # "none"
    BY <1>8 DEF Delete
  <2> QED
    BY <1>4, <1>8, <2>1, <2>2, <2>3 DEF Delete, server, user, InFlight
<1>9. ASSUME Stop
      PROVE  ChatInv'
  BY <1>4, <1>9 DEF Stop, server, network, handlers, user, history, InFlight
<1>10. ASSUME NewSession
       PROVE  ChatInv'
  BY <1>4, <1>10
  DEF NewSession, server, handlers, page, user, history, InFlight, Carries, Request
<1> QED
  BY <1>2, <1>3, <1>5, <1>6, <1>7, <1>8, <1>9, <1>10 DEF Click

\* a load is told what was asked in its session
LEMMA ServeChat ==
  ASSUME TypedInv, ChatInv, NEW r \in sent, Serve(r)
  PROVE  ChatInv'
<1>1. /\ sent' = sent \ {r} /\ RequestFits(r)
      /\ UNCHANGED <<active, waiting, messages, begun, asked, shown>>
  BY ServeReplies DEF handlers, page, user, history, TypedInv, FitInv
<1>2. InFlight' \subseteq InFlight
  BY <1>1, ServeReplies DEF InFlight, Answer
<1>3. Loading => Loading'
  <2>1. ASSUME NEW x \in InFlight, x.kind = "get"
        PROVE  x \in InFlight'
    <3>1. CASE x \in sent \ {r}
      BY <1>1, <3>1 DEF InFlight
    <3>2. CASE x = r
      <4>1. PICK ok, data : answers' = answers \cup {Answer(r, ok, data)}
        BY <2>1, <3>2, ServeReplies
      <4> QED
        BY <3>2, <4>1 DEF InFlight, Answer
    <3>3. ASSUME NEW a \in answers, x = a.req
          PROVE  x \in InFlight'
      BY <3>3, ServeReplies DEF InFlight
    <3> QED
      BY <3>1, <3>2, <3>3 DEF InFlight
  <2> QED
    BY <2>1 DEF Loading
<1>4. ASSUME NEW a \in answers' \ answers, a.req.kind = "get", NEW q \in a.data
      PROVE  asked[q] = a.req.at
  <2>1. PICK data : \/ Reply(r, data) /\ (r.kind = "get" => data = Recent(r.at))
                    \/ ServeFails(r)
    BY DEF Serve, ServeSession, ServeRead, ServeRun, ServeUpload, ServePurge, ServeDelete
  <2>2. CASE ServeFails(r)
    BY <1>4, <2>2 DEF ServeFails, Answer
  <2>3. CASE Reply(r, data) /\ (r.kind = "get" => data = Recent(r.at))
    <3>1. a.req = r /\ a.data \subseteq data
      BY <1>4, <2>3 DEF Reply, Answer
    <3>2. r.at \in Sessions
      BY <1>1, <1>4, <3>1 DEF RequestFits, TypedInv, TypeOK
    <3> QED
      BY <1>4, <2>3, <3>1, <3>2 DEF Recent, ChatInv, AskedInv
  <2> QED
    BY <2>1, <2>2, <2>3
<1>5. ASSUME NEW s \in Sessions, NEW i \in DOMAIN turns'[s]
      PROVE  \/ i \in DOMAIN turns[s] /\ turns'[s][i] = turns[s][i]
             \/ asked[turns'[s][i]] = s
  <2>1. turns \in [Sessions -> Seq(Queries)]
    BY DEF TypedInv, TypeOK
  <2>2. CASE turns' = turns
    BY <1>5, <2>2
  <2>3. CASE turns' = [turns EXCEPT ![r.at] = <<>>]
    BY <1>5, <2>1, <2>3
  <2>4. CASE r.kind = "run" /\ turns' = [turns EXCEPT ![r.at] = Append(@, r.what)]
    <3>1. CASE s # r.at
      BY <1>5, <2>1, <2>4, <3>1
    <3>2. CASE s = r.at
      <4>1. r.what \in Queries /\ asked[r.what] = s
        BY <1>1, <2>4, <3>2 DEF RequestFits, ChatInv, AskedInv, Carries, InFlight
      <4>2. turns'[s] = Append(turns[s], r.what) /\ turns[s] \in Seq(Queries)
        BY <2>1, <2>4, <3>2
      <4>3. \/ i \in 1..Len(turns[s]) /\ turns'[s][i] = turns[s][i]
            \/ turns'[s][i] = r.what
        BY <4>1, <4>2, <1>5
      <4> QED
        BY <4>1, <4>2, <4>3
    <3> QED
      BY <3>1, <3>2
  <2> QED
    BY <2>2, <2>3, <2>4
    DEF Serve, ServeSession, ServeRead, ServeRun, ServeUpload, ServePurge, ServeDelete,
        ServeFails, server
<1>6. Kept
  BY <1>1 DEF Kept
<1>7. AskedInv'
  <2>1. /\ waiting' \subseteq begun'
        /\ \A q \in Queries : q \notin begun' \/ q \in waiting' => asked'[q] = None
    BY <1>1 DEF ChatInv, AskedInv
  <2>2. \A x \in InFlight' \ InFlight : Carries(x) => asked'[x.what] = x.at
    BY <1>2
  <2> QED
    BY <1>1, <1>4, <1>5, <1>6, <2>1, <2>2, AskedKept DEF ChatInv
<1>8. ShownInv'
  <2>1. ~Loading' => active' = active /\ shown' = shown
    BY <1>1
  <2>2. \A q \in Queries : messages'[q] # "none" => messages[q] # "none"
    BY <1>1
  <2>3. ShownInv
    BY DEF ChatInv
  <2> QED
    BY <1>3, <1>6, <2>1, <2>2, <2>3, ShownKept
<1> QED
  BY <1>7, <1>8 DEF ChatInv

LEMMA HandleChat ==
  ASSUME TypedInv, ChatInv, NEW a \in answers, Handle(a)
  PROVE  ChatInv'
<1>0. a.req \in InFlight /\ AnswerFits(a)
  BY DEF InFlight, TypedInv, FitInv
<1>1. CASE Ensured(a)
  <2>1. PICK s \in a.data : Proceed(waiting, s, {Request("get", s, None)})
    BY <1>1 DEF Ensured
  <2>2. /\ answers' = answers \ {a} /\ a.req.kind = "ensure" /\ waiting' = {}
        /\ UNCHANGED <<begun, turns>> /\ s \in sessions
    BY <1>0, <1>1 DEF Ensured, Takes, user, server, AnswerFits, OpensSession
  <2>3. waiting \subseteq begun /\ waiting \in SUBSET Jobs
    BY DEF ChatInv, AskedInv, TypedInv, TypeOK
  <2>4. \A r \in {Request("get", s, None)} : r.kind = "get"
    BY DEF Request
  <2> QED
    BY <2>1, <2>2, <2>3, <2>4, ChatProceed
<1>2. CASE ShowTurns(a)
  <2>1. /\ answers' = answers \ {a} /\ a.req.kind = "get"
        /\ messages' = [q \in Queries |-> IF a.ok /\ q \in a.data THEN "answered" ELSE "none"]
        /\ shown' = a.req.at /\ sent' = sent
        /\ UNCHANGED <<turns, waiting, begun, asked>>
    BY <1>2 DEF ShowTurns, Takes, server, handlers, user
  <2>2. \A q \in Queries : messages'[q] # "none" => asked'[q] = shown'
    BY <2>1 DEF ChatInv, AskedInv
  <2>3. shown' # None
    BY <1>0, <2>1, NoneIsNoSession DEF AnswerFits, RequestFits, TypedInv, TypeOK
  <2>4. ShownInv'
    BY <2>2, <2>3 DEF ShownInv, ChatIsOfSession
  <2>5. \A r \in InFlight' \ InFlight : ~Carries(r)
    BY <2>1 DEF InFlight, Carries, Request
  <2>6. AskedInv'
    <3>1. Kept
      BY <2>1 DEF Kept
    <3>2. /\ waiting' \subseteq begun'
          /\ \A q \in Queries : q \notin begun' \/ q \in waiting' => asked'[q] = None
      BY <2>1 DEF ChatInv, AskedInv
    <3> QED
      BY <2>1, <2>5, <3>1, <3>2, AskedKept DEF ChatInv
  <2> QED
    BY <2>4, <2>6 DEF ChatInv
<1>3. ASSUME answers' = answers \ {a}, UNCHANGED <<turns, asked, begun>>, waiting' \subseteq waiting,
             a.req.kind # "get", sent \subseteq sent',
             \A r \in sent' \ sent : Carries(r) => asked[r.what] = r.at,
             UNCHANGED <<active, shown>> \/ \A q \in Queries : messages'[q] = "none",
             \A q \in Queries : messages'[q] # "none" => messages[q] # "none"
      PROVE  ChatInv'
  <2>1. Loading => Loading'
    BY <1>3 DEF Loading, InFlight
  <2>2. \A r \in InFlight' \ InFlight : Carries(r) => asked[r.what] = r.at
    BY <1>3 DEF InFlight
  <2> QED
    BY <1>3, <2>1, <2>2, ChatQuiet
<1>4. CASE NewOpened(a)
  <2>1. \A r \in sent' \ sent : ~Carries(r)
    BY <1>4 DEF NewOpened, Carries, Request
  <2>2. \A q \in Queries : messages'[q] = "none"
    BY <1>4 DEF NewOpened
  <2>3. sent \subseteq sent' /\ a.req.kind # "get"
    BY <1>4 DEF NewOpened, Takes
  <2> QED
    BY <1>3, <1>4, <2>1, <2>2, <2>3 DEF NewOpened, Takes, server, user
<1>5. CASE EnsureFailed(a) \/ NewFailed(a) \/ DropAnswer(a) \/ Uploaded(a)
  BY <1>3, <1>5
  DEF EnsureFailed, NewFailed, DropAnswer, Uploaded, Takes, server, handlers,
      page, user, history
<1>6. CASE FetchEvents(a)
  <2>1. asked[a.req.what] = a.req.at
    BY <1>0, <1>6 DEF FetchEvents, Takes, ChatInv, AskedInv, Carries
  <2>2. \A r \in sent' \ sent : Carries(r) => asked[r.what] = r.at
    BY <1>6, <2>1 DEF FetchEvents, Request
  <2> QED
    BY <1>3, <1>6, <2>2 DEF FetchEvents, Takes, server, handlers, page, user, history
<1>7. ASSUME NEW by, Replace(a.req.what, by)
      PROVE  \A q \in Queries : messages'[q] # "none" => messages[q] # "none"
  BY <1>7 DEF Replace, TypedInv, TypeOK
<1>8. CASE ShowError(a) \/ ShowAnswer(a)
  BY <1>3, <1>7, <1>8 DEF ShowError, ShowAnswer, Takes, server, handlers, user, history
<1> QED
  BY <1>1, <1>2, <1>4, <1>5, <1>6, <1>8 DEF Handle

\* For any sessions, questions and files, and however many requests are under way:
\* when the last load that arrived was of the selected session, and no other is on
\* its way, everything in the chat was asked in that session.
THEOREM ChatShowsItsSession == Spec => []ChatIsOfSession
<1>1. Init => ChatInv
  BY DEF Init, ChatInv, AskedInv, ShownInv, ChatIsOfSession, InFlight
<1>2. TypedInv /\ ChatInv /\ [Next]_vars => ChatInv'
  <2>1. TypedInv /\ ChatInv /\ UNCHANGED vars => ChatInv'
    BY DEF vars, server, network, handlers, page, user, history, ChatInv, AskedInv, ShownInv,
           ChatIsOfSession, InFlight
  <2>2. TypedInv /\ ChatInv /\ Next => ChatInv'
    BY ClickChat, ServeChat, HandleChat DEF Next
  <2> QED
    BY <2>1, <2>2
<1>3. ChatInv => ChatIsOfSession
  BY DEF ChatInv, ShownInv
<1>4. Spec => []TypedInv
  BY TypedInit, TypedStep, PTL DEF Spec
<1> QED
  BY <1>1, <1>2, <1>3, <1>4, PTL DEF Spec

-----------------------------------------------------------------------------
(***************************************************************************)
(* What the page says is under way is: what PageComesToRest rests on       *)
(* besides fairness.                                                       *)
(***************************************************************************)

IsAsked(r) == r.kind \in {"run", "events"}
IsUpload(r, u) == r.kind = "upload" /\ r.what = u
UploadUnderWay(u) == \E r \in InFlight : IsUpload(r, u)

\* a job is begun, waits for a session, has been sent, and may be taken back, in this order
PendingInv ==
  /\ waiting \cup removed \subseteq begun /\ waiting \cap removed = {}
  /\ streaming => \E r \in InFlight : IsAsked(r)
  /\ \A u \in Uploads :
       chips[u] = "uploading" => u \in begun \ (waiting \cup removed) /\ UploadUnderWay(u)

\* nothing new is sent for a question or a file; some of them may begin to wait
LEMMA PendingQuiet ==
  ASSUME PendingInv, InFlight \subseteq InFlight',
         begun \subseteq begun', waiting' \subseteq waiting \cup (begun' \ begun),
         removed' = removed, streaming' => streaming,
         \A u \in Uploads : chips'[u] = "uploading" => chips[u] = "uploading"
  PROVE  PendingInv'
<1>1. \A u \in Uploads : UploadUnderWay(u) => UploadUnderWay(u)'
  BY DEF UploadUnderWay
<1>2. \A u \in Uploads :
        chips'[u] = "uploading" => u \in begun' \ (waiting' \cup removed') /\ UploadUnderWay(u)'
  BY <1>1 DEF PendingInv
<1>3. waiting' \cup removed' \subseteq begun' /\ waiting' \cap removed' = {}
  BY DEF PendingInv
<1>4. streaming' => \E r \in InFlight' : IsAsked(r)
  BY DEF PendingInv
<1> QED
  BY <1>2, <1>3, <1>4 DEF PendingInv

\* handlers go on with a session: what they say is under way, they send
LEMMA PendingProceed ==
  ASSUME PendingInv, NEW jobs \in SUBSET Jobs, NEW s, NEW loads, Proceed(jobs, s, loads),
         {a.req : a \in answers} \ {a.req : a \in answers'} \subseteq
           {r \in InFlight : r.kind = "ensure"},
         jobs \subseteq begun', begun \subseteq begun',
         \A j \in jobs : j \in waiting \/ j \notin begun,
         waiting' \subseteq waiting \ jobs, removed' = removed
  PROVE  PendingInv'
<1>1. jobs \cap removed = {}
  BY DEF PendingInv
<1>2. \A r \in InFlight : r.kind # "ensure" => r \in InFlight'
  BY DEF InFlight, Proceed
<1>3. ASSUME NEW u \in Uploads, chips'[u] = "uploading"
      PROVE  u \in begun' \ (waiting' \cup removed') /\ UploadUnderWay(u)'
  <2>1. CASE u \in jobs
    <3>1. Request("upload", s, u) \in InFlight'
      BY <2>1, <1>3 DEF Proceed, InFlight
    <3>2. IsUpload(Request("upload", s, u), u)
      BY DEF IsUpload, Request
    <3>3. UploadUnderWay(u)'
      BY <3>1, <3>2 DEF UploadUnderWay
    <3> QED
      BY <2>1, <3>3, <1>1
  <2>2. CASE u \notin jobs
    <3>1. chips[u] = "uploading"
      BY <2>2, <1>3 DEF Proceed
    <3>2. UploadUnderWay(u)'
      BY <3>1, <1>2 DEF PendingInv, UploadUnderWay, IsUpload
    <3> QED
      BY <3>1, <3>2 DEF PendingInv
  <2> QED
    BY <2>1, <2>2
<1>4. streaming' => \E r \in InFlight' : IsAsked(r)
  <2>1. CASE jobs \cap Queries # {}
    <3>1. PICK q \in jobs \cap Queries : TRUE
      BY <2>1
    <3>2. Request("run", s, q) \in InFlight' /\ IsAsked(Request("run", s, q))
      BY <3>1 DEF Proceed, InFlight, Request, IsAsked
    <3> QED
      BY <3>2
  <2>2. CASE jobs \cap Queries = {}
    BY <2>2, <1>2 DEF Proceed, PendingInv, IsAsked
  <2> QED
    BY <2>1, <2>2
<1>5. waiting' \cup removed' \subseteq begun' /\ waiting' \cap removed' = {}
  BY DEF PendingInv
<1> QED
  BY <1>3, <1>4, <1>5 DEF PendingInv

LEMMA ClickPending ==
  ASSUME TypedInv, PendingInv, Click
  PROVE  PendingInv'
<1>0. chips \in [Uploads -> {"none", "uploading", "error"} \cup Uploads]
  BY DEF TypedInv, TypeOK
<1>1. ASSUME NEW job \in Jobs, job \notin begun, begun' = begun \cup {job}, Ensure(job),
             answers' = answers, removed' = removed
      PROVE  PendingInv'
  <2>1. CASE active # None
    <3>1. Proceed({job}, active, {}) /\ waiting' = waiting
      BY <1>1, <2>1 DEF Ensure, handlers
    <3>2. job \notin waiting
      BY <1>1 DEF PendingInv
    <3> QED
      BY <1>1, <3>1, <3>2, PendingProceed
  <2>2. CASE active = None
    <3>1. /\ InFlight \subseteq InFlight' /\ waiting' = waiting \cup {job}
          /\ UNCHANGED <<streaming, chips>>
      BY <1>1, <2>2 DEF Ensure, InFlight
    <3> QED
      BY <1>1, <3>1, PendingQuiet
  <2> QED
    BY <2>1, <2>2
<1>2. ASSUME NEW q \in Queries, Ask(q)
      PROVE  PendingInv'
  BY <1>1, <1>2 DEF Ask, Jobs
<1>3. ASSUME NEW u \in Uploads, Attach(u)
      PROVE  PendingInv'
  BY <1>1, <1>3 DEF Attach, Jobs
<1>4. ASSUME NEW u \in Uploads, RemoveUploading(u)
      PROVE  PendingInv'
  <2>1. /\ removed' = removed \cup {u} /\ UNCHANGED <<sent, waiting, streaming, begun>>
        /\ answers' = {a \in answers : ~(a.req.kind = "upload" /\ a.req.what = u)}
        /\ chips' = [chips EXCEPT ![u] = "none"] /\ chips[u] = "uploading"
    BY <1>4 DEF RemoveUploading, handlers
  <2>2. \A r \in InFlight : ~IsUpload(r, u) => r \in InFlight'
    BY <2>1 DEF InFlight, IsUpload
  <2>3. u \in begun \ waiting
    BY <2>1 DEF PendingInv
  <2>4. waiting' \cup removed' \subseteq begun' /\ waiting' \cap removed' = {}
    BY <2>1, <2>3 DEF PendingInv
  <2>5. streaming' => \E r \in InFlight' : IsAsked(r)
    BY <2>1, <2>2 DEF PendingInv, IsUpload, IsAsked
  <2>6. ASSUME NEW v \in Uploads, chips'[v] = "uploading"
        PROVE  v \in begun' \ (waiting' \cup removed') /\ UploadUnderWay(v)'
    <3>1. v # u /\ chips[v] = "uploading"
      BY <2>1, <2>6, <1>0
    <3>2. UploadUnderWay(v)'
      BY <3>1, <2>2 DEF PendingInv, UploadUnderWay, IsUpload
    <3> QED
      BY <2>1, <3>1, <3>2 DEF PendingInv
  <2> QED
    BY <2>4, <2>5, <2>6 DEF PendingInv
<1>5. ASSUME NEW u \in Uploads, RemoveUploaded(u)
      PROVE  PendingInv'
  <2>1. /\ InFlight \subseteq InFlight' /\ UNCHANGED <<waiting, removed, begun, streaming>>
        /\ chips' = [chips EXCEPT ![u] = "none"]
    BY <1>5 DEF RemoveUploaded, InFlight, handlers, user
  <2> QED
    BY <2>1, <1>0, PendingQuiet
<1>6. ASSUME NEW s \in Sessions, Select(s) \/ Delete(s)
      PROVE  PendingInv'
  <2>1. /\ InFlight \subseteq InFlight' /\ UNCHANGED <<waiting, removed, begun, streaming>>
        /\ chips' = chips \/ chips' = [u \in Uploads |-> "none"]
    BY <1>6 DEF Select, Delete, InFlight, user
  <2> QED
    BY <2>1, PendingQuiet
<1>7. ASSUME Stop \/ NewSession
      PROVE  PendingInv'
  <2>1. /\ InFlight \subseteq InFlight' /\ UNCHANGED <<waiting, removed, begun, chips>>
        /\ streaming' => streaming
    BY <1>7 DEF Stop, NewSession, InFlight, network, handlers, page, user
  <2> QED
    BY <2>1, PendingQuiet
<1> QED
  BY <1>2, <1>3, <1>4, <1>5, <1>6, <1>7 DEF Click

\* the server drops no request whose handler is there to be told
LEMMA ServePending ==
  ASSUME PendingInv, NEW r \in sent, Serve(r)
  PROVE  PendingInv'
<1>1. sent' = sent \ {r} /\ UNCHANGED <<waiting, removed, begun, streaming, chips>>
  BY ServeReplies DEF handlers, page, user
<1>2. \E ok, data :
        answers' = IF Abandoned(r) THEN answers ELSE answers \cup {Answer(r, ok, data)}
  BY DEF Serve, ServeSession, ServeRead, ServeRun, ServeUpload, ServePurge, ServeDelete,
         ServeFails, Reply
<1>3. \A x \in InFlight : x \in InFlight' \/ (x = r /\ Abandoned(r))
  BY <1>1, <1>2 DEF InFlight, Answer
<1>4. streaming' => \E x \in InFlight' : IsAsked(x)
  BY <1>1, <1>3 DEF PendingInv, Abandoned, IsAsked
<1>5. ASSUME NEW u \in Uploads, chips'[u] = "uploading"
      PROVE  u \in begun' \ (waiting' \cup removed') /\ UploadUnderWay(u)'
  <2>1. u \in begun \ (waiting \cup removed)
    BY <1>1, <1>5 DEF PendingInv
  <2>2. PICK x \in InFlight : IsUpload(x, u)
    BY <1>1, <1>5 DEF PendingInv, UploadUnderWay
  <2>3. x \in InFlight'
    BY <1>3, <2>1, <2>2 DEF Abandoned, IsUpload
  <2> QED
    BY <1>1, <2>1, <2>2, <2>3 DEF UploadUnderWay
<1>6. waiting' \cup removed' \subseteq begun' /\ waiting' \cap removed' = {}
  BY <1>1 DEF PendingInv
<1> QED
  BY <1>4, <1>5, <1>6 DEF PendingInv

\* an answer that is taken ends what its request had started
LEMMA HandlePending ==
  ASSUME TypedInv, PendingInv, NEW a \in answers, Handle(a)
  PROVE  PendingInv'
<1>0. /\ chips \in [Uploads -> {"none", "uploading", "error"} \cup Uploads]
      /\ waiting \subseteq Jobs /\ "uploading" \notin Uploads
  BY ChipAssumption DEF TypedInv, TypeOK
<1>1. CASE Ensured(a)
  <2>1. PICK s : Proceed(waiting, s, {Request("get", s, None)})
    BY <1>1 DEF Ensured
  <2>2. /\ answers' = answers \ {a} /\ a.req.kind = "ensure" /\ waiting' = {}
        /\ UNCHANGED <<begun, removed>>
    BY <1>1 DEF Ensured, Takes, user
  <2>3. {b.req : b \in answers} \ {b.req : b \in answers'} \subseteq
          {r \in InFlight : r.kind = "ensure"}
    BY <2>2 DEF InFlight
  <2>4. waiting \subseteq begun
    BY DEF PendingInv
  <2> QED
    BY <2>1, <2>2, <2>3, <2>4, <1>0, PendingProceed
<1>2. ASSUME answers' = answers \ {a}, sent \subseteq sent',
             UNCHANGED <<begun, removed>>, waiting' \subseteq waiting, streaming' => streaming,
             \A u \in Uploads : chips'[u] = "uploading" => chips[u] = "uploading",
             IsAsked(a.req) => ~streaming' \/ (\E r \in sent' : IsAsked(r)),
             a.req.kind = "upload" => chips'[a.req.what] # "uploading"
      PROVE  PendingInv'
  <2>1. \A r \in InFlight : r \in InFlight' \/ r = a.req
    BY <1>2 DEF InFlight
  <2>2. streaming' => \E r \in InFlight' : IsAsked(r)
    BY <1>2, <2>1 DEF PendingInv, InFlight
  <2>3. ASSUME NEW u \in Uploads, chips'[u] = "uploading"
        PROVE  u \in begun' \ (waiting' \cup removed') /\ UploadUnderWay(u)'
    <3>1. chips[u] = "uploading"
      BY <1>2, <2>3
    <3>2. PICK r \in InFlight : IsUpload(r, u)
      BY <3>1 DEF PendingInv, UploadUnderWay
    <3>3. r \in InFlight'
      BY <1>2, <2>1, <2>3, <3>2 DEF IsUpload
    <3> QED
      BY <1>2, <3>1, <3>2, <3>3 DEF PendingInv, UploadUnderWay
  <2>4. waiting' \cup removed' \subseteq begun' /\ waiting' \cap removed' = {}
    BY <1>2 DEF PendingInv
  <2> QED
    BY <2>2, <2>3, <2>4 DEF PendingInv
<1>3. CASE EnsureFailed(a) \/ NewFailed(a) \/ ShowTurns(a)
  BY <1>2, <1>3
  DEF EnsureFailed, NewFailed, ShowTurns, Takes, handlers, page, user, IsAsked
<1>4. CASE NewOpened(a)
  <2>1. chips' = [u \in Uploads |-> "none"]
    BY <1>4 DEF NewOpened
  <2> QED
    BY <1>2, <1>4, <2>1 DEF NewOpened, Takes, user, IsAsked
<1>5. CASE DropAnswer(a) \/ ShowError(a) \/ ShowAnswer(a)
  BY <1>2, <1>5 DEF DropAnswer, ShowError, ShowAnswer, Takes, handlers, user
<1>6. CASE FetchEvents(a)
  <2>1. \E r \in sent' : IsAsked(r)
    <3>1. Request("events", a.req.at, a.req.what) \in sent'
      BY <1>6 DEF FetchEvents
    <3> QED
      BY <3>1 DEF IsAsked, Request
  <2> QED
    BY <1>2, <1>6, <2>1 DEF FetchEvents, Takes, handlers, page, user
<1>7. CASE Uploaded(a)
  <2>1. a.req.what \in Uploads
    BY <1>7 DEF Uploaded, Takes, TypedInv, FitInv, AnswerFits, RequestFits
  <2>2. a.ok => a.data \subseteq Uploads
    BY <1>7 DEF Uploaded, Takes, TypedInv, FitInv, AnswerFits
  <2>3. \E v : /\ v # "uploading"
               /\ chips' = [chips EXCEPT ![a.req.what] = IF @ = "none" THEN @ ELSE v]
    BY <1>0, <1>7, <2>2 DEF Uploaded
  <2>4. /\ chips'[a.req.what] # "uploading"
        /\ \A u \in Uploads : chips'[u] = "uploading" => chips[u] = "uploading"
    BY <1>0, <2>1, <2>3
  <2> QED
    BY <1>2, <1>7, <2>4 DEF Uploaded, Takes, handlers, user, IsAsked
<1> QED
  BY <1>1, <1>3, <1>4, <1>5, <1>6, <1>7 DEF Handle

\* Whatever fails, is stopped or is taken back, what the page says is under way is:
\* while an answer streams there is a run or the fetch of its events (page.tsx:443),
\* while a chip uploads its upload, and while a handler waits for a session a request
\* for it.  When everything has arrived, the page rests.
THEOREM NothingWaitsInVain ==
  Spec => [](/\ streaming => \E r \in InFlight : r.kind \in {"run", "events"}
             /\ \A u \in Uploads : chips[u] = "uploading" => UploadUnderWay(u)
             /\ waiting # {} => \E r \in InFlight : r.kind = "ensure")
<1>1. Init => PendingInv
  BY DEF Init, PendingInv
<1>2. TypedInv /\ PendingInv /\ [Next]_vars => PendingInv'
  <2>1. PendingInv /\ UNCHANGED vars => PendingInv'
    BY DEF vars, network, handlers, page, user, PendingInv, InFlight, UploadUnderWay
  <2>2. TypedInv /\ PendingInv /\ Next => PendingInv'
    BY ClickPending, ServePending, HandlePending DEF Next
  <2> QED
    BY <2>1, <2>2
<1>3. TypeOK /\ OneSessionIsCreated /\ PendingInv =>
        /\ streaming => \E r \in InFlight : r.kind \in {"run", "events"}
        /\ \A u \in Uploads : chips[u] = "uploading" => UploadUnderWay(u)
        /\ waiting # {} => \E r \in InFlight : r.kind = "ensure"
  BY DEF TypeOK, OneSessionIsCreated, PendingInv, IsAsked
<1>4. Spec => []TypedInv
  BY TypedInit, TypedStep, PTL DEF Spec
<1> QED
  BY <1>1, <1>2, <1>3, <1>4, TypeCorrect, SessionIsCreatedOnce, PTL DEF Spec
=============================================================================
