----------------------------- MODULE WebClient ------------------------------
(***************************************************************************)
(* The page of the web client (page.tsx): one user who attaches files,     *)
(* asks, stops, opens and deletes sessions and removes attachments, while  *)
(* requests are under way.  A handler runs up to its next await in one     *)
(* step and goes on when the answer is there; answers come in any order.   *)
(* The server does what a request asks in one step, as SessionStore says   *)
(* it does.  The list of the session's documents, which the page loads     *)
(* after the turns and only displays, is left out.                         *)
(***************************************************************************)
EXTENDS Integers, FiniteSets, Sequences

CONSTANTS
  Sessions,  \* that the server may create
  Queries,   \* the user may ask, once each
  Uploads,   \* different files the user may attach, once each
  None,
  TurnLimit,   \* turns of a session that the server sends, the last ones
  Plans,       \* bound: what the user means to ask and attach, one of these sets
  MaxUnderWay  \* bound: the user acts while fewer requests are under way

ASSUME JobAssumption ==
  /\ Queries \cap Uploads = {}
  /\ None \notin Sessions \cup Queries \cup Uploads
ASSUME BoundAssumption ==
  /\ TurnLimit \in Nat /\ MaxUnderWay \in Nat
  /\ Plans \subseteq SUBSET (Queries \cup Uploads)
ASSUME ChipAssumption == {"none", "uploading", "error"} \cap Uploads = {}

Jobs == Queries \cup Uploads

Requests == [kind : {"ensure", "new", "get", "run", "events", "upload", "purge", "delete"},
             at : Sessions \cup {None}, what : Jobs \cup {None}]

VARIABLES
  sessions,   \* the server has created
  gone,       \* and deleted again
  turns,      \* on the server: of each session the queries with an answer, in order
  docs,       \* on the server: the upload that made it, its session
  sent,       \* requests the server has not done
  answers,    \* that the page has not seen: request, ok, data
  active,     \* activeSessionIdRef
  listed,     \* localSessions, and the same in local storage
  creating,   \* is there a pendingSessionPromiseRef?
  waiting,    \* handlers that wait for it
  messages,   \* per query, what the chat shows of it
  streaming,  \* isStreaming
  stopping,   \* activeAbortRef
  chips,      \* uploadingAttachments: state, or the document
  begun,      \* what the user has asked and attached, or never will
  removed,    \* attachments the user took back while they were uploaded
  asked,      \* history: the session each query was sent to
  shown       \* history: the session the chat was last loaded from

server == <<sessions, gone, turns, docs>>
network == <<sent, answers>>
handlers == <<active, listed, creating, waiting>>
page == <<messages, streaming, stopping, chips>>
user == <<begun, removed>>
history == <<asked, shown>>
vars == <<server, network, handlers, page, user, history>>

Request(kind, at, what) == [kind |-> kind, at |-> at, what |-> what]
Answer(r, ok, data) == [req |-> r, ok |-> ok, data |-> data]
InFlight == sent \cup {a.req : a \in answers}

-----------------------------------------------------------------------------

Init ==
  /\ sessions = {} /\ gone = {} /\ docs = {}
  /\ turns = [s \in Sessions |-> <<>>]
  /\ sent = {} /\ answers = {}
  /\ active = None /\ listed = {} /\ creating = FALSE /\ waiting = {}
  /\ messages = [q \in Queries |-> "none"]
  /\ streaming = FALSE /\ stopping = FALSE
  /\ chips = [u \in Uploads |-> "none"]
  /\ begun \in {Jobs \ plan : plan \in Plans} /\ removed = {}
  /\ asked = [q \in Queries |-> None] /\ shown = None

\* What follows ensureSession in its callers: an upload gets a chip and is sent; a
\* query empties the chips, gets a placeholder and is sent.  Of handlers that have
\* waited together, those of uploads may run before or after a query's.
Proceed(jobs, s, loads) ==
  /\ sent' = (sent \cup loads)
       \cup {Request("run", s, q) : q \in jobs \cap Queries}
       \cup {Request("upload", s, u) : u \in jobs \cap Uploads}
  /\ messages' = [q \in Queries |-> IF q \in jobs THEN "pending" ELSE messages[q]]
  /\ streaming' = (streaming \/ jobs \cap Queries # {})
  /\ asked' = [q \in Queries |-> IF q \in jobs THEN s ELSE asked[q]]
  /\ \E kept \in SUBSET (jobs \cap Uploads) :
       /\ jobs \cap Queries = {} => kept = jobs
       /\ chips' = [u \in Uploads |->
            IF u \in kept THEN "uploading"
            ELSE IF jobs \cap Queries # {} THEN "none" ELSE chips[u]]

\* mutant: a session is created although one is on its way
EnsureAgain(job) ==
  \/ /\ active # None
     /\ Proceed({job}, active, {})
     /\ UNCHANGED handlers
  \/ /\ active = None
     /\ waiting' = waiting \cup {job} /\ creating' = TRUE
     /\ sent' = sent \cup {Request("ensure", None, job)}
     /\ UNCHANGED <<active, listed, messages, streaming, chips, asked>>

\* ensureSession: the session there is, the one that is being created, or a new one
Ensure(job) ==
  \/ /\ active # None
     /\ Proceed({job}, active, {})
     /\ UNCHANGED handlers
  \/ /\ active = None
     /\ waiting' = waiting \cup {job} /\ creating' = TRUE
     /\ sent' = IF creating THEN sent ELSE sent \cup {Request("ensure", None, job)}
     /\ UNCHANGED <<active, listed, messages, streaming, chips, asked>>

Ask(q) ==
  /\ q \notin begun
  /\ begun' = begun \cup {q} /\ stopping' = FALSE
  /\ Ensure(q)
  /\ UNCHANGED <<server, answers, removed, shown>>

Attach(u) ==
  /\ u \notin begun
  /\ begun' = begun \cup {u}
  /\ Ensure(u)
  /\ UNCHANGED <<server, answers, stopping, removed, shown>>

Stop ==
  /\ streaming
  /\ stopping' = TRUE /\ streaming' = FALSE
  /\ messages' = [q \in Queries |-> IF messages[q] = "pending" THEN "stopped" ELSE messages[q]]
  /\ UNCHANGED <<server, network, handlers, chips, user, history>>

\* handleSelectSession; the page keeps its messages until those of s are there
Select(s) ==
  /\ s \in listed \ {active}
  /\ active' = s
  /\ chips' = [u \in Uploads |-> "none"]
  /\ sent' = sent \cup {Request("get", s, None)}
  /\ UNCHANGED <<server, answers, listed, creating, waiting, messages, streaming, stopping,
                 user, history>>

\* handleDeleteSession: the page goes on with another session, or with none, before
\* the server has deleted this one, if it ever does
Delete(s) ==
  /\ s \in listed
  /\ listed' = listed \ {s}
  /\ \/ /\ active # s
        /\ sent' = sent \cup {Request("delete", s, None)}
        /\ UNCHANGED <<active, messages, chips, shown>>
     \/ /\ active = s
        /\ \E next \in listed' :
             /\ active' = next
             /\ sent' = sent \cup {Request("get", next, None), Request("delete", s, None)}
        /\ UNCHANGED <<messages, chips, shown>>
     \/ /\ active = s /\ listed' = {}
        /\ active' = None
        /\ sent' = sent \cup {Request("delete", s, None)}
        /\ messages' = [q \in Queries |-> "none"] /\ chips' = [u \in Uploads |-> "none"]
        /\ shown' = None
  /\ UNCHANGED <<server, answers, creating, waiting, streaming, stopping, user, asked>>

\* handleNewSession; bound: the user wants no more than there are to create
NewSession ==
  /\ sessions # Sessions
  /\ Request("new", None, None) \notin InFlight
  /\ sent' = sent \cup {Request("new", None, None)}
  /\ UNCHANGED <<server, answers, handlers, page, user, history>>

\* An upload that is under way is aborted.  The rejection of its fetch consumes the
\* mark in cancelledUploadsRef and ends the handler (page.tsx:611), so that nothing
\* is left to purge what the server may store (:583 is never reached with a mark).
RemoveUploading(u) ==
  /\ chips[u] = "uploading"
  /\ removed' = removed \cup {u}
  /\ chips' = [chips EXCEPT ![u] = "none"]
  /\ answers' = {a \in answers : ~(a.req.kind = "upload" /\ a.req.what = u)}
  /\ UNCHANGED <<server, sent, handlers, messages, streaming, stopping, begun, history>>

\* an upload that is done is purged
RemoveUploaded(u) ==
  /\ chips[u] \in Uploads
  /\ chips' = [chips EXCEPT ![u] = "none"]
  /\ sent' = sent \cup {Request("purge", None, chips[u])}
  /\ UNCHANGED <<server, answers, handlers, messages, streaming, stopping, user, history>>

-----------------------------------------------------------------------------

\* nobody waits for the answer of an upload that was aborted, and that of a deletion
\* changes nothing
Abandoned(r) ==
  \/ r.kind = "upload" /\ r.what \in removed
  \/ r.kind \in {"purge", "delete"}

\* a request has been done; its answer arrives or is lost
Reply(r, data) ==
  /\ sent' = sent \ {r}
  /\ \E ok \in BOOLEAN :
       answers' = IF Abandoned(r) THEN answers
                  ELSE answers \cup {Answer(r, ok, IF ok THEN data ELSE {})}

ServeSession(r) ==
  /\ r.kind \in {"ensure", "new"}
  /\ \E s \in Sessions \ sessions :
       sessions' = sessions \cup {s} /\ Reply(r, {s})
  /\ UNCHANGED <<gone, turns, docs>>

\* list_recent_turns
Recent(s) ==
  {turns[s][i] : i \in {j \in DOMAIN turns[s] : j > Len(turns[s]) - TurnLimit}}

ServeRead(r) ==
  /\ r.at \notin gone
  /\ \/ r.kind = "get" /\ Reply(r, Recent(r.at))
     \/ r.kind = "events" /\ Reply(r, {})
  /\ UNCHANGED server

\* a run that ends without an answer leaves no turn
ServeRun(r) ==
  /\ r.kind = "run" /\ r.at \notin gone
  /\ \/ turns' = [turns EXCEPT ![r.at] = Append(@, r.what)]
     \/ UNCHANGED turns
  /\ Reply(r, {})
  /\ UNCHANGED <<sessions, gone, docs>>

ServeUpload(r) ==
  /\ r.kind = "upload" /\ r.at \notin gone
  /\ docs' = docs \cup {[id |-> r.what, at |-> r.at]}
  /\ Reply(r, {r.what})
  /\ UNCHANGED <<sessions, gone, turns>>

ServePurge(r) ==
  /\ r.kind = "purge"
  /\ docs' = {d \in docs : d.id # r.what}
  /\ Reply(r, {})
  /\ UNCHANGED <<sessions, gone, turns>>

\* a session goes with everything in it
ServeDelete(r) ==
  /\ r.kind = "delete"
  /\ gone' = gone \cup {r.at}
  /\ turns' = [turns EXCEPT ![r.at] = <<>>]
  /\ docs' = {d \in docs : d.at # r.at}
  /\ Reply(r, {})
  /\ UNCHANGED sessions

\* a request is refused, as when its session is gone, fails, or does not get to the server
ServeFails(r) ==
  /\ sent' = sent \ {r}
  /\ answers' = IF Abandoned(r) THEN answers ELSE answers \cup {Answer(r, FALSE, {})}
  /\ UNCHANGED server

Serve(r) ==
  /\ \/ ServeSession(r) \/ ServeRead(r) \/ ServeRun(r) \/ ServeUpload(r)
     \/ ServePurge(r) \/ ServeDelete(r) \/ ServeFails(r)
  /\ UNCHANGED <<handlers, page, user, history>>

-----------------------------------------------------------------------------

Takes(a, kinds) == a.req.kind \in kinds /\ answers' = answers \ {a}

\* the end of ensureSession: its session is the active one, is loaded, and
\* everybody who waited goes on with it
Ensured(a) ==
  /\ Takes(a, {"ensure"}) /\ a.ok
  /\ \E s \in a.data :
       /\ active' = s /\ listed' = listed \cup {s}
       /\ Proceed(waiting, s, {Request("get", s, None)})
  /\ creating' = FALSE /\ waiting' = {}
  /\ UNCHANGED <<server, stopping, user, shown>>

\* mutant: nobody tells the handlers that waited
EnsureForgotten(a) ==
  /\ Takes(a, {"ensure"}) /\ ~a.ok
  /\ creating' = FALSE
  /\ UNCHANGED <<server, sent, active, listed, waiting, page, user, history>>

\* the handlers that waited end without a trace
EnsureFailed(a) ==
  /\ Takes(a, {"ensure"}) /\ ~a.ok
  /\ creating' = FALSE /\ waiting' = {}
  /\ UNCHANGED <<server, sent, active, listed, page, user, history>>

NewOpened(a) ==
  /\ Takes(a, {"new"}) /\ a.ok
  /\ \E s \in a.data :
       /\ active' = s /\ listed' = listed \cup {s}
       /\ sent' = sent \cup {Request("get", s, None)}
  /\ messages' = [q \in Queries |-> "none"] /\ chips' = [u \in Uploads |-> "none"]
  /\ shown' = None
  /\ UNCHANGED <<server, creating, waiting, streaming, stopping, user, asked>>

NewFailed(a) ==
  /\ Takes(a, {"new"}) /\ ~a.ok
  /\ UNCHANGED <<server, sent, handlers, page, user, history>>

\* mutant: when a session cannot be loaded the chat stays as it is
ShowTurnsIfAny(a) ==
  /\ Takes(a, {"get"})
  /\ messages' = IF a.ok THEN [q \in Queries |-> IF q \in a.data THEN "answered" ELSE "none"]
                 ELSE messages
  /\ shown' = a.req.at
  /\ UNCHANGED <<server, sent, handlers, streaming, stopping, chips, user, asked>>

\* loadSessionData: the turns take the place of whatever is shown, whichever session
\* is selected by now
ShowTurns(a) ==
  /\ Takes(a, {"get"})
  /\ messages' = [q \in Queries |-> IF a.ok /\ q \in a.data THEN "answered" ELSE "none"]
  /\ shown' = a.req.at
  /\ UNCHANGED <<server, sent, handlers, streaming, stopping, chips, user, asked>>

\* a placeholder that a load has taken away is not replaced
Replace(q, by) ==
  messages' = [messages EXCEPT ![q] = IF @ \in {"pending", "stopped"} THEN by ELSE @]

\* The run has been answered: its events are fetched while the stream goes on.  This
\* is the only place where handleSendMessage looks at activeAbortRef.
FetchEvents(a) ==
  /\ Takes(a, {"run"}) /\ a.ok /\ ~stopping
  /\ sent' = sent \cup {Request("events", a.req.at, a.req.what)}
  /\ UNCHANGED <<server, handlers, page, user, history>>

DropAnswer(a) ==
  /\ Takes(a, {"run"}) /\ a.ok /\ stopping
  /\ streaming' = FALSE
  /\ UNCHANGED <<server, sent, handlers, messages, stopping, chips, user, history>>

\* mutant: the stream ends with an answer only
ShowErrorStreaming(a) ==
  /\ Takes(a, {"run"}) /\ ~a.ok
  /\ Replace(a.req.what, "error")
  /\ UNCHANGED <<server, sent, handlers, streaming, stopping, chips, user, history>>

ShowError(a) ==
  /\ Takes(a, {"run"}) /\ ~a.ok
  /\ Replace(a.req.what, "error") /\ streaming' = FALSE
  /\ UNCHANGED <<server, sent, handlers, stopping, chips, user, history>>

\* The answer is shown with its events or without them.  The run's session is saved
\* to local storage and the list read from there: one that was deleted meanwhile is
\* listed again.
ShowAnswer(a) ==
  /\ Takes(a, {"events"})
  /\ Replace(a.req.what, "answered") /\ streaming' = FALSE
  /\ listed' = listed \cup {a.req.at}
  /\ UNCHANGED <<server, sent, active, creating, waiting, stopping, chips, user,
                 history>>

\* the end of handleUploadDocument
Uploaded(a) ==
  /\ Takes(a, {"upload"})
  /\ LET u == a.req.what IN
     \E state \in IF a.ok THEN a.data ELSE {"error"} :
       chips' = [chips EXCEPT ![u] = IF @ = "none" THEN @ ELSE state]
  /\ UNCHANGED <<server, sent, handlers, messages, streaming, stopping, user, history>>

Handle(a) ==
  \/ Ensured(a) \/ EnsureFailed(a) \/ NewOpened(a) \/ NewFailed(a)
  \/ ShowTurns(a) \/ Uploaded(a)
  \/ FetchEvents(a) \/ DropAnswer(a) \/ ShowError(a) \/ ShowAnswer(a)

Click ==
  \/ \E q \in Queries : Ask(q)
  \/ \E u \in Uploads : Attach(u) \/ RemoveUploading(u) \/ RemoveUploaded(u)
  \/ \E s \in Sessions : Select(s) \/ Delete(s)
  \/ Stop \/ NewSession

Next ==
  \/ Cardinality(InFlight) < MaxUnderWay /\ Click
  \/ \E r \in sent : Serve(r)
  \/ \E a \in answers : Handle(a)

\* the server or the page goes on with what has been sent for a job
Moves(job) ==
  \/ \E r \in sent : r.what = job /\ Serve(r)
  \/ \E a \in answers : a.req.what = job /\ Handle(a)

\* The server answers or the connection fails, and the page takes what arrives;
\* nothing is asked of the user.
Spec == Init /\ [][Next]_vars /\ \A job \in Jobs : WF_vars(Moves(job))

-----------------------------------------------------------------------------

\* Types, and that a handler waits only for a session that is being created.
TypeOK ==
  /\ sessions \subseteq Sessions /\ gone \subseteq sessions
  /\ turns \in [Sessions -> Seq(Queries)]
  /\ docs \subseteq [id : Uploads, at : Sessions]
  /\ sent \subseteq Requests
  /\ \A a \in answers : a.req \in Requests /\ a.ok \in BOOLEAN
  /\ active \in listed \cup {None} /\ listed \subseteq sessions
  /\ creating \in BOOLEAN /\ waiting \subseteq Jobs
  /\ waiting # {} => creating
  /\ messages \in [Queries -> {"none", "pending", "stopped", "answered", "error"}]
  /\ streaming \in BOOLEAN /\ stopping \in BOOLEAN
  /\ chips \in [Uploads -> {"none", "uploading", "error"} \cup Uploads]
  /\ begun \subseteq Jobs /\ removed \subseteq Uploads
  /\ asked \in [Queries -> Sessions \cup {None}] /\ shown \in Sessions \cup {None}

\* Several files dropped at once, or a file and a question, on a page without a
\* session create one session and not one each, and a handler that waits for a
\* session waits for a request (page.tsx:86-117).
OneSessionIsCreated ==
  /\ creating => \E r \in InFlight : r.kind = "ensure"
  /\ \A r, s \in InFlight : r.kind = "ensure" /\ s.kind = "ensure" => r = s

\* Unless a load is under way, or the last one that arrived was of a session that
\* is not selected any more, everything in the chat was asked in the selected
\* session: whatever overlapped before, be it late answers, deletions, or several
\* loads, one load of that session, even a failed one, sets the chat right
\* (page.tsx:229-263, :299-354, :397, :443-466).
ChatIsOfSession ==
  shown = active /\ (\A r \in InFlight : r.kind # "get") =>
    \A q \in Queries : messages[q] # "none" => asked[q] = active

\* Nothing the page says is under way stays so: the page, a placeholder in the chat and
\* a chip do not stream or upload for ever, although a run, its events or an upload
\* fails, and the user stops a question and asks the next one meanwhile
\* (page.tsx:443-446, :493-520, :594-622).
PageComesToRest ==
  /\ streaming ~> ~streaming
  /\ \A q \in Queries : messages[q] = "pending" ~> messages[q] # "pending"
  /\ \A u \in Uploads : chips[u] = "uploading" ~> chips[u] # "uploading"

AtRest == sent = {} /\ answers = {}

\* An attachment that was taken back while it was uploaded leaves no document on
\* the server when everything has been done (REBUILD_SPEC.md:704, :1212).
RetractionLeavesNothing ==
  AtRest => \A d \in docs : d.id \notin removed
=============================================================================
