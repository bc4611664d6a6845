------------------------------ MODULE Workspace ------------------------------
(***************************************************************************)
(* The authenticated endpoints of app/api/routes.py over PostgreSQL at     *)
(* READ COMMITTED: sessions with their documents, runs and turns, and the  *)
(* memories of a user.  Each request has one transaction, which begins     *)
(* with get_current_user stamping (or inserting) the user's row.  A run    *)
(* reads its session at the start, searches it through connections of the  *)
(* vector store's own while the graph executes, and writes at the end.     *)
(* Nothing in the routes keeps two requests off one session.               *)
(***************************************************************************)
EXTENDS FiniteSets

CONSTANTS
  User,        \* identities of the authentication provider
  SessionId, Content, Fact, RunId,
  Worker,      \* bound: requests that are served at the same time
  Calls,       \* bound: the requests that clients make
  Nobody, NoCall

\* a document is named by its session and the hash of its content
CallShapes ==
  [op : {"create_session", "get_session", "delete_session"}, user : User, session : SessionId]
    \union [op : {"upload_document", "delete_document"}, user : User, session : SessionId,
            content : Content]
    \union [op : {"create_memory"}, user : User, session : SessionId, fact : Fact]
    \union [op : {"delete_memory"}, user : User, fact : Fact]
    \union [op : {"create_run"}, user : User, session : SessionId, run : RunId]
    \union [op : {"get_run"}, user : User, run : RunId]

ASSUME CallAssumption == Calls \subseteq CallShapes
ASSUME NullAssumption == Nobody \notin User \union Worker /\ NoCall \notin CallShapes

VARIABLES
  users,       \* rows of users that are committed
  owner,       \* sessions that are committed: their user, or Nobody
  documents, memories, runs, turns,   \* committed rows of those tables
  issued,      \* identifiers given out, none of which is given out again
  call,        \* the request a worker serves
  phase,       \* how far its transaction has come
  holder,      \* the worker whose transaction has written the user's row
  draft,       \* a row it will commit: the document's status, the run's outcome
  corpus,      \* the documents execute_run has listed for the planner
  evidence     \* what retrieval has found since

vars == <<users, owner, documents, memories, runs, turns, issued,
          call, phase, holder, draft, corpus, evidence>>
tableVars == <<owner, documents, memories, runs, turns>>
runVars == <<draft, corpus, evidence>>

Writing == {"greeted", "indexing", "running", "written"}
Closing == {"read", "missing", "failed", "raised"}
Phases == {"idle", "known", "unknown"} \union Writing \union Closing
Drafts == {"none", "duplicate", "processing", "processed", "failed", "answered", "unanswered"}

Op(w, op) == call[w] # NoCall /\ call[w].op = op
Below(s, rows) == {x \in rows : x.session = s}
Stored(s, c) == \E d \in documents : d.session = s /\ d.content = c
\* mutant: the search has no session filter
SearchableAnywhere(s) == {d.content : d \in documents}

Searchable(s) == {d.content : d \in Below(s, documents)}

-----------------------------------------------------------------------------
Init ==
  /\ users = {}
  /\ owner = [s \in SessionId |-> Nobody]
  /\ documents = {} /\ memories = {} /\ runs = {} /\ turns = {}
  /\ issued = {}
  /\ call = [w \in Worker |-> NoCall]
  /\ phase = [w \in Worker |-> "idle"]
  /\ holder = [u \in User |-> Nobody]
  /\ draft = [w \in Worker |-> "none"]
  /\ corpus = [w \in Worker |-> {}]
  /\ evidence = [w \in Worker |-> {}]

Advance(w, from, to) == phase[w] = from /\ phase' = [phase EXCEPT ![w] = to]

\* uuid4 makes an identifier nobody has seen; any other was seen before
Brings(c) ==
  CASE c.op = "create_session" -> {c.session}
    [] c.op = "create_memory" -> {c.fact}
    [] c.op = "create_run" -> {c.run}
    [] OTHER -> {}
Names(c) ==
  CASE c.op \in {"delete_memory"} -> {c.fact}
    [] c.op = "get_run" -> {c.run}
    [] c.op = "create_session" -> {}
    [] OTHER -> {c.session}

\* a request arrives and get_current_user looks its user up
Arrive(w) ==
  /\ phase[w] = "idle"
  /\ \E c \in Calls :
       /\ Names(c) \subseteq issued /\ Brings(c) \intersect issued = {}
       /\ call' = [call EXCEPT ![w] = c]
       /\ issued' = issued \union Brings(c)
       /\ Advance(w, "idle", IF c.user \in users THEN "known" ELSE "unknown")
  /\ UNCHANGED <<users, tableVars, holder, runVars>>

\* mutant: the user is only looked up
StampNothing(w) ==
  /\ Advance(w, "known", "greeted")
  /\ UNCHANGED <<users, tableVars, issued, call, holder, runVars>>

\* last_seen_at is stamped: the update waits for any other transaction that has
\* written the row
Stamp(w) ==
  /\ Advance(w, "known", "greeted")
  /\ holder[call[w].user] = Nobody
  /\ holder' = [holder EXCEPT ![call[w].user] = w]
  /\ UNCHANGED <<users, tableVars, issued, call, runVars>>

\* the insert of a new user waits for any other insert of the same subject, and
\* violates the unique index if that one was committed
Register(w) ==
  LET u == call[w].user IN
  /\ phase[w] = "unknown"
  /\ holder[u] = Nobody
  /\ IF u \in users
     THEN Advance(w, "unknown", "failed") /\ UNCHANGED holder
     ELSE Advance(w, "unknown", "greeted") /\ holder' = [holder EXCEPT ![u] = w]
  /\ UNCHANGED <<users, tableVars, issued, call, runVars>>

-----------------------------------------------------------------------------
\* the statements of a request; a row that is not there, or not the user's, is 404
Does(w, op, found, to) ==
  /\ Op(w, op)
  /\ Advance(w, "greeted", IF found THEN to ELSE "missing")
  /\ UNCHANGED <<users, tableVars, issued, call, holder>>

Own(w) == owner[call[w].session] = call[w].user

CreateSession(w) == Does(w, "create_session", TRUE, "written") /\ UNCHANGED runVars
GetSession(w) == Does(w, "get_session", Own(w), "read") /\ UNCHANGED runVars
DeleteSession(w) == Does(w, "delete_session", Own(w), "written") /\ UNCHANGED runVars
CreateMemory(w) == Does(w, "create_memory", Own(w), "written") /\ UNCHANGED runVars

DeleteMemory(w) ==
  /\ Does(w, "delete_memory",
          [user |-> call[w].user, fact |-> call[w].fact] \in memories, "written")
  /\ UNCHANGED runVars

DeleteDocument(w) ==
  /\ Does(w, "delete_document", Own(w) /\ Stored(call[w].session, call[w].content), "written")
  /\ UNCHANGED runVars

\* RunModel has no completed_at, which the response is built from
GetRun(w) ==
  /\ Does(w, "get_run",
          \E x \in runs : x.run = call[w].run /\ owner[x.session] = call[w].user, "raised")
  /\ UNCHANGED runVars

\* ingest_document looks for the same content in the session before it inserts
FindDuplicate(w) ==
  LET duplicate == Stored(call[w].session, call[w].content) IN
  /\ Does(w, "upload_document", Own(w), IF duplicate THEN "written" ELSE "indexing")
  /\ draft' = [draft EXCEPT ![w] = IF ~Own(w) THEN "none"
                                     ELSE IF duplicate THEN "duplicate" ELSE "processing"]
  /\ UNCHANGED <<corpus, evidence>>

\* mutant: a text without chunks is stored all the same
IndexAnything(w) ==
  /\ Advance(w, "indexing", "written")
  /\ draft' = [draft EXCEPT ![w] = "failed"]
  /\ UNCHANGED <<users, tableVars, issued, call, holder, corpus, evidence>>

\* the text is split and embedded; without chunks the status is set and the
\* exception that follows undoes it
Index(w) ==
  /\ \/ Advance(w, "indexing", "written") /\ draft' = [draft EXCEPT ![w] = "processed"]
     \/ Advance(w, "indexing", "failed") /\ draft' = [draft EXCEPT ![w] = "failed"]
  /\ UNCHANGED <<users, tableVars, issued, call, holder, corpus, evidence>>

\* mutant: the rows are kept and not their names
OpenRunKeepsRows(w) ==
  /\ Does(w, "create_run", Own(w), "running")
  /\ corpus' = [corpus EXCEPT ![w] = Below(call[w].session, documents)]
  /\ UNCHANGED <<draft, evidence>>

\* execute_run lists the documents, reads turns and memories and inserts the run
OpenRun(w) ==
  /\ Does(w, "create_run", Own(w), "running")
  /\ corpus' = [corpus EXCEPT ![w] =
                  IF Own(w) THEN {d.content : d \in Below(call[w].session, documents)} ELSE {}]
  /\ UNCHANGED <<draft, evidence>>

\* a search of the graph, in a session of the vector store's own
Retrieve(w) ==
  /\ phase[w] = "running"
  /\ \E found \in SUBSET Searchable(call[w].session) :
       evidence' = [evidence EXCEPT ![w] = @ \union found]
  /\ UNCHANGED <<users, tableVars, issued, call, phase, holder, draft, corpus>>

\* the graph has returned: events, turn and terminal status are flushed
FinishRun(w) ==
  /\ Advance(w, "running", "written")
  /\ \/ /\ draft' = [draft EXCEPT ![w] = "answered"]
        /\ \E cites \in SUBSET evidence[w] : evidence' = [evidence EXCEPT ![w] = cites]
     \/ /\ draft' = [draft EXCEPT ![w] = "unanswered"]
        /\ UNCHANGED evidence
  /\ UNCHANGED <<users, tableVars, issued, call, holder, corpus>>

-----------------------------------------------------------------------------
\* mutant: a database session that goes back to its pool keeps its lock
EndLeaks(w) ==
  /\ phase' = [phase EXCEPT ![w] = "idle"]
  /\ call' = [call EXCEPT ![w] = NoCall]
  /\ draft' = [draft EXCEPT ![w] = "none"]
  /\ corpus' = [corpus EXCEPT ![w] = {}]
  /\ evidence' = [evidence EXCEPT ![w] = {}]
  /\ UNCHANGED <<issued, holder>>

\* w's transaction is over: its locks are gone, the worker is free
End(w) ==
  /\ phase' = [phase EXCEPT ![w] = "idle"]
  /\ call' = [call EXCEPT ![w] = NoCall]
  /\ holder' = [u \in User |-> IF holder[u] = w THEN Nobody ELSE holder[u]]
  /\ draft' = [draft EXCEPT ![w] = "none"]
  /\ corpus' = [corpus EXCEPT ![w] = {}]
  /\ evidence' = [evidence EXCEPT ![w] = {}]
  /\ UNCHANGED issued

Commit(w, op) ==
  /\ phase[w] = "written" /\ Op(w, op)
  /\ users' = users \union {call[w].user}
  /\ End(w)

CommitSession(w) ==
  /\ Commit(w, "create_session")
  /\ owner' = [owner EXCEPT ![call[w].session] = call[w].user]
  /\ UNCHANGED <<documents, memories, runs, turns>>

\* mutant: turns do not go with their session
CommitDeletionKeepsTurns(w) ==
  LET s == call[w].session IN
  /\ Commit(w, "delete_session")
  /\ owner' = [owner EXCEPT ![s] = Nobody]
  /\ documents' = documents \ Below(s, documents)
  /\ runs' = runs \ Below(s, runs)
  /\ UNCHANGED <<memories, turns>>

\* the foreign keys of documents, runs and turns cascade; memories belong to the
\* principal and stay
CommitDeletion(w) ==
  LET s == call[w].session IN
  /\ Commit(w, "delete_session")
  /\ owner' = [owner EXCEPT ![s] = Nobody]
  /\ documents' = documents \ Below(s, documents)
  /\ runs' = runs \ Below(s, runs)
  /\ turns' = turns \ Below(s, turns)
  /\ UNCHANGED memories

CommitUpload(w) ==
  /\ Commit(w, "upload_document")
  /\ documents' = IF draft[w] = "duplicate" THEN documents
                  ELSE documents \union {[session |-> call[w].session,
                                          content |-> call[w].content, status |-> draft[w]]}
  /\ UNCHANGED <<owner, memories, runs, turns>>

CommitDocumentDeletion(w) ==
  /\ Commit(w, "delete_document")
  /\ documents' = {d \in documents : ~(d.session = call[w].session /\ d.content = call[w].content)}
  /\ UNCHANGED <<owner, memories, runs, turns>>

CommitMemory(w) ==
  /\ Commit(w, "create_memory")
  /\ memories' = memories \union {[user |-> call[w].user, fact |-> call[w].fact]}
  /\ UNCHANGED <<owner, documents, runs, turns>>

CommitMemoryDeletion(w) ==
  /\ Commit(w, "delete_memory")
  /\ memories' = memories \ {[user |-> call[w].user, fact |-> call[w].fact]}
  /\ UNCHANGED <<owner, documents, runs, turns>>

CommitRun(w) ==
  LET row == [run |-> call[w].run, session |-> call[w].session] IN
  /\ Commit(w, "create_run")
  /\ runs' = runs \union {row}
  /\ turns' = IF draft[w] = "answered"
              THEN turns \union {[run |-> row.run, session |-> row.session, cites |-> evidence[w]]}
              ELSE turns
  /\ UNCHANGED <<owner, documents, memories>>

\* a request that only read, or that failed: closing the database session rolls
\* back, an inserted or stamped user too
Close(w) == phase[w] \in Closing /\ End(w) /\ UNCHANGED <<users, tableVars>>

\* any other exception, at any statement
Fails(w) ==
  /\ phase[w] \in {"known", "unknown"} \union Writing
  /\ phase' = [phase EXCEPT ![w] = "failed"]
  /\ UNCHANGED <<users, tableVars, issued, call, holder, runVars>>

\* the process dies and comes back; PostgreSQL rolls back what was open
Crash ==
  /\ \E w \in Worker : phase[w] # "idle"
  /\ call' = [w \in Worker |-> NoCall]
  /\ phase' = [w \in Worker |-> "idle"]
  /\ holder' = [u \in User |-> Nobody]
  /\ draft' = [w \in Worker |-> "none"]
  /\ corpus' = [w \in Worker |-> {}]
  /\ evidence' = [w \in Worker |-> {}]
  /\ UNCHANGED <<users, tableVars, issued>>

Enter(w) == Stamp(w) \/ Register(w)

Works(w) ==
  \/ CreateSession(w) \/ GetSession(w) \/ DeleteSession(w)
  \/ FindDuplicate(w) \/ Index(w) \/ DeleteDocument(w)
  \/ CreateMemory(w) \/ DeleteMemory(w)
  \/ OpenRun(w) \/ Retrieve(w) \/ FinishRun(w) \/ GetRun(w)
  \/ CommitSession(w) \/ CommitDeletion(w) \/ CommitUpload(w) \/ CommitDocumentDeletion(w)
  \/ CommitMemory(w) \/ CommitMemoryDeletion(w) \/ CommitRun(w)
  \/ Close(w)

Serve(w) == Works(w) \/ Fails(w)

Next == (\E w \in Worker : Arrive(w) \/ Enter(w) \/ Serve(w)) \/ Crash

Spec == Init /\ [][Next]_vars

\* The event loop runs every handler on; PostgreSQL hands a row lock to those who
\* wait for it.  No exception is owed to anybody: PostgreSQL has no lock_timeout
\* unless one is set, and a request waits until the row is released.
FairSpec == Spec /\ \A w \in Worker : WF_vars(Works(w)) /\ SF_vars(Enter(w))

-----------------------------------------------------------------------------
(***************************************************************************)
(* Properties.                                                             *)
(***************************************************************************)

TypeOK ==
  /\ users \in SUBSET User
  /\ owner \in [SessionId -> User \union {Nobody}]
  /\ documents \in SUBSET [session : SessionId, content : Content, status : Drafts]
  /\ memories \in SUBSET [user : User, fact : Fact]
  /\ runs \in SUBSET [run : RunId, session : SessionId]
  /\ turns \in SUBSET [run : RunId, session : SessionId, cites : SUBSET Content]
  /\ issued \in SUBSET (SessionId \union Fact \union RunId)
  /\ call \in [Worker -> Calls \union {NoCall}]
  /\ phase \in [Worker -> Phases]
  /\ holder \in [User -> Worker \union {Nobody}]
  /\ draft \in [Worker -> Drafts]
  /\ corpus \in [Worker -> SUBSET Content]
  /\ evidence \in [Worker -> SUBSET Content]

\* Whatever order uploads, runs and deletions come in, nothing is left without
\* its session: no document, no run, and no turn without its run.
NothingOrphaned ==
  /\ \A x \in documents \union runs : owner[x.session] # Nobody
  /\ \A t \in turns : [run |-> t.run, session |-> t.session] \in runs

\* Only documents that are parsed, split and embedded to the end are ever seen
\* by a search or a listing.
DocumentsWhole == \A d \in documents : d.status = "processed"

\* What ingest_document found out about duplicates still holds when it inserts
\* and commits, so that the unique index on session and hash is never violated
\* and a duplicate that was reported exists.
DuplicateCheckCurrent ==
  \A w \in Worker :
    Op(w, "upload_document") /\ phase[w] \in {"indexing", "written"}
      => (draft[w] = "duplicate" <=> Stored(call[w].session, call[w].content))

\* While a run executes, the session it reads again and again does not change:
\* what it retrieves is what its planner was told of, and its session is still
\* there, with the same user, when it is stored.
RunsReadOneCorpus ==
  \A w \in Worker :
    Op(w, "create_run") /\ phase[w] \in {"running", "written"} =>
      /\ Own(w)
      /\ evidence[w] \subseteq corpus[w]
      /\ corpus[w] = {d.content : d \in Below(call[w].session, documents)}

\* A request that comes is answered: none waits for a user's row for ever.
RequestsEnd == \A w \in Worker : phase[w] # "idle" ~> phase[w] = "idle"

(***************************************************************************)
(* Workspace implements SessionStore: requests are serialisable.           *)
(***************************************************************************)

Rows == {[session |-> d.session, content |-> d.content] : d \in documents}
Store == INSTANCE SessionStore WITH documents <- Rows
RequestsAreAtomic == Store!Spec
=============================================================================
