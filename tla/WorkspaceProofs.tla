--------------------------- MODULE WorkspaceProofs ---------------------------
(***************************************************************************)
(* Theorems about Workspace, for any users, sessions, contents, facts,     *)
(* runs and workers.                                                       *)
(*                                                                         *)
(* The lock on the user's row carries the argument, although nothing in    *)
(* the routes asks for it.  LockInv says that a transaction past Enter     *)
(* holds it, so that no two of one user are under way.  StageInv says what *)
(* a transaction has found out by the time it commits.  FreshInv says that *)
(* what a request creates is known to no other.                            *)
(***************************************************************************)
EXTENDS Workspace, Integers, TLAPS

Contents(s) == {d.content : d \in Below(s, documents)}

LockInv ==
  \A w \in Worker :
    /\ phase[w] \in Writing => holder[call[w].user] = w
    /\ phase[w] # "idle" => call[w] # NoCall

SessionOps == {"delete_session", "upload_document", "delete_document", "create_run"}

Informed(w) ==
  /\ phase[w] \in {"idle", "known", "unknown", "greeted"} => evidence[w] = {}
  /\ phase[w] = "indexing" => Op(w, "upload_document") /\ draft[w] = "processing"
  /\ phase[w] = "running" => Op(w, "create_run")
  /\ phase[w] \in {"indexing", "running", "written"} /\ call[w].op \in SessionOps => Own(w)
  /\ Op(w, "upload_document") /\ phase[w] \in {"indexing", "written"} =>
       /\ draft[w] = "duplicate" <=> Stored(call[w].session, call[w].content)
       /\ phase[w] = "written" => draft[w] \in {"duplicate", "processed"}
  /\ Op(w, "create_run") /\ phase[w] \in {"running", "written"} =>
       evidence[w] \subseteq corpus[w] /\ corpus[w] = Contents(call[w].session)

StageInv == \A w \in Worker : Informed(w)

FreshInv ==
  /\ \A s \in SessionId : owner[s] # Nobody => s \in issued
  /\ \A x \in runs : x.run \in issued
  /\ \A w \in Worker : call[w] # NoCall => Brings(call[w]) \subseteq issued
  /\ \A v, w \in Worker : v # w /\ call[v] # NoCall /\ call[w] # NoCall
                            => Brings(call[v]) \intersect Brings(call[w]) = {}
  /\ \A w \in Worker : Op(w, "create_session") => owner[call[w].session] = Nobody
  /\ \A w \in Worker : Op(w, "create_run") => \A x \in runs : x.run # call[w].run

StoreInv ==
  TypeOK /\ LockInv /\ StageInv /\ FreshInv /\ NothingOrphaned /\ DocumentsWhole

-----------------------------------------------------------------------------
(***************************************************************************)
(* Types.                                                                  *)
(***************************************************************************)

LEMMA ShapeFacts ==
  ASSUME NEW c \in CallShapes
  PROVE  /\ c.user \in User
         /\ c.op \in {"create_session", "get_session", "create_memory"} \union SessionOps
              => c.session \in SessionId
         /\ c.op \in {"upload_document", "delete_document"} => c.content \in Content
         /\ c.op \in {"create_memory", "delete_memory"} => c.fact \in Fact
         /\ c.op \in {"create_run", "get_run"} => c.run \in RunId
         /\ Brings(c) \subseteq SessionId \union Fact \union RunId
BY DEF CallShapes, SessionOps, Brings

LEMMA CallShaped ==
  ASSUME TypeOK, NEW w \in Worker, call[w] # NoCall
  PROVE  call[w] \in CallShapes
BY CallAssumption DEF TypeOK

LEMMA ContentsTyped ==
  ASSUME TypeOK, NEW s
  PROVE  Contents(s) \subseteq Content /\ Searchable(s) \subseteq Content
BY DEF TypeOK, Contents, Searchable, Below

LEMMA TypeInit == Init => TypeOK
BY DEF Init, TypeOK, Phases, Drafts

LEMMA EndTyped ==
  ASSUME TypeOK, NEW w \in Worker, End(w)
  PROVE  /\ issued' \in SUBSET (SessionId \union Fact \union RunId)
         /\ call' \in [Worker -> Calls \union {NoCall}]
         /\ phase' \in [Worker -> Phases]
         /\ holder' \in [User -> Worker \union {Nobody}]
         /\ draft' \in [Worker -> Drafts]
         /\ corpus' \in [Worker -> SUBSET Content]
         /\ evidence' \in [Worker -> SUBSET Content]
BY DEF End, TypeOK, Phases, Drafts

LEMMA CommitTyped ==
  ASSUME TypeOK, NEW w \in Worker, NEW op, Commit(w, op)
  PROVE  users' \in SUBSET User
<1>1. call[w] \in CallShapes
  BY CallShaped DEF Commit, Op
<1> QED
  BY <1>1, ShapeFacts DEF Commit, TypeOK

LEMMA ServeTyped ==
  ASSUME TypeOK, NEW w \in Worker, Serve(w)
  PROVE  TypeOK'
<1> USE DEF TypeOK, tableVars, runVars, Advance, Does, Writing, Closing
<1> DEFINE c == call[w]
<1>0. \A op : Op(w, op) => c \in CallShapes /\ c.op = op
  BY CallShaped DEF Op
<1>c. \A op : Commit(w, op) => Op(w, op) /\ End(w) /\ users' \in SUBSET User
  BY CommitTyped DEF Commit
<1>1. CASE CreateSession(w)
  BY <1>1 DEF CreateSession, Phases
<1>2. CASE GetSession(w)
  BY <1>2 DEF GetSession, Phases
<1>3. CASE DeleteSession(w)
  BY <1>3 DEF DeleteSession, Phases
<1>4. CASE FindDuplicate(w)
  BY <1>4 DEF FindDuplicate, Phases, Drafts
<1>5. CASE Index(w)
  BY <1>5 DEF Index, Phases, Drafts
<1>6. CASE DeleteDocument(w)
  BY <1>6 DEF DeleteDocument, Phases
<1>7. CASE CreateMemory(w)
  BY <1>7 DEF CreateMemory, Phases
<1>8. CASE DeleteMemory(w)
  BY <1>8 DEF DeleteMemory, Phases
<1>9. CASE OpenRun(w)
  BY <1>9, ContentsTyped DEF OpenRun, Phases, Contents
<1>10. CASE Retrieve(w)
  BY <1>10, ContentsTyped DEF Retrieve
<1>11. CASE FinishRun(w)
  BY <1>11 DEF FinishRun, Phases, Drafts
<1>12. CASE GetRun(w)
  BY <1>12 DEF GetRun, Phases
<1>13. CASE CommitSession(w)
  BY <1>13, <1>0, <1>c, EndTyped, ShapeFacts DEF CommitSession
<1>14. CASE CommitDeletion(w)
  BY <1>14, <1>c, EndTyped DEF CommitDeletion
<1>15. CASE CommitUpload(w)
  <2>1. c.session \in SessionId /\ c.content \in Content
    BY <1>15, <1>0, <1>c, ShapeFacts DEF CommitUpload, SessionOps
  <2> QED
    BY <1>15, <2>1, <1>c, EndTyped DEF CommitUpload
<1>16. CASE CommitDocumentDeletion(w)
  BY <1>16, <1>c, EndTyped DEF CommitDocumentDeletion
<1>17. CASE CommitMemory(w)
  BY <1>17, <1>0, <1>c, EndTyped, ShapeFacts DEF CommitMemory
<1>18. CASE CommitMemoryDeletion(w)
  BY <1>18, <1>c, EndTyped DEF CommitMemoryDeletion
<1>19. CASE CommitRun(w)
  <2>1. c.session \in SessionId /\ c.run \in RunId
    BY <1>19, <1>0, <1>c, ShapeFacts DEF CommitRun, SessionOps
  <2> QED
    BY <1>19, <2>1, <1>c, EndTyped DEF CommitRun
<1>20. CASE Close(w)
  BY <1>20, EndTyped DEF Close
<1>21. CASE Fails(w)
  BY <1>21 DEF Fails, Phases
<1> QED
  BY <1>1, <1>2, <1>3, <1>4, <1>5, <1>6, <1>7, <1>8, <1>9, <1>10, <1>11, <1>12, <1>13,
     <1>14, <1>15, <1>16, <1>17, <1>18, <1>19, <1>20, <1>21, Zenon DEF Serve, Works

LEMMA TypeNext == TypeOK /\ [Next]_vars => TypeOK'
<1> SUFFICES ASSUME TypeOK, [Next]_vars PROVE TypeOK'
  OBVIOUS
<1> USE DEF TypeOK, tableVars, runVars, Advance
<1>1. CASE UNCHANGED vars
  <2>1. /\ users' = users /\ owner' = owner /\ documents' = documents /\ memories' = memories
        /\ runs' = runs /\ turns' = turns /\ issued' = issued /\ call' = call
        /\ phase' = phase /\ holder' = holder /\ draft' = draft /\ corpus' = corpus
        /\ evidence' = evidence
    BY <1>1 DEF vars
  <2> QED
    BY <2>1
<1>2. CASE Crash
  BY <1>2 DEF Crash, Phases, Drafts
<1>3. ASSUME NEW w \in Worker, Arrive(w) PROVE TypeOK'
  <2>1. PICK c \in Calls :
          /\ call' = [call EXCEPT ![w] = c]
          /\ issued' = issued \union Brings(c)
          /\ Advance(w, "idle", IF c.user \in users THEN "known" ELSE "unknown")
    BY <1>3 DEF Arrive
  <2>2. Brings(c) \subseteq SessionId \union Fact \union RunId
    BY CallAssumption, ShapeFacts
  <2> QED
    BY <1>3, <2>1, <2>2 DEF Arrive, Phases
<1>4. ASSUME NEW w \in Worker, Enter(w) PROVE TypeOK'
  BY <1>4 DEF Enter, Stamp, Register, Phases, Writing, Closing
<1>5. ASSUME NEW w \in Worker, Serve(w) PROVE TypeOK'
  BY <1>5, ServeTyped
<1> QED
  BY <1>1, <1>2, <1>3, <1>4, <1>5 DEF Next

\* Every table holds rows of its own kind and every request is in one of its
\* phases.
THEOREM TypeCorrect == Spec => []TypeOK
BY TypeInit, TypeNext, PTL DEF Spec

-----------------------------------------------------------------------------
(***************************************************************************)
(* What a step of one worker leaves to the others.                         *)
(***************************************************************************)

\* the request of another worker is where it was, and keeps its lock
LEMMA OthersKeep ==
  ASSUME TypeOK, NEW w \in Worker, Arrive(w) \/ Enter(w) \/ Serve(w),
         NEW v \in Worker, v # w
  PROVE  /\ call'[v] = call[v] /\ phase'[v] = phase[v] /\ draft'[v] = draft[v]
         /\ corpus'[v] = corpus[v] /\ evidence'[v] = evidence[v]
         /\ \A u \in User : holder[u] = v => holder'[u] = v
<1> USE NullAssumption DEF TypeOK, tableVars, runVars, Advance, Does
<1>0. CASE End(w)
  BY <1>0 DEF End
<1>1. CASE Arrive(w)
  BY <1>1 DEF Arrive
<1>2. CASE Enter(w)
  BY <1>2 DEF Enter, Stamp, Register
<1>3. CASE Serve(w)
  <2>1. CASE Index(w) \/ FindDuplicate(w) \/ Fails(w)
    BY <2>1 DEF Index, FindDuplicate, Fails
  <2>2. CASE OpenRun(w) \/ Retrieve(w) \/ FinishRun(w)
    BY <2>2 DEF OpenRun, Retrieve, FinishRun
  <2>3. CASE \/ CreateSession(w) \/ GetSession(w) \/ DeleteSession(w) \/ DeleteDocument(w)
             \/ CreateMemory(w) \/ DeleteMemory(w) \/ GetRun(w)
    BY <2>3 DEF CreateSession, GetSession, DeleteSession, DeleteDocument, CreateMemory,
                DeleteMemory, GetRun
  <2>4. CASE \/ CommitSession(w) \/ CommitDeletion(w) \/ CommitUpload(w)
             \/ CommitDocumentDeletion(w) \/ CommitMemory(w) \/ CommitMemoryDeletion(w)
             \/ CommitRun(w) \/ Close(w)
    BY <2>4, <1>0 DEF CommitSession, CommitDeletion, CommitUpload, CommitDocumentDeletion,
                      CommitMemory, CommitMemoryDeletion, CommitRun, Commit, Close
  <2> QED
    BY <1>3, <2>1, <2>2, <2>3, <2>4, Zenon DEF Serve, Works
<1> QED
  BY <1>1, <1>2, <1>3

\* a step that is no commit leaves the tables alone
LEMMA OnlyCommitsWrite ==
  ASSUME NEW w \in Worker, Arrive(w) \/ Enter(w) \/ Serve(w)
  PROVE  \/ UNCHANGED tableVars
         \/ /\ End(w)
            /\ \/ CommitSession(w) \/ CommitDeletion(w) \/ CommitUpload(w)
               \/ CommitDocumentDeletion(w) \/ CommitMemory(w) \/ CommitMemoryDeletion(w)
               \/ CommitRun(w)
<1>1. CASE Arrive(w) \/ Enter(w)
  BY <1>1 DEF Arrive, Enter, Stamp, Register, tableVars
<1>2. CASE Serve(w)
  BY <1>2 DEF Serve, Works, CreateSession, GetSession, DeleteSession, FindDuplicate, Index,
              DeleteDocument, CreateMemory, DeleteMemory, OpenRun, Retrieve, FinishRun, GetRun,
              Close, Fails, Does, tableVars, Commit, CommitSession, CommitDeletion,
              CommitUpload, CommitDocumentDeletion, CommitMemory, CommitMemoryDeletion, CommitRun
<1> QED
  BY <1>1, <1>2

\* two requests of one user are never both past Enter
LEMMA OneOfAUser ==
  ASSUME TypeOK, LockInv, NEW v \in Worker, NEW w \in Worker, v # w,
         phase[v] \in Writing, phase[w] \in Writing
  PROVE  call[v].user # call[w].user
BY DEF LockInv

\* so that the session another request has looked up stays as it was
LEMMA SessionKept ==
  ASSUME StoreInv, NEW w \in Worker, Arrive(w) \/ Enter(w) \/ Serve(w),
         NEW v \in Worker, v # w, phase[v] \in {"indexing", "running", "written"},
         call[v].op \in SessionOps
  PROVE  /\ owner'[call[v].session] = call[v].user
         /\ Below(call[v].session, documents') = Below(call[v].session, documents)
<1> DEFINE s == call[v].session
           t == call[w].session
<1> USE DEF Writing
<1>1. TypeOK /\ LockInv /\ FreshInv /\ Informed(v) /\ Informed(w) /\ NothingOrphaned
  BY DEF StoreInv, StageInv
<1>2. call[v] # NoCall /\ call[v] \in CallShapes
  BY <1>1, CallShaped DEF LockInv
<1>3. s \in SessionId /\ call[v].user \in User /\ owner[s] = call[v].user /\ owner[s] # Nobody
  BY <1>1, <1>2, ShapeFacts, NullAssumption DEF Informed, Own
<1>4. CASE UNCHANGED tableVars
  BY <1>4, <1>3 DEF tableVars
<1>5. CASE CommitSession(w)
  <2>1. owner[t] = Nobody
    BY <1>1, <1>5 DEF CommitSession, Commit, FreshInv
  <2> QED
    BY <1>5, <1>1, <2>1, <1>3 DEF CommitSession, TypeOK
<1>6. ASSUME phase[w] = "written", Op(w, "delete_session") \/ Op(w, "upload_document")
                                     \/ Op(w, "delete_document")
      PROVE  s # t
  <2>1. owner[t] = call[w].user
    BY <1>1, <1>6 DEF Informed, Op, SessionOps, Own
  <2> QED
    BY <1>1, <1>3, <1>6, <2>1, OneOfAUser
<1>7. CASE CommitDeletion(w)
  BY <1>7, <1>1, <1>6, <1>3 DEF CommitDeletion, Commit, TypeOK, Below
<1>8. CASE CommitUpload(w)
  BY <1>8, <1>1, <1>6, <1>3 DEF CommitUpload, Commit, TypeOK, Below
<1>9. CASE CommitDocumentDeletion(w)
  BY <1>9, <1>1, <1>6, <1>3 DEF CommitDocumentDeletion, Commit, TypeOK, Below
<1>10. CASE CommitMemory(w) \/ CommitMemoryDeletion(w) \/ CommitRun(w)
  BY <1>10, <1>3 DEF CommitMemory, CommitMemoryDeletion, CommitRun
<1> QED
  BY <1>4, <1>5, <1>7, <1>8, <1>9, <1>10, OnlyCommitsWrite

-----------------------------------------------------------------------------
(***************************************************************************)
(* The invariant.                                                          *)
(***************************************************************************)

LEMMA StoreInit == Init => StoreInv
<1> SUFFICES ASSUME Init PROVE StoreInv
  OBVIOUS
<1>1. TypeOK
  BY TypeInit
<1>2. LockInv /\ StageInv
  BY DEF Init, LockInv, StageInv, Informed, Writing, Op
<1>3. FreshInv
  BY DEF Init, FreshInv, Op
<1>4. NothingOrphaned /\ DocumentsWhole
  BY DEF Init, NothingOrphaned, DocumentsWhole
<1> QED
  BY <1>1, <1>2, <1>3, <1>4 DEF StoreInv

\* the worker that moves holds its lock from Enter to the end
LEMMA LockOwn ==
  ASSUME StoreInv, NEW w \in Worker, Arrive(w) \/ Enter(w) \/ Serve(w)
  PROVE  /\ phase'[w] \in Writing => holder'[call'[w].user] = w
         /\ phase'[w] # "idle" => call'[w] # NoCall
<1> USE NullAssumption, CallAssumption DEF TypeOK, Advance, Does, Writing, Closing
<1>1. TypeOK /\ LockInv
  BY DEF StoreInv
<1>0. CASE End(w)
  BY <1>0, <1>1 DEF End
<1>2. CASE Arrive(w)
  BY <1>2, <1>1 DEF Arrive
<1>3. CASE Enter(w)
  <2>1. call[w] # NoCall /\ call[w].user \in User
    BY <1>3, <1>1, CallShaped, ShapeFacts DEF Enter, Stamp, Register, LockInv
  <2> QED
    BY <1>3, <1>1, <2>1 DEF Enter, Stamp, Register
<1>4. CASE Serve(w)
  <2>1. CASE Index(w) \/ FindDuplicate(w) \/ Fails(w)
    BY <2>1, <1>1 DEF Index, FindDuplicate, Fails, LockInv
  <2>2. CASE OpenRun(w) \/ Retrieve(w) \/ FinishRun(w)
    BY <2>2, <1>1 DEF OpenRun, Retrieve, FinishRun, LockInv
  <2>3. CASE \/ CreateSession(w) \/ GetSession(w) \/ DeleteSession(w) \/ DeleteDocument(w)
             \/ CreateMemory(w) \/ DeleteMemory(w) \/ GetRun(w)
    BY <2>3, <1>1 DEF CreateSession, GetSession, DeleteSession, DeleteDocument, CreateMemory,
                      DeleteMemory, GetRun, LockInv
  <2>4. CASE \/ CommitSession(w) \/ CommitDeletion(w) \/ CommitUpload(w)
             \/ CommitDocumentDeletion(w) \/ CommitMemory(w) \/ CommitMemoryDeletion(w)
             \/ CommitRun(w) \/ Close(w)
    BY <2>4, <1>0 DEF CommitSession, CommitDeletion, CommitUpload, CommitDocumentDeletion,
                      CommitMemory, CommitMemoryDeletion, CommitRun, Commit, Close
  <2> QED
    BY <1>4, <2>1, <2>2, <2>3, <2>4, Zenon DEF Serve, Works
<1> QED
  BY <1>2, <1>3, <1>4

LEMMA LockNext ==
  ASSUME StoreInv, NEW w \in Worker, Arrive(w) \/ Enter(w) \/ Serve(w)
  PROVE  LockInv'
<1> SUFFICES ASSUME NEW v \in Worker
             PROVE  /\ phase'[v] \in Writing => holder'[call'[v].user] = v
                    /\ phase'[v] # "idle" => call'[v] # NoCall
  BY DEF LockInv, Writing
<1>1. TypeOK /\ LockInv
  BY DEF StoreInv
<1>2. CASE v = w
  BY <1>2, LockOwn
<1>3. CASE v # w
  <2>1. call[v] # NoCall => call[v].user \in User
    BY <1>1, CallShaped, ShapeFacts
  <2> QED
    BY <1>1, <1>3, <2>1, OthersKeep DEF LockInv, Writing
<1> QED
  BY <1>2, <1>3

\* what the worker that moves has found out
LEMMA InformedOwn ==
  ASSUME StoreInv, NEW w \in Worker, Arrive(w) \/ Enter(w) \/ Serve(w)
  PROVE  Informed(w)'
<1> USE DEF TypeOK, Advance, Does, Informed, Op, Own, Stored, Contents, SessionOps, tableVars
<1>1. TypeOK /\ Informed(w)
  BY DEF StoreInv, StageInv
<1>0. CASE End(w)
  BY <1>0, <1>1 DEF End
<1>2. CASE Arrive(w)
  BY <1>2, <1>1 DEF Arrive, runVars
<1>3. CASE Enter(w)
  BY <1>3, <1>1 DEF Enter, Stamp, Register, runVars
<1>4. CASE Serve(w)
  <2>1. CASE FindDuplicate(w)
    BY <2>1, <1>1 DEF FindDuplicate
  <2>2. CASE Index(w)
    BY <2>2, <1>1 DEF Index
  <2>3. CASE OpenRun(w)
    BY <2>3, <1>1 DEF OpenRun
  <2>4. CASE Retrieve(w)
    <3>1. Searchable(call[w].session) \subseteq Contents(call[w].session)
      BY DEF Searchable
    <3> QED
      BY <2>4, <1>1, <3>1 DEF Retrieve
  <2>5. CASE FinishRun(w)
    BY <2>5, <1>1 DEF FinishRun
  <2>6. CASE Fails(w)
    BY <2>6, <1>1 DEF Fails, runVars
  <2>7. CASE \/ CreateSession(w) \/ GetSession(w) \/ DeleteSession(w) \/ DeleteDocument(w)
             \/ CreateMemory(w) \/ DeleteMemory(w) \/ GetRun(w)
    BY <2>7, <1>1 DEF CreateSession, GetSession, DeleteSession, DeleteDocument, CreateMemory,
                      DeleteMemory, GetRun, runVars
  <2>8. CASE \/ CommitSession(w) \/ CommitDeletion(w) \/ CommitUpload(w)
             \/ CommitDocumentDeletion(w) \/ CommitMemory(w) \/ CommitMemoryDeletion(w)
             \/ CommitRun(w) \/ Close(w)
    BY <2>8, <1>0 DEF CommitSession, CommitDeletion, CommitUpload, CommitDocumentDeletion,
                      CommitMemory, CommitMemoryDeletion, CommitRun, Commit, Close
  <2> QED
    BY <1>4, <2>1, <2>2, <2>3, <2>4, <2>5, <2>6, <2>7, <2>8, Zenon DEF Serve, Works
<1> QED
  BY <1>2, <1>3, <1>4

LEMMA StageNext ==
  ASSUME StoreInv, NEW w \in Worker, Arrive(w) \/ Enter(w) \/ Serve(w)
  PROVE  StageInv'
<1> SUFFICES ASSUME NEW v \in Worker PROVE Informed(v)'
  BY DEF StageInv
<1>1. CASE v = w
  BY <1>1, InformedOwn
<1>2. CASE v # w
  <2>1. TypeOK /\ Informed(v)
    BY DEF StoreInv, StageInv
  <2>2. /\ call'[v] = call[v] /\ phase'[v] = phase[v] /\ draft'[v] = draft[v]
        /\ corpus'[v] = corpus[v] /\ evidence'[v] = evidence[v]
    BY <1>2, <2>1, OthersKeep
  <2>3. phase[v] \in {"indexing", "running", "written"} /\ call[v].op \in SessionOps =>
          /\ owner'[call[v].session] = call[v].user
          /\ Below(call[v].session, documents') = Below(call[v].session, documents)
    BY <1>2, SessionKept
  <2>4. \A s : /\ Contents(s) = {d.content : d \in Below(s, documents)}
               /\ Contents(s)' = {d.content : d \in Below(s, documents')}
    BY DEF Contents, Below
  <2>5. \A s, c : /\ Stored(s, c) <=> \E d \in Below(s, documents) : d.content = c
                  /\ Stored(s, c)' <=> \E d \in Below(s, documents') : d.content = c
    BY DEF Stored, Below
  <2> QED
    BY <2>1, <2>2, <2>3, <2>4, <2>5 DEF Informed, Op, Own, SessionOps
<1> QED
  BY <1>1, <1>2

\* what a request brings is new to the others
LEMMA FreshNext ==
  ASSUME StoreInv, NEW w \in Worker, Arrive(w) \/ Enter(w) \/ Serve(w)
  PROVE  FreshInv'
<1> USE DEF TypeOK, Op
<1>1. TypeOK /\ FreshInv
  BY DEF StoreInv
<1>2. \A v \in Worker \ {w} : call'[v] = call[v]
  BY <1>1, OthersKeep
<1>3. CASE Arrive(w)
  <2>1. PICK c \in Calls : /\ Brings(c) \intersect issued = {}
                           /\ call' = [call EXCEPT ![w] = c]
                           /\ issued' = issued \union Brings(c)
    BY <1>3 DEF Arrive
  <2>2. UNCHANGED tableVars
    BY <1>3 DEF Arrive
  <2>3. c \in CallShapes /\ call'[w] = c
    BY <1>1, <2>1, CallAssumption
  <2>4. c.op = "create_session" => owner[c.session] = Nobody
    BY <1>1, <2>1, <2>3, ShapeFacts DEF FreshInv, Brings
  <2>5. c.op = "create_run" => \A x \in runs : x.run # c.run
    BY <1>1, <2>1 DEF FreshInv, Brings
  <2> QED
    BY <1>1, <1>2, <2>1, <2>2, <2>3, <2>4, <2>5 DEF FreshInv, tableVars
<1>4. ASSUME Enter(w) \/ Serve(w)
      PROVE  issued' = issued /\ (call'[w] = call[w] \/ call'[w] = NoCall)
  <2>1. CASE Enter(w)
    BY <2>1 DEF Enter, Stamp, Register
  <2>2. CASE Serve(w)
    BY <1>1, <2>2
       DEF Serve, Works, CreateSession, GetSession, DeleteSession, FindDuplicate, Index, Does, End,
           DeleteDocument, CreateMemory, DeleteMemory, OpenRun, Retrieve, FinishRun, GetRun,
           Close, Fails, Commit, CommitSession, CommitDeletion, CommitUpload,
           CommitDocumentDeletion, CommitMemory, CommitMemoryDeletion, CommitRun
  <2> QED
    BY <1>4, <2>1, <2>2
<1>5. CASE Enter(w) \/ Serve(w)
  <2> USE <1>4, <1>5
  <2>1. CASE UNCHANGED tableVars
    BY <1>1, <1>2, <2>1 DEF FreshInv, tableVars
  <2>2. CASE End(w) /\ CommitSession(w)
    <3>1. Brings(call[w]) = {call[w].session} /\ call[w] # NoCall
      BY <2>2 DEF CommitSession, Commit, Brings
    <3>2. \A v \in Worker : Op(v, "create_session") => Brings(call[v]) = {call[v].session}
      BY DEF Brings
    <3>3. call'[w] = NoCall
      BY <1>1, <2>2 DEF End
    <3>4. \A s \in SessionId : owner'[s] = owner[s] \/ s = call[w].session
      BY <1>1, <2>2 DEF CommitSession
    <3>5. call[w].session \in issued
      BY <1>1, <3>1 DEF FreshInv
    <3>6. \A v \in Worker : Op(v, "create_session") => call[v].session \in SessionId
      BY <1>1, CallShaped, ShapeFacts
    <3>7. \A v \in Worker \ {w} : Op(v, "create_session") => call[v].session # call[w].session
      BY <1>1, <3>1, <3>2 DEF FreshInv
    <3>8. runs' = runs
      BY <2>2 DEF CommitSession
    <3> QED
      BY <1>1, <1>2, <3>3, <3>4, <3>5, <3>6, <3>7, <3>8 DEF FreshInv
  <2>3. CASE End(w) /\ CommitRun(w)
    <3>1. Brings(call[w]) = {call[w].run} /\ call[w] # NoCall
      BY <2>3 DEF CommitRun, Commit, Brings
    <3>2. \A v \in Worker : Op(v, "create_run") => Brings(call[v]) = {call[v].run}
      BY DEF Brings
    <3>3. call'[w] = NoCall /\ owner' = owner
      BY <1>1, <2>3 DEF End, CommitRun
    <3>4. \A x \in runs' : x \in runs \/ x.run = call[w].run
      BY <2>3 DEF CommitRun
    <3>5. call[w].run \in issued
      BY <1>1, <3>1 DEF FreshInv
    <3>6. \A v \in Worker \ {w} : Op(v, "create_run") => call[v].run # call[w].run
      BY <1>1, <3>1, <3>2 DEF FreshInv
    <3> QED
      BY <1>1, <1>2, <3>3, <3>4, <3>5, <3>6 DEF FreshInv
  <2>4. CASE End(w) /\ CommitDeletion(w)
    <3>1. /\ \A s \in SessionId : owner'[s] = owner[s] \/ owner'[s] = Nobody
          /\ \A s : owner[s] = Nobody => owner'[s] = Nobody
          /\ runs' \subseteq runs
      <4>1. owner' = [owner EXCEPT ![call[w].session] = Nobody] /\ runs' \subseteq runs
        BY <2>4 DEF CommitDeletion
      <4>2. owner \in [SessionId -> User \union {Nobody}]
        BY <1>1
      <4>3. \A s \in SessionId : owner'[s] = owner[s] \/ owner'[s] = Nobody
        BY <4>1, <4>2
      <4>4. DOMAIN owner' = DOMAIN owner
        BY <4>1
      <4> QED
        BY <4>1, <4>2, <4>3
    <3> QED
      BY <1>1, <1>2, <3>1 DEF FreshInv
  <2>5. CASE \/ CommitUpload(w) \/ CommitDocumentDeletion(w) \/ CommitMemory(w)
             \/ CommitMemoryDeletion(w)
    <3>1. owner' = owner /\ runs' = runs
      BY <2>5 DEF CommitUpload, CommitDocumentDeletion, CommitMemory, CommitMemoryDeletion
    <3> QED
      BY <1>1, <1>2, <3>1 DEF FreshInv
  <2> QED
    BY <2>1, <2>2, <2>3, <2>4, <2>5, OnlyCommitsWrite
<1> QED
  BY <1>3, <1>5

\* no commit leaves anything without its session, or half a document
LEMMA TablesNext ==
  ASSUME StoreInv, NEW w \in Worker, Arrive(w) \/ Enter(w) \/ Serve(w)
  PROVE  NothingOrphaned' /\ DocumentsWhole'
<1> DEFINE s == call[w].session
<1> USE DEF NothingOrphaned, DocumentsWhole, Below
<1>1. TypeOK /\ NothingOrphaned /\ DocumentsWhole /\ Informed(w) /\ FreshInv
  BY DEF StoreInv, StageInv
<1>2. CASE UNCHANGED tableVars
  BY <1>1, <1>2 DEF tableVars
<1>3. ASSUME phase[w] = "written", Op(w, "upload_document") \/ Op(w, "create_run")
      PROVE  s \in SessionId /\ owner[s] # Nobody
  <2>1. call[w] \in CallShapes
    BY <1>1, <1>3, CallShaped DEF Op
  <2> QED
    BY <1>1, <1>3, <2>1, ShapeFacts, NullAssumption DEF Informed, Own, Op, SessionOps
<1>4. CASE CommitSession(w)
  <2>1. owner' = [owner EXCEPT ![s] = call[w].user] /\ call[w].user # Nobody
    <3>1. call[w] \in CallShapes
      BY <1>1, <1>4, CallShaped DEF CommitSession, Commit, Op
    <3> QED
      BY <1>4, <3>1, ShapeFacts, NullAssumption DEF CommitSession
  <2> QED
    BY <1>1, <1>4, <2>1 DEF CommitSession, TypeOK
<1>5. CASE CommitDeletion(w)
  BY <1>1, <1>5 DEF CommitDeletion, TypeOK
<1>6. CASE CommitUpload(w)
  BY <1>1, <1>3, <1>6 DEF CommitUpload, Commit, Informed
<1>7. CASE CommitDocumentDeletion(w)
  BY <1>1, <1>7 DEF CommitDocumentDeletion
<1>8. CASE CommitMemory(w) \/ CommitMemoryDeletion(w)
  BY <1>1, <1>8 DEF CommitMemory, CommitMemoryDeletion
<1>9. CASE CommitRun(w)
  BY <1>1, <1>3, <1>9 DEF CommitRun, Commit
<1> QED
  BY <1>2, <1>4, <1>5, <1>6, <1>7, <1>8, <1>9, OnlyCommitsWrite

LEMMA StoreNext == StoreInv /\ [Next]_vars => StoreInv'
<1> SUFFICES ASSUME StoreInv, [Next]_vars PROVE StoreInv'
  OBVIOUS
<1>1. TypeOK'
  BY TypeNext DEF StoreInv
<1>2. ASSUME NEW w \in Worker, Arrive(w) \/ Enter(w) \/ Serve(w) PROVE StoreInv'
  BY <1>1, <1>2, LockNext, StageNext, FreshNext, TablesNext DEF StoreInv
<1>3. CASE Crash
  <2> USE <1>3 DEF Crash, tableVars, StoreInv
  <2>1. LockInv' /\ StageInv'
    BY DEF LockInv, StageInv, Informed, Op, Writing
  <2>2. FreshInv'
    BY DEF FreshInv, Op
  <2>3. NothingOrphaned' /\ DocumentsWhole'
    BY DEF NothingOrphaned, DocumentsWhole
  <2> QED
    BY <1>1, <2>1, <2>2, <2>3
<1>4. CASE UNCHANGED vars
  <2>1. /\ owner' = owner /\ documents' = documents /\ runs' = runs /\ turns' = turns
        /\ issued' = issued /\ call' = call /\ phase' = phase /\ holder' = holder
        /\ draft' = draft /\ corpus' = corpus /\ evidence' = evidence
    BY <1>4 DEF vars
  <2>2. LockInv' /\ StageInv'
    BY <2>1 DEF StoreInv, LockInv, StageInv, Informed, Op, Own, Stored, Contents, Below
  <2>3. FreshInv' /\ NothingOrphaned' /\ DocumentsWhole'
    BY <2>1 DEF StoreInv, FreshInv, Op, NothingOrphaned, DocumentsWhole
  <2> QED
    BY <1>1, <2>2, <2>3 DEF StoreInv
<1> QED
  BY <1>2, <1>3, <1>4 DEF Next

LEMMA StoreAlways == Spec => []StoreInv
BY StoreInit, StoreNext, PTL DEF Spec

\* No order of uploads, runs and deletions leaves a row without its session.
THEOREM NothingIsOrphaned == Spec => []NothingOrphaned
<1>1. StoreInv => NothingOrphaned
  BY DEF StoreInv
<1> QED
  BY <1>1, StoreAlways, PTL

\* No half-ingested document is ever committed.
THEOREM DocumentsAreWhole == Spec => []DocumentsWhole
<1>1. StoreInv => DocumentsWhole
  BY DEF StoreInv
<1> QED
  BY <1>1, StoreAlways, PTL

\* The answer of the duplicate check is current until the upload commits.
THEOREM DuplicateChecksStayCurrent == Spec => []DuplicateCheckCurrent
<1>1. StoreInv => DuplicateCheckCurrent
  BY DEF StoreInv, StageInv, Informed, DuplicateCheckCurrent
<1> QED
  BY <1>1, StoreAlways, PTL

\* A run sees one corpus from its first read to its commit.
THEOREM RunsSeeOneCorpus == Spec => []RunsReadOneCorpus
<1>1. StoreInv => RunsReadOneCorpus
  BY DEF StoreInv, StageInv, Informed, RunsReadOneCorpus, Contents, Op, SessionOps
<1> QED
  BY <1>1, StoreAlways, PTL

-----------------------------------------------------------------------------
(***************************************************************************)
(* Workspace implements SessionStore.                                      *)
(***************************************************************************)

LEMMA StoreInitImplements == Init => Store!Init
BY DEF Init, Store!Init, Rows

\* a commit is one step of the store; every other step is none
LEMMA CommitImplements ==
  ASSUME StoreInv, NEW w \in Worker, Arrive(w) \/ Enter(w) \/ Serve(w)
  PROVE  Store!Next \/ UNCHANGED Store!vars
<1> DEFINE c == call[w]
<1> USE DEF Store!Next
<1>1. TypeOK /\ Informed(w) /\ FreshInv
  BY DEF StoreInv, StageInv
<1>2. CASE UNCHANGED tableVars
  BY <1>2 DEF tableVars, Store!vars, Rows
<1>3. \A op : Commit(w, op) => c \in CallShapes /\ c.op = op /\ phase[w] = "written" /\ Op(w, op)
  BY <1>1, CallShaped DEF Commit, Op
<1>4. \A op \in SessionOps : Commit(w, op) =>
        c.session \in SessionId /\ owner[c.session] = c.user /\ owner[c.session] # Nobody
  BY <1>1, <1>3, ShapeFacts, NullAssumption DEF Informed, Own
<1>5. CASE CommitSession(w)
  <2>1. c.user \in User /\ c.session \in SessionId /\ owner[c.session] = Nobody
    BY <1>1, <1>3, <1>5, ShapeFacts DEF CommitSession, FreshInv
  <2>2. Store!CreateSession(c.user, c.session)
    BY <1>5, <2>1 DEF CommitSession, Store!CreateSession, Rows
  <2> QED
    BY <2>1, <2>2
<1>6. CASE CommitDeletion(w)
  <2>1. c.session \in SessionId
    BY <1>4, <1>6 DEF CommitDeletion, SessionOps
  <2>2. Rows' = Rows \ Store!Below(c.session, Rows)
    BY <1>6 DEF CommitDeletion, Rows, Below, Store!Below
  <2>3. Store!DeleteSession(c.session)
    BY <1>6, <2>2 DEF CommitDeletion, Store!DeleteSession, Below, Store!Below
  <2> QED
    BY <2>1, <2>3
<1>7. CASE CommitUpload(w)
  <2>1. /\ c.session \in SessionId /\ owner[c.session] # Nobody /\ c.content \in Content
        /\ UNCHANGED <<owner, memories, runs, turns>>
    BY <1>3, <1>4, <1>7, ShapeFacts DEF CommitUpload, SessionOps
  <2>2. CASE draft[w] = "duplicate"
    BY <1>7, <2>1, <2>2 DEF CommitUpload, Store!vars, Rows
  <2>3. CASE draft[w] # "duplicate"
    <3> DEFINE row == [session |-> c.session, content |-> c.content, status |-> draft[w]]
    <3>1. documents' = documents \union {row}
      BY <1>7, <2>3 DEF CommitUpload
    <3>2. Rows' = Rows \union {[session |-> row.session, content |-> row.content]}
      <4> HIDE DEF row
      <4> QED
        BY <3>1 DEF Rows
    <3>3. Store!AddDocument(c.session, c.content)
      BY <2>1, <3>2 DEF Store!AddDocument
    <3> QED
      BY <2>1, <3>3
  <2> QED
    BY <2>2, <2>3
<1>8. CASE CommitDocumentDeletion(w)
  <2>1. c.session \in SessionId /\ c.content \in Content
    BY <1>3, <1>8, ShapeFacts DEF CommitDocumentDeletion, SessionOps
  <2>2. Rows' = Rows \ {[session |-> c.session, content |-> c.content]}
    BY <1>8 DEF CommitDocumentDeletion, Rows
  <2>3. Store!DeleteDocument(c.session, c.content)
    BY <1>8, <2>2 DEF CommitDocumentDeletion, Store!DeleteDocument
  <2> QED
    BY <2>1, <2>3
<1>9. CASE CommitMemory(w)
  <2>1. c.user \in User /\ c.fact \in Fact
    BY <1>3, <1>9, ShapeFacts DEF CommitMemory
  <2>2. Store!Remember(c.user, c.fact)
    BY <1>9 DEF CommitMemory, Store!Remember, Rows
  <2> QED
    BY <2>1, <2>2
<1>10. CASE CommitMemoryDeletion(w)
  <2>1. c.user \in User /\ c.fact \in Fact
    BY <1>3, <1>10, ShapeFacts DEF CommitMemoryDeletion
  <2>2. Store!Forget(c.user, c.fact)
    BY <1>10 DEF CommitMemoryDeletion, Store!Forget, Rows
  <2> QED
    BY <2>1, <2>2
<1>11. CASE CommitRun(w)
  <2>1. c.session \in SessionId /\ owner[c.session] # Nobody /\ c.run \in RunId
    BY <1>3, <1>4, <1>11, ShapeFacts DEF CommitRun, SessionOps
  <2>2. c.run \notin {x.run : x \in runs}
    BY <1>1, <1>3, <1>11 DEF CommitRun, FreshInv
  <2>3. Contents(c.session) = {d.content : d \in Store!Below(c.session, Rows)}
    <3>1. ASSUME NEW d \in Below(c.session, documents)
          PROVE  \E x \in Store!Below(c.session, Rows) : x.content = d.content
      <4>1. [session |-> d.session, content |-> d.content] \in Store!Below(c.session, Rows)
        BY DEF Rows, Below, Store!Below
      <4> QED
        BY <4>1
    <3>2. ASSUME NEW x \in Store!Below(c.session, Rows)
          PROVE  \E d \in Below(c.session, documents) : x.content = d.content
      BY DEF Rows, Below, Store!Below
    <3> QED
      BY <3>1, <3>2 DEF Contents
  <2>4. evidence[w] \in SUBSET {d.content : d \in Store!Below(c.session, Rows)}
    BY <1>1, <1>3, <1>11, <2>3 DEF CommitRun, Informed
  <2>5. Store!StoreRun(c.session, c.run)
    BY <1>11, <2>1, <2>2, <2>4 DEF CommitRun, Store!StoreRun, Rows
  <2> QED
    BY <2>1, <2>5
<1> QED
  BY <1>2, <1>5, <1>6, <1>7, <1>8, <1>9, <1>10, <1>11, OnlyCommitsWrite

LEMMA NextImplements == StoreInv /\ [Next]_vars => [Store!Next]_(Store!vars)
<1> SUFFICES ASSUME StoreInv, [Next]_vars
             PROVE  Store!Next \/ UNCHANGED Store!vars
  OBVIOUS
<1>1. CASE Crash
  BY <1>1 DEF Crash, tableVars, Store!vars, Rows
<1>2. CASE UNCHANGED vars
  BY <1>2 DEF vars, Store!vars, Rows
<1>3. ASSUME NEW w \in Worker, Arrive(w) \/ Enter(w) \/ Serve(w)
      PROVE  Store!Next \/ UNCHANGED Store!vars
  BY <1>3, CommitImplements
<1> QED
  BY <1>1, <1>2, <1>3 DEF Next

\* Requests are serialisable: a run of minutes, with its reads through other
\* connections, is one step of the store, taken when it commits.
THEOREM RequestsSerialise == Spec => RequestsAreAtomic
<1>1. Spec => []StoreInv
  BY StoreAlways
<1> QED
  BY <1>1, StoreInitImplements, NextImplements, PTL DEF Spec, RequestsAreAtomic, Store!Spec

-----------------------------------------------------------------------------
(***************************************************************************)
(* A request comes to an end: what RequestsEnd rests on besides fairness.  *)
(***************************************************************************)

Waiting == {"known", "unknown"}

\* the user's row is locked by a request of this user that is past Enter
HeldWhileServed ==
  \A u \in User : holder[u] # Nobody =>
    /\ phase[holder[u]] \in Writing \union Closing
    /\ call[holder[u]] # NoCall /\ call[holder[u]].user = u

\* the steps that a request has left, searches of its run apart
StepsLeft(p) ==
  CASE p \in Waiting -> 5
    [] p = "greeted" -> 4
    [] p \in {"indexing", "running"} -> 3
    [] p = "written" -> 2
    [] p \in Closing -> 1
    [] OTHER -> 0

\* what a step of one worker does to its phase and to the locks
Keeps(w) == call'[w] = call[w] /\ holder' = holder
Begins(w) == phase[w] = "idle" /\ phase'[w] \in Waiting /\ holder' = holder
Locks(w) ==
  /\ phase[w] \in Waiting /\ phase'[w] = "greeted" /\ call'[w] = call[w]
  /\ holder[call[w].user] = Nobody /\ holder' = [holder EXCEPT ![call[w].user] = w]
Refused(w) == phase[w] \in Waiting /\ phase'[w] = "failed" /\ Keeps(w)
Proceeds(w) ==
  /\ phase[w] \in Writing /\ phase'[w] \in Writing \union Closing /\ Keeps(w)
  /\ StepsLeft(phase'[w]) < StepsLeft(phase[w])
Searches(w) ==
  phase[w] = "running" /\ phase'[w] = "running" /\ Keeps(w) /\ evidence[w] \subseteq evidence'[w]
Ends(w) == phase[w] \in Writing \union Closing /\ phase'[w] = "idle" /\ End(w)

LEMMA StepKinds ==
  ASSUME TypeOK, NEW w \in Worker, Arrive(w) \/ Enter(w) \/ Serve(w)
  PROVE  \/ Begins(w) \/ Locks(w) \/ Refused(w) \/ Proceeds(w) \/ Ends(w)
         \/ Retrieve(w) /\ Searches(w)
<1> USE DEF TypeOK, Advance, Does, Writing, Closing, Waiting, StepsLeft, Keeps
<1>1. CASE Arrive(w)
  BY <1>1 DEF Arrive, Begins
<1>2. CASE Stamp(w)
  BY <1>2 DEF Stamp, Locks
<1>3. CASE Register(w)
  BY <1>3 DEF Register, Locks, Refused
<1>4. CASE \/ CreateSession(w) \/ GetSession(w) \/ DeleteSession(w) \/ DeleteDocument(w)
           \/ CreateMemory(w) \/ DeleteMemory(w) \/ GetRun(w)
  BY <1>4 DEF CreateSession, GetSession, DeleteSession, DeleteDocument, CreateMemory,
              DeleteMemory, GetRun, Proceeds
<1>5. CASE FindDuplicate(w) \/ Index(w) \/ OpenRun(w) \/ FinishRun(w)
  BY <1>5 DEF FindDuplicate, Index, OpenRun, FinishRun, Proceeds
<1>6. CASE Retrieve(w)
  BY <1>6 DEF Retrieve, Searches
<1>7. CASE Fails(w)
  BY <1>7 DEF Fails, Refused, Proceeds
<1>8. CASE \/ CommitSession(w) \/ CommitDeletion(w) \/ CommitUpload(w)
           \/ CommitDocumentDeletion(w) \/ CommitMemory(w) \/ CommitMemoryDeletion(w)
           \/ CommitRun(w) \/ Close(w)
  <2>1. End(w) /\ phase[w] \in Writing \union Closing
    BY <1>8 DEF CommitSession, CommitDeletion, CommitUpload, CommitDocumentDeletion,
                CommitMemory, CommitMemoryDeletion, CommitRun, Commit, Close
  <2> QED
    BY <2>1 DEF End, Ends
<1> QED
  BY <1>1, <1>2, <1>3, <1>4, <1>5, <1>6, <1>7, <1>8, Zenon DEF Enter, Serve, Works

LEMMA HeldInit == Init => HeldWhileServed
BY DEF Init, HeldWhileServed

LEMMA HeldNext == StoreInv /\ HeldWhileServed /\ [Next]_vars => HeldWhileServed'
<1> SUFFICES ASSUME StoreInv, HeldWhileServed, [Next]_vars PROVE HeldWhileServed'
  OBVIOUS
<1>0. TypeOK /\ LockInv
  BY DEF StoreInv
<1>1. CASE UNCHANGED vars
  BY <1>1 DEF vars, HeldWhileServed
<1>2. CASE Crash
  BY <1>2 DEF Crash, HeldWhileServed
<1>3. ASSUME NEW w \in Worker, Arrive(w) \/ Enter(w) \/ Serve(w) PROVE HeldWhileServed'
  <2> SUFFICES ASSUME NEW u \in User, holder'[u] # Nobody
               PROVE  /\ phase'[holder'[u]] \in Writing \union Closing
                      /\ call'[holder'[u]] # NoCall /\ call'[holder'[u]].user = u
    BY DEF HeldWhileServed
  <2>1. \A v \in Worker \ {w} : call'[v] = call[v] /\ phase'[v] = phase[v]
    BY <1>0, <1>3, OthersKeep
  <2>2. holder[u] \in Worker \union {Nobody}
    BY <1>0 DEF TypeOK
  <2>3. CASE holder'[u] = holder[u] /\ holder[u] # w
    BY <2>1, <2>2, <2>3 DEF HeldWhileServed
  <2>4. CASE Begins(w) \/ Refused(w)
    <3>1. holder[u] # w /\ holder'[u] = holder[u]
      BY <2>4 DEF Begins, Refused, Keeps, HeldWhileServed, Waiting, Writing, Closing
    <3> QED
      BY <3>1, <2>3
  <2>5. CASE Locks(w)
    <3>1. call[w] # NoCall /\ phase[w] # "idle"
      BY <1>0, <2>5 DEF Locks, LockInv, Waiting
    <3>2. CASE u = call[w].user
      BY <1>0, <2>5, <3>1, <3>2 DEF Locks, TypeOK, Writing
    <3>3. CASE u # call[w].user
      <4>1. holder'[u] = holder[u] /\ holder[u] # w
        BY <2>5, <3>3 DEF Locks, HeldWhileServed
      <4> QED
        BY <4>1, <2>3
    <3> QED
      BY <3>2, <3>3
  <2>6. CASE Proceeds(w) \/ Searches(w)
    <3>1. holder'[u] = holder[u] /\ call'[w] = call[w] /\ phase'[w] \in Writing \union Closing
      BY <2>6 DEF Proceeds, Searches, Keeps, Writing
    <3> QED
      BY <3>1, <2>1, <2>2 DEF HeldWhileServed
  <2>7. CASE Ends(w)
    <3>1. holder'[u] = holder[u] /\ holder[u] # w
      BY <2>7 DEF Ends, End
    <3> QED
      BY <3>1, <2>3
  <2> QED
    BY <1>0, <1>3, <2>4, <2>5, <2>6, <2>7, StepKinds, Zenon
<1> QED
  BY <1>1, <1>2, <1>3 DEF Next

\* No transaction leaves the user's row locked when it ends, and a request that
\* waits for the row in get_current_user waits for one of the same user that is past
\* it and waits for nothing: waits are one step long and never a circle, although
\* every request of a user takes the same lock and a run keeps it for minutes.
THEOREM NoLockIsLeaked == Spec => []HeldWhileServed
BY StoreAlways, HeldInit, HeldNext, PTL DEF Spec

\* what a step is: an arrival, a search that finds something, or one that takes at
\* least one request nearer to its end and none away from it
Advances ==
  \/ \E w \in Worker : phase[w] = "idle" /\ phase'[w] \in Waiting
  \/ /\ \E w \in Worker : evidence[w] \subseteq evidence'[w] /\ evidence[w] # evidence'[w]
     /\ phase' = phase
  \/ /\ \E w \in Worker : StepsLeft(phase'[w]) < StepsLeft(phase[w])
     /\ \A w \in Worker : StepsLeft(phase'[w]) <= StepsLeft(phase[w])

\* Every step of a request but its first brings it nearer to its end, of which it is
\* never more than five steps away, or is a search that adds to its evidence: no
\* request runs in circles, and what keeps one from its end is the wait for the row.
THEOREM RequestsShrink == Spec => [][Advances]_vars
<1>1. StoreInv /\ [Next]_vars => [Advances]_vars
  <2> SUFFICES ASSUME StoreInv, Next, vars' # vars PROVE Advances
    OBVIOUS
  <2>0. TypeOK
    BY DEF StoreInv
  <2>a. \A p \in Phases : StepsLeft(p) \in 0..5 /\ (p # "idle" => StepsLeft(p) > 0)
    BY DEF Phases, StepsLeft, Waiting, Writing, Closing
  <2>b. \A v \in Worker : phase[v] \in Phases
    BY <2>0 DEF TypeOK
  <2>1. CASE Crash
    <3>1. PICK w \in Worker : phase[w] # "idle"
      BY <2>1 DEF Crash
    <3>2. \A v \in Worker : phase'[v] = "idle"
      BY <2>1 DEF Crash
    <3>3. StepsLeft("idle") = 0
      BY DEF StepsLeft, Waiting, Closing
    <3> QED
      BY <3>1, <3>2, <3>3, <2>a, <2>b DEF Advances
  <2>2. ASSUME NEW w \in Worker, Arrive(w) \/ Enter(w) \/ Serve(w) PROVE Advances
    <3>1. \A v \in Worker \ {w} : phase'[v] = phase[v]
      BY <2>0, <2>2, OthersKeep
    <3>2. ASSUME StepsLeft(phase'[w]) < StepsLeft(phase[w]) PROVE Advances
      <4>1. \A v \in Worker : StepsLeft(phase'[v]) <= StepsLeft(phase[v])
        <5> SUFFICES ASSUME NEW v \in Worker
                     PROVE  StepsLeft(phase'[v]) <= StepsLeft(phase[v])
          OBVIOUS
        <5>1. CASE v = w
          BY <5>1, <3>2, <2>a, <2>b DEF StepsLeft
        <5>2. CASE v # w
          <6>1. StepsLeft(phase'[v]) = StepsLeft(phase[v]) /\ StepsLeft(phase[v]) \in 0..5
            BY <5>2, <3>1, <2>a, <2>b
          <6> QED
            BY <6>1
        <5> QED
          BY <5>1, <5>2
      <4> QED
        BY <3>2, <4>1 DEF Advances
    <3>3. CASE Begins(w)
      BY <3>3 DEF Begins, Advances
    <3>4. CASE Locks(w) \/ Refused(w)
      BY <3>4, <3>2 DEF Locks, Refused, StepsLeft, Waiting, Closing
    <3>5. CASE Proceeds(w)
      BY <3>5, <3>2 DEF Proceeds
    <3>6. CASE Ends(w)
      BY <3>6, <3>2 DEF Ends, StepsLeft, Waiting, Writing, Closing
    <3>7. CASE Retrieve(w) /\ Searches(w)
      <4>1. phase' = phase /\ evidence' # evidence
        BY <3>7, <2>2 DEF Retrieve, vars, tableVars
      <4>2. evidence'[w] # evidence[w]
        BY <2>0, <3>7, <4>1 DEF Retrieve, TypeOK
      <4> QED
        BY <3>7, <4>1, <4>2 DEF Searches, Advances
    <3> QED
      BY <2>0, <2>2, <3>3, <3>4, <3>5, <3>6, <3>7, StepKinds
  <2> QED
    BY <2>1, <2>2 DEF Next
<1> QED
  BY <1>1, StoreAlways, PTL DEF Spec
=============================================================================
