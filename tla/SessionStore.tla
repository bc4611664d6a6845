---------------------------- MODULE SessionStore ----------------------------
(***************************************************************************)
(* What the HTTP API promises about stored data: every request that        *)
(* changes anything takes effect in one step, on the data as they are in   *)
(* that step.  A run, which reads for minutes and writes at its end, is    *)
(* such a step too: what its answer cites is in its session when the run   *)
(* is stored.  A session takes everything below it along when it goes.     *)
(***************************************************************************)
CONSTANTS User, SessionId, Content, Fact, RunId, Nobody

VARIABLES
  owner,       \* the user of each session, Nobody if there is no such session
  documents,   \* what is searchable, by session and content
  memories,    \* what is remembered, by user
  runs,        \* stored runs, by session
  turns        \* their answers, with what they cite

vars == <<owner, documents, memories, runs, turns>>

Init ==
  /\ owner = [s \in SessionId |-> Nobody]
  /\ documents = {} /\ memories = {} /\ runs = {} /\ turns = {}

Below(s, rows) == {x \in rows : x.session = s}

CreateSession(u, s) ==
  /\ owner[s] = Nobody
  /\ owner' = [owner EXCEPT ![s] = u]
  /\ UNCHANGED <<documents, memories, runs, turns>>

DeleteSession(s) ==
  /\ owner' = [owner EXCEPT ![s] = Nobody]
  /\ documents' = documents \ Below(s, documents)
  /\ runs' = runs \ Below(s, runs)
  /\ turns' = turns \ Below(s, turns)
  /\ UNCHANGED memories

AddDocument(s, c) ==
  /\ owner[s] # Nobody
  /\ documents' = documents \union {[session |-> s, content |-> c]}
  /\ UNCHANGED <<owner, memories, runs, turns>>

DeleteDocument(s, c) ==
  /\ documents' = documents \ {[session |-> s, content |-> c]}
  /\ UNCHANGED <<owner, memories, runs, turns>>

Remember(u, f) ==
  /\ memories' = memories \union {[user |-> u, fact |-> f]}
  /\ UNCHANGED <<owner, documents, runs, turns>>

Forget(u, f) ==
  /\ memories' = memories \ {[user |-> u, fact |-> f]}
  /\ UNCHANGED <<owner, documents, runs, turns>>

\* a run with an answer leaves a turn, one without an answer does not
StoreRun(s, r) ==
  /\ owner[s] # Nobody
  /\ r \notin {x.run : x \in runs}
  /\ runs' = runs \union {[run |-> r, session |-> s]}
  /\ \/ turns' = turns
     \/ \E cites \in SUBSET {d.content : d \in Below(s, documents)} :
          turns' = turns \union {[run |-> r, session |-> s, cites |-> cites]}
  /\ UNCHANGED <<owner, documents, memories>>

Next ==
  \/ \E s \in SessionId :
       \/ \E u \in User : CreateSession(u, s)
       \/ DeleteSession(s)
       \/ \E c \in Content : AddDocument(s, c) \/ DeleteDocument(s, c)
       \/ \E r \in RunId : StoreRun(s, r)
  \/ \E u \in User, f \in Fact : Remember(u, f) \/ Forget(u, f)

Spec == Init /\ [][Next]_vars
=============================================================================
