---------------------------- MODULE RunnerConfig ----------------------------
(***************************************************************************)
(* RunnerYMLContext: how the poller and the spawn workers get the runner   *)
(* configuration of one repository.  Shared Kubernetes takes the approved  *)
(* one of the scope file, compose reads the project directory, and legacy  *)
(* Kubernetes asks GitHub with the entity tag of the last answer and, on   *)
(* "not modified", takes the snapshot it keeps.  The tag (State) and the   *)
(* snapshot (runnerCache) are behind two locks, and the request runs       *)
(* between them without either.                                            *)
(*                                                                         *)
(* A configuration is the number of its commit, 0 is none; a commit's tag  *)
(* is its number.                                                          *)
(***************************************************************************)
EXTENDS Naturals

CONSTANTS
    Workers,     \* the workers that spawn for the repository
    MaxCommits,  \* bound: commits of runner.yml
    Broken,      \* the commits that parsing or ValidateEgress refuses
    Untagged     \* the commits that GitHub answers without an entity tag

Callers == {"poller"} \cup Workers
Commits == 1..MaxCommits
None == 0
NotModified == MaxCommits + 1
Failure == MaxCommits + 2

VARIABLES
    mode,      \* "kube", "compose" or "shared"
    head,      \* the commit of runner.yml that GitHub, or the directory, has
    lastETag,  \* RepoState.LastETag
    cache,     \* runnerCache
    pc,        \* where each caller is in its call
    sent,      \* the tag its request carries
    answer,    \* what GitHub, or the file, answered
    result     \* the configuration its last call returned, or Failure

vars == <<mode, head, lastETag, cache, pc, sent, answer, result>>

Goto(c, at) == pc' = [pc EXCEPT ![c] = at]
Return(c, r) == Goto(c, "idle") /\ result' = [result EXCEPT ![c] = r]
Accepted(commit) == commit \notin Broken

\* A worker has an intent, which the poller sends after a call of its own has
\* succeeded; what shared mode approves is there from the start.
Calls(c) == pc[c] = "idle" /\ (c \in Workers => cache # None \/ mode = "shared")

-----------------------------------------------------------------------------
\* Shared: what the operator approved, checked when the scope was loaded.
Approved(c) ==
    /\ mode = "shared" /\ Calls(c)
    /\ Return(c, 1)
    /\ UNCHANGED <<mode, head, lastETag, cache, sent, answer>>

\* Compose: the file is read, parsed and validated each time.
ReadFile(c) ==
    /\ mode = "compose" /\ Calls(c)
    /\ \/ ~Accepted(head) /\ Return(c, Failure) /\ UNCHANGED answer
       \/ Accepted(head) /\ answer' = [answer EXCEPT ![c] = head] /\ Goto(c, "store") /\ UNCHANGED result
    /\ UNCHANGED <<mode, head, lastETag, cache, sent>>

\* LastETag under State's lock; the request carries it unless it is empty.
Ask(c) ==
    /\ mode = "kube" /\ Calls(c)
    /\ sent' = [sent EXCEPT ![c] = lastETag]
    /\ Goto(c, "ask")
    /\ UNCHANGED <<mode, head, lastETag, cache, answer, result>>

\* GitHub answers, or does not.
GetRunnerYML(c) ==
    /\ pc[c] = "ask"
    /\ \E a \in {IF sent[c] = head THEN NotModified ELSE head, Failure} :
          answer' = [answer EXCEPT ![c] = a]
    /\ Goto(c, "answer")
    /\ UNCHANGED <<mode, head, lastETag, cache, sent, result>>

\* An error, or a body that does not parse or validate, returns and leaves the
\* tag alone.
Refused(c) ==
    /\ pc[c] = "answer" /\ answer[c] # NotModified
    /\ answer[c] = Failure \/ ~Accepted(answer[c])
    /\ Return(c, Failure)
    /\ UNCHANGED <<mode, head, lastETag, cache, sent, answer>>

\* An accepted body's tag is kept, unless the answer had none.
SetLastETag(c) ==
    /\ pc[c] = "answer" /\ answer[c] \in Commits /\ Accepted(answer[c])
    /\ lastETag' = IF answer[c] \in Untagged THEN lastETag ELSE answer[c]
    /\ Goto(c, "store")
    /\ UNCHANGED <<mode, head, cache, sent, answer, result>>

storeRunnerYML(c) ==
    /\ pc[c] = "store"
    /\ cache' = answer[c]
    /\ Return(c, answer[c])
    /\ UNCHANGED <<mode, head, lastETag, sent, answer>>

\* 304: the snapshot, or errRunnerYMLNotModified where there is none.
cachedRunnerYML(c) ==
    /\ pc[c] = "answer" /\ answer[c] = NotModified
    /\ Return(c, IF cache = None THEN Failure ELSE cache)
    /\ UNCHANGED <<mode, head, lastETag, cache, sent, answer>>

\* Somebody commits a new runner.yml.
Push ==
    /\ head < MaxCommits
    /\ head' = head + 1
    /\ UNCHANGED <<mode, lastETag, cache, pc, sent, answer, result>>

Init ==
    /\ mode \in {"kube", "compose", "shared"}
    /\ head = 1 /\ lastETag = None /\ cache = None
    /\ pc = [c \in Callers |-> "idle"]
    /\ sent = [c \in Callers |-> None] /\ answer = [c \in Callers |-> None]
    /\ result = [c \in Callers |-> None]

RunnerYMLContext(c) ==
    \/ Approved(c) \/ ReadFile(c) \/ Ask(c) \/ GetRunnerYML(c) \/ Refused(c)
    \/ SetLastETag(c) \/ storeRunnerYML(c) \/ cachedRunnerYML(c)
Next == Push \/ \E c \in Callers : RunnerYMLContext(c)
Spec == Init /\ [][Next]_vars

-----------------------------------------------------------------------------
\* GetRunnerYML's comment: a 304 means that callers must reuse their cached
\* snapshot.  So when no call is under way the snapshot is what the kept tag
\* stands for, or newer; otherwise every later 304 returns a configuration that
\* is not the repository's, until somebody commits again.
SnapshotFitsTag ==
    (\A c \in Callers : pc[c] = "idle") => cache >= lastETag

=============================================================================
