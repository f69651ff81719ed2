------------------------------ MODULE SharedNames ------------------------------
(***************************************************************************)
(* Entities and claims are shared: the first worker that meets a           *)
(* normalized name stores its row, all others refer to it (domain/entities *)
(* and domain/claims, worker).  The transaction that finishes a job locks  *)
(* the job, replaces the mentions of its chunk and inserts the names it    *)
(* misses with ON CONFLICT DO NOTHING, one after another in the order of   *)
(* the text.  An insert waits while another transaction has the same name  *)
(* uncommitted, and a mention waits while its chunk is being deleted, so   *)
(* finishing workers and a replacement of chunks may wait for each other   *)
(* in a circle; the database then fails one of them.                       *)
(*                                                                         *)
(* An error in that transaction is not the job's: it ends the loop of the  *)
(* worker, and the job stays running until its lease has run out.          *)
(***************************************************************************)
EXTENDS Integers, FiniteSets, Sequences, SequencesExt

CONSTANTS Extractors,   \* worker processes of one queue
          Passages,     \* chunks, each with a job
          Names,        \* normalized names with their type
          Long,         \* those that do not fit the column
          Readings,     \* the sequences of names that a chunk may contain
          MaxFaults     \* bound on ended processes, missed heartbeats and replacements

ASSUME NamesAssumption ==
    /\ Long \subseteq Names
    /\ Readings \subseteq Seq(Names)
    /\ MaxFaults \in Nat

VARIABLES text,       \* Passages -> the names that the model finds there
          here,       \* the chunks that have not been replaced
          row,        \* Passages -> the row of the job
          line,       \* the pending jobs in the order of available_at
          stored,     \* entities or claims, by normalized name
          mentions,   \* Passages -> names with a mention or evidence in it
          hand,       \* Extractors -> what each is doing
          deleting,   \* the chunks that an open transaction has deleted
          faults

nameVars == <<text, here, row, line, stored, mentions, hand, deleting, faults>>

Nobody == "nobody"
Waiting == [status |-> "pending", holder |-> Nobody, expired |-> FALSE]
FreeHand == [at |-> "free", chunk |-> Nobody, next |-> 1, inserted |-> {}]
Stopped == [FreeHand EXCEPT !.at = "stopped"]

NamesInit ==
    /\ text \in [Passages -> Readings]
    /\ here = Passages
    /\ row = [c \in Passages |-> Waiting]
    /\ line = SetToSeq(Passages)
    /\ stored = {}
    /\ mentions = [c \in Passages |-> {}]
    /\ hand = [w \in Extractors |-> FreeHand]
    /\ deleting = {}
    /\ faults = 0

Failing == faults < MaxFaults /\ faults' = faults + 1

\* The job that w claimed is still running under its claim.
Owns(w) ==
    /\ hand[w].chunk \in here
    /\ row[hand[w].chunk].status = "running" /\ row[hand[w].chunk].holder = w

InTransaction(w) == hand[w].at \in {"inserting", "linked"}
JobLocked(c) == \E w \in Extractors : InTransaction(w) /\ hand[w].chunk = c

\* The cascade of a deletion takes the lock on the job, or waits for it.
Lockable(c) == ~JobLocked(c) /\ c \notin deleting

\* The names that a model finds in a chunk.
NamesIn(c) == {text[c][i] : i \in DOMAIN text[c]}
NextName(w) == text[hand[w].chunk][hand[w].next]
AllInserted(w) == hand[w].next > Len(text[hand[w].chunk])

\* Mutant: without the unique index nobody waits for a name.
InsertingNever(w) == {}

\* The transactions with an uncommitted row of the name that w inserts next.
Inserting(w) ==
    {v \in Extractors \ {w} : /\ hand[w].at = "inserting" /\ ~AllInserted(w)
                              /\ NextName(w) \in hand[v].inserted}

--------------------------------------------------------------------------------

\* One pass of the loop puts the jobs whose lease ran out behind all others...
RecoverRows(w) ==
    LET stale == {c \in here : row[c].status = "running" /\ row[c].expired /\ Lockable(c)} IN
    /\ hand[w].at = "free"
    /\ row' = [c \in Passages |-> IF c \in stale THEN Waiting ELSE row[c]]
    /\ line' = line \o SetToSeq(stale)
    /\ hand' = [hand EXCEPT ![w].at = "looking"]
    /\ UNCHANGED <<text, here, stored, mentions, deleting, faults>>

\* ... and claims the first that no other transaction has locked.
ClaimRow(w) ==
    LET ready == SelectSeq(line, Lockable)
        c == ready[1]
    IN
    /\ hand[w].at = "looking" /\ ready # <<>>
    /\ row' = [row EXCEPT ![c] = [status |-> "running", holder |-> w, expired |-> FALSE]]
    /\ line' = Remove(line, c)
    /\ hand' = [hand EXCEPT ![w] = [FreeHand EXCEPT !.at = "reading", !.chunk = c]]
    /\ UNCHANGED <<text, here, stored, mentions, deleting, faults>>

FindNone(w) ==
    /\ hand[w].at = "looking" /\ SelectSeq(line, Lockable) = <<>>
    /\ hand' = [hand EXCEPT ![w] = FreeHand]
    /\ UNCHANGED <<text, here, row, line, stored, mentions, deleting, faults>>

\* _finish locks the job; a job that is held no more is left alone.
GiveUp(w) ==
    /\ hand[w].at = "reading" /\ ~Owns(w)
    /\ hand' = [hand EXCEPT ![w] = FreeHand]
    /\ UNCHANGED <<text, here, row, line, stored, mentions, deleting, faults>>

\* The error of a model, also of an answer that does not fit the text.
MarkFailed(w) ==
    /\ hand[w].at = "reading" /\ Owns(w) /\ Lockable(hand[w].chunk)
    /\ row' = [row EXCEPT ![hand[w].chunk] = [Waiting EXCEPT !.status = "failed"]]
    /\ hand' = [hand EXCEPT ![w] = FreeHand]
    /\ UNCHANGED <<text, here, line, stored, mentions, deleting, faults>>

\* The job is locked, and the mentions of an earlier run are deleted.
BeginFinish(w) ==
    /\ hand[w].at = "reading" /\ Owns(w) /\ Lockable(hand[w].chunk)
    /\ hand' = [hand EXCEPT ![w].at = "inserting"]
    /\ UNCHANGED <<text, here, row, line, stored, mentions, deleting, faults>>

\* What w is doing once it has inserted its next name.
Inserted(w) ==
    [hand[w] EXCEPT !.next = @ + 1, !.inserted = @ \cup ({NextName(w)} \ stored)]

\* One row of the INSERT of _entity_ids or _claim_ids.
Insert(w) ==
    /\ hand[w].at = "inserting" /\ ~AllInserted(w)
    /\ Inserting(w) = {}
    /\ NextName(w) \notin Long
    /\ hand' = [hand EXCEPT ![w] = Inserted(w)]
    /\ UNCHANGED <<text, here, row, line, stored, mentions, deleting, faults>>

\* The mentions refer to the chunk and to the rows that the SELECT has found.
Link(w) ==
    /\ hand[w].at = "inserting" /\ AllInserted(w)
    /\ hand[w].chunk \notin deleting
    /\ hand' = [hand EXCEPT ![w].at = "linked"]
    /\ UNCHANGED <<text, here, row, line, stored, mentions, deleting, faults>>

CommitFinish(w) ==
    LET c == hand[w].chunk IN
    /\ hand[w].at = "linked"
    /\ stored' = stored \cup hand[w].inserted
    /\ mentions' = [mentions EXCEPT ![c] = NamesIn(c)]
    /\ row' = [row EXCEPT ![c] = [Waiting EXCEPT !.status = "completed"]]
    /\ hand' = [hand EXCEPT ![w] = FreeHand]
    /\ UNCHANGED <<text, here, line, deleting, faults>>

\* The database refuses a name longer than its column: normalizing a text of
\* the greatest length may lengthen it.  The transaction is rolled back, and
\* the exception ends the loop.
Reject(w) ==
    /\ hand[w].at = "inserting" /\ ~AllInserted(w)
    /\ NextName(w) \in Long
    /\ hand' = [hand EXCEPT ![w] = Stopped]
    /\ UNCHANGED <<text, here, row, line, stored, mentions, deleting, faults>>

--------------------------------------------------------------------------------

\* Replacing the chunks of a document deletes them; the cascade then waits for
\* the locks on their jobs, and a chunk that a mention was linked to is locked.
DeleteChunk(c) ==
    /\ c \in here \ deleting
    /\ \A w \in Extractors : hand[w].at = "linked" => hand[w].chunk # c
    /\ Failing
    /\ deleting' = deleting \cup {c}
    /\ UNCHANGED <<text, here, row, line, stored, mentions, hand>>

CommitDeletion(c) ==
    /\ c \in deleting /\ ~JobLocked(c)
    /\ here' = here \ {c}
    /\ mentions' = [mentions EXCEPT ![c] = {}]
    /\ deleting' = deleting \ {c}
    /\ line' = Remove(line, c)
    /\ UNCHANGED <<text, row, stored, hand, faults>>

\* The transactions that another one waits for.  A deletion is known by its chunk.
WaitsFor(t) ==
    IF t \in Passages
    THEN {w \in Extractors : t \in deleting /\ InTransaction(w) /\ hand[w].chunk = t}
    ELSE Inserting(t) \cup {c \in deleting : /\ hand[t].at = "inserting" /\ AllInserted(t)
                                             /\ hand[t].chunk = c}

\* Mutant: circles are not looked for.
InCircleNever(t) == FALSE

\* Each of a set of transactions waits for one of the set.
InCircle(t) ==
    /\ WaitsFor(t) # {}
    /\ \E circle \in SUBSET (Extractors \cup deleting) :
         t \in circle /\ UNION {WaitsFor(s) : s \in circle} = circle

\* The database fails one transaction of a circle.  A worker's loop ends with
\* it, and who waited for it first goes on; a replacement is rolled back.
BreakCircle(t) ==
    /\ InCircle(t)
    /\ LET waiters == {w \in Extractors : hand[w].at = "inserting" /\ Inserting(w) = {t}} IN
       \E first \in (IF waiters = {} THEN {t} ELSE waiters) :
         hand' = [w \in Extractors |-> IF w = t THEN Stopped
                                       ELSE IF w = first THEN Inserted(w) ELSE hand[w]]
    /\ deleting' = deleting \ {t}
    /\ UNCHANGED <<text, here, row, line, stored, mentions, faults>>

--------------------------------------------------------------------------------

EndProcess(w) ==
    /\ hand[w].at \in {"reading", "inserting", "linked"}
    /\ Failing
    /\ hand' = [hand EXCEPT ![w] = Stopped]
    /\ UNCHANGED <<text, here, row, line, stored, mentions, deleting>>

StartProcess(w) ==
    /\ hand[w].at = "stopped"
    /\ hand' = [hand EXCEPT ![w] = FreeHand]
    /\ UNCHANGED <<text, here, row, line, stored, mentions, deleting, faults>>

Attended(c) == \E w \in Extractors : hand[w].chunk = c /\ Owns(w)

\* A lease runs out when its worker is gone, or has missed its heartbeats.
PassLease(c) ==
    /\ c \in here /\ row[c].status = "running" /\ ~row[c].expired
    /\ row' = [row EXCEPT ![c].expired = TRUE]
    /\ IF Attended(c) THEN Failing ELSE UNCHANGED faults
    /\ UNCHANGED <<text, here, line, stored, mentions, hand, deleting>>

ExtractorStep(w) ==
    \/ RecoverRows(w) \/ ClaimRow(w) \/ FindNone(w)
    \/ GiveUp(w) \/ MarkFailed(w) \/ BeginFinish(w)
    \/ Insert(w) \/ Link(w) \/ CommitFinish(w)
    \/ Reject(w)
    \/ EndProcess(w) \/ StartProcess(w)

NamesStep ==
    \/ \E w \in Extractors : ExtractorStep(w) \/ BreakCircle(w)
    \/ \E c \in Passages : DeleteChunk(c) \/ CommitDeletion(c) \/ PassLease(c) \/ BreakCircle(c)

NamesSpec == NamesInit /\ [][NamesStep]_nameVars

\* The loops go on, processes are started again, open transactions are
\* continued, circles are found, and the leases of those gone run out.
NamesFairness ==
    /\ \A w \in Extractors :
         /\ WF_nameVars(RecoverRows(w) \/ ClaimRow(w) \/ FindNone(w))
         /\ WF_nameVars(GiveUp(w) \/ MarkFailed(w) \/ BeginFinish(w))
         /\ WF_nameVars(Insert(w) \/ Link(w) \/ CommitFinish(w) \/ Reject(w))
         /\ WF_nameVars(StartProcess(w))
    /\ \A c \in Passages :
         /\ WF_nameVars(CommitDeletion(c))
         /\ WF_nameVars(PassLease(c) /\ ~Attended(c))
    /\ WF_nameVars(\E t \in Extractors \cup Passages : BreakCircle(t))

FairNames == NamesSpec /\ NamesFairness

--------------------------------------------------------------------------------

(* Every name that a mention needs is there when the mentions are linked,  *)
(* stored or in the same transaction, although another transaction may     *)
(* have inserted it first and been rolled back since; no name is inserted  *)
(* twice, and what was committed stays whole.                              *)
NamesAreThere ==
    /\ \A w \in Extractors :
         /\ hand[w].at = "linked" => NamesIn(hand[w].chunk) \subseteq stored \cup hand[w].inserted
         /\ \A v \in Extractors \ {w} : hand[v].inserted \cap hand[w].inserted = {}
    /\ \A c \in Passages :
         /\ mentions[c] \subseteq stored
         /\ c \in here /\ row[c].status = "completed" => mentions[c] = NamesIn(c)
         /\ c \notin here => mentions[c] = {}

(* Every job whose names fit ends or goes with its chunk, whatever circles *)
(* of waiting transactions it takes part in, and although a job with a     *)
(* name that does not fit ends the loop of every worker that takes it.     *)
NamedJobsEnd ==
    \A c \in Passages :
        NamesIn(c) \cap Long = {} /\ c \in here /\ row[c].status \in {"pending", "running"}
        ~> c \notin here \/ row[c].status \in {"completed", "failed"}

(* workers/runner.py: workers turn failed jobs into failed job rows        *)
(* themselves, so a failed job does not end the loop.  A name that does    *)
(* not fit does: the loop ends although its process was left alone and no  *)
(* other transaction is open.                                              *)
FailedJobsEndNoLoop ==
    [][\A w \in Extractors :
          hand[w].at \notin {"free", "stopped"} /\ hand'[w].at = "stopped"
          => faults' # faults]_nameVars

================================================================================
