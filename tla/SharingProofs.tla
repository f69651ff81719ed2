----------------------------- MODULE SharingProofs -----------------------------
(***************************************************************************)
(* What is shared without one owner stays in step, for every number of     *)
(* actors and items: the files of documents and the rows that point to     *)
(* them, the names that extraction workers store and mention, and the      *)
(* clusters that linkers join events to.                                   *)
(***************************************************************************)
EXTENDS BlobLifecycle, SharedNames, EventLinking, FiniteSetTheorems, WellFoundedInduction, TLAPS

(* A key that somebody may delete: a request that removes it or records    *)
(* it, a task, or a cleaner that has taken its task.                       *)
Threatened(k) ==
  \/ \E r \in Requests : request[r].pc \in {"remove", "track"} /\ request[r].key = k
  \/ task[k] # "none"
  \/ \E c \in Cleaners : k \in cleaner[c].todo

(* Documents whose file is missing or may be deleted; each has been left   *)
(* by a commit that went unanswered.                                       *)
AtRisk ==
  {d \in Docs : asset[d] # NoKey /\ (file[asset[d]] # "stored" \/ Threatened(asset[d]))}

(* Files that nobody will delete any more: a request that has only read    *)
(* the key of a document does not care for the file.                       *)
Cared(k) == \E r \in Requests : request[r].pc # "delete" /\ request[r].key = k
Lost ==
  {k \in Keys : file[k] = "stored" /\ ~InUse(k) /\ ~Cared(k) /\ task[k] = "none"}

FilesHaveOneRow ==
  /\ \A d, e \in Docs : asset[d] = asset[e] /\ asset[d] # NoKey => d = e
  /\ \A d \in Docs : document[d] # "stored" => asset[d] = NoKey

(* A key without bytes is known to the request that will store them only.  *)
KeySound(k) ==
  file[k] = "none" =>
    /\ ~InUse(k) /\ task[k] = "none"
    /\ \A c \in Cleaners : k \notin cleaner[c].todo
    /\ \A r \in Requests : request[r].key = k => request[r].pc = "put"

(* Until its row is committed nobody else knows the key of a request.      *)
RequestSound(r) ==
  /\ request[r].pc = "idle" => request[r] = NoRequest
  /\ request[r].pc \in {"put", "stored", "remove", "track"} => request[r].key # NoKey
  /\ request[r].pc = "delete" => request[r].doc \in Docs
  /\ request[r].pc = "put" => file[request[r].key] = "none"
  /\ request[r].pc = "stored" => file[request[r].key] = "stored"
  /\ request[r].pc \in {"put", "stored"} =>
       /\ ~InUse(request[r].key) /\ task[request[r].key] = "none"
       /\ \A c \in Cleaners : request[r].key \notin cleaner[c].todo
       /\ \A q \in Requests \ {r} : request[q].key # request[r].key

CleanersSound ==
  \A c \in Cleaners : cleaner[c].gone # NoKey => file[cleaner[c].gone] = "deleted"

BlobSound ==
  /\ BlobTypeOK /\ FilesHaveOneRow /\ CleanersSound
  /\ \A k \in Keys : KeySound(k)
  /\ \A r \in Requests : RequestSound(r)

AtMost(S, n) == IsFiniteSet(S) /\ Cardinality(S) <= n

BlobInv == BlobSound /\ AtMost(AtRisk, unanswered) /\ AtMost(Lost, mishaps)

(* A step puts at most one document at risk, when a commit goes unanswered,*)
(* and loses at most one file, when something fails.                       *)
Charged ==
  \/ /\ AtRisk' \subseteq AtRisk /\ Lost' \subseteq Lost
     /\ unanswered' = unanswered /\ mishaps' \in {mishaps, mishaps + 1}
  \/ /\ AtRisk' \subseteq AtRisk /\ \E k : Lost' \subseteq Lost \cup {k}
     /\ unanswered' = unanswered /\ mishaps' = mishaps + 1
  \/ /\ \E d : AtRisk' \subseteq AtRisk \cup {d}
     /\ \E k : Lost' \subseteq Lost \cup {k}
     /\ unanswered' = unanswered + 1 /\ mishaps' = mishaps + 1

LEMMA FewerAreAtMost ==
  ASSUME NEW S, NEW T, NEW n \in Nat, NEW m \in Nat, AtMost(S, n), T \subseteq S, n <= m
  PROVE  AtMost(T, m)
<1>1. IsFiniteSet(T) /\ Cardinality(T) <= Cardinality(S)
  BY FS_Subset DEF AtMost
<1>2. Cardinality(T) \in Nat /\ Cardinality(S) \in Nat
  BY <1>1, FS_CardinalityType DEF AtMost
<1> QED BY <1>1, <1>2 DEF AtMost

LEMMA OneMoreIsAtMost ==
  ASSUME NEW S, NEW T, NEW x, NEW n \in Nat, AtMost(S, n), T \subseteq S \cup {x}
  PROVE  AtMost(T, n + 1)
<1>1. IsFiniteSet(S \cup {x}) /\ Cardinality(S \cup {x}) <= Cardinality(S) + 1
  <2>1. IsFiniteSet(S) /\ Cardinality(S) \in Nat
    BY FS_CardinalityType DEF AtMost
  <2>2. IsFiniteSet(S \cup {x})
        /\ Cardinality(S \cup {x}) = IF x \in S THEN Cardinality(S) ELSE Cardinality(S) + 1
    BY <2>1, FS_AddElement
  <2> QED BY <2>1, <2>2
<1>2. AtMost(S \cup {x}, n + 1)
  <2>1. Cardinality(S) \in Nat /\ Cardinality(S \cup {x}) \in Nat
    BY <1>1, FS_CardinalityType DEF AtMost
  <2> QED BY <1>1, <2>1 DEF AtMost
<1> QED BY <1>2, FewerAreAtMost

LEMMA ChargedKeepsCounts ==
  ASSUME BlobInv, BlobTypeOK', Charged
  PROVE  AtMost(AtRisk', unanswered') /\ AtMost(Lost', mishaps')
<1>1. unanswered \in Nat /\ mishaps \in Nat /\ unanswered' \in Nat /\ mishaps' \in Nat
  BY BlobAssumption DEF BlobInv, BlobSound, BlobTypeOK
<1>2. AtMost(AtRisk, unanswered) /\ AtMost(Lost, mishaps)
  BY DEF BlobInv
<1>3. AtMost(AtRisk', unanswered')
  <2>1. CASE AtRisk' \subseteq AtRisk /\ unanswered' = unanswered
    BY <1>1, <1>2, <2>1, FewerAreAtMost
  <2>2. CASE (\E d : AtRisk' \subseteq AtRisk \cup {d}) /\ unanswered' = unanswered + 1
    BY <1>1, <1>2, <2>2, OneMoreIsAtMost
  <2> QED BY <2>1, <2>2 DEF Charged
<1>4. AtMost(Lost', mishaps')
  <2>1. CASE Lost' \subseteq Lost /\ mishaps' \in {mishaps, mishaps + 1}
    BY <1>1, <1>2, <2>1, FewerAreAtMost
  <2>2. CASE (\E k : Lost' \subseteq Lost \cup {k}) /\ mishaps' = mishaps + 1
    BY <1>1, <1>2, <2>2, OneMoreIsAtMost
  <2> QED BY <2>1, <2>2 DEF Charged
<1> QED BY <1>3, <1>4

LEMMA BlobInvSuffices == BlobInv => FilesAgree
<1> SUFFICES ASSUME BlobInv PROVE MissingFilesHaveACause /\ LeaksHaveACause
  BY DEF FilesAgree, BlobInv, BlobSound
<1>1. unanswered \in Nat /\ mishaps \in Nat
  BY BlobAssumption DEF BlobInv, BlobSound, BlobTypeOK
<1> DEFINE missing == {d \in Docs : asset[d] # NoKey /\ file[asset[d]] # "stored"}
           leaked == {k \in Keys : /\ file[k] = "stored" /\ ~InUse(k)
                                   /\ ~InHand(k) /\ task[k] = "none"}
<1>2. missing \subseteq AtRisk
  BY DEF AtRisk
<1>3. leaked \subseteq Lost
  BY DEF Lost, InHand, Cared
<1>4. AtMost(missing, unanswered) /\ AtMost(leaked, mishaps)
  <2> HIDE DEF missing, leaked
  <2> QED BY <1>1, <1>2, <1>3, FewerAreAtMost DEF BlobInv
<1>5. MissingFilesHaveACause
  BY <1>4 DEF AtMost, MissingFilesHaveACause
<1>6. LeaksHaveACause
  BY <1>4 DEF AtMost, LeaksHaveACause
<1> QED BY <1>5, <1>6

LEMMA InitBlobs == BlobInit => BlobInv
<1> SUFFICES ASSUME BlobInit PROVE BlobInv
  OBVIOUS
<1>1. BlobTypeOK
  <2>1. mishaps \in 0..MaxMishaps /\ unanswered \in 0..mishaps
    BY BlobAssumption DEF BlobInit
  <2>2. /\ NoRequest \in [pc: {"idle", "put", "stored", "delete", "remove", "track"},
                          doc: Docs \cup {NoDoc}, key: Keys \cup {NoKey}]
        /\ NoCleanup \in [todo: SUBSET Keys, gone: Keys \cup {NoKey}]
    BY DEF NoRequest, NoCleanup
  <2> QED BY <2>1, <2>2 DEF BlobInit, BlobTypeOK
<1>2. FilesHaveOneRow /\ CleanersSound
  BY DEF BlobInit, FilesHaveOneRow, CleanersSound, NoCleanup
<1>3. \A r \in Requests : RequestSound(r)
  BY DEF BlobInit, RequestSound, NoRequest
<1>4. \A k \in Keys : KeySound(k)
  BY BlobAssumption DEF BlobInit, KeySound, InUse, NoRequest, NoCleanup
<1>5. AtRisk = {} /\ Lost = {}
  BY DEF BlobInit, AtRisk, Lost
<1>6. AtMost({}, 0)
  BY FS_EmptySet DEF AtMost
<1> QED BY <1>1, <1>2, <1>3, <1>4, <1>5, <1>6 DEF BlobInv, BlobSound, BlobInit

LEMMA CreateKeeps ==
  ASSUME BlobSound, NEW d \in Docs, Create(d)
  PROVE  BlobSound' /\ Charged
<1> USE BlobAssumption DEF BlobSound, Create
<1>1. BlobTypeOK'
  BY DEF BlobTypeOK
<1>2. FilesHaveOneRow'
  BY DEF BlobTypeOK, FilesHaveOneRow, RequestSound, InUse
<1>3. CleanersSound'
  BY DEF BlobTypeOK, CleanersSound
<1>4. \A l \in Keys : KeySound(l)'
  BY DEF BlobTypeOK, KeySound, RequestSound, InUse
<1>5. \A q \in Requests : RequestSound(q)'
  BY DEF BlobTypeOK, RequestSound, KeySound, InUse, NoRequest
<1>6. AtRisk' \subseteq AtRisk
  BY DEF BlobTypeOK, AtRisk, Threatened, RequestSound, InUse
<1>7. Lost' \subseteq Lost
  BY DEF BlobTypeOK, Lost, Cared, RequestSound, InUse
<1>8. Charged
  BY <1>6, <1>7 DEF Charged
<1> QED BY <1>1, <1>2, <1>3, <1>4, <1>5, <1>8

LEMMA BeginKeeps ==
  ASSUME BlobSound, NEW r \in Requests, NEW k \in Keys, Begin(r, k)
  PROVE  BlobSound' /\ Charged
<1> USE BlobAssumption DEF BlobSound, Begin, Unused, InHand, Pending, NoRequest
<1>1. BlobTypeOK'
  BY DEF BlobTypeOK
<1>2. FilesHaveOneRow'
  BY DEF BlobTypeOK, FilesHaveOneRow, RequestSound, InUse
<1>3. CleanersSound'
  BY DEF BlobTypeOK, CleanersSound
<1>4. \A l \in Keys : KeySound(l)'
  BY DEF BlobTypeOK, KeySound, RequestSound, InUse
<1>5. \A q \in Requests : RequestSound(q)'
  <2>1. \A q \in Requests \ {r} : request'[q] = request[q] /\ request[q].key # k
    BY DEF BlobTypeOK
  <2>2. request'[r].pc = "put" /\ request'[r].key = k
    BY DEF BlobTypeOK
  <2>3. RequestSound(r)'
    BY <2>1, <2>2 DEF BlobTypeOK, RequestSound, KeySound, InUse
  <2>4. ASSUME NEW q \in Requests \ {r} PROVE RequestSound(q)'
    BY <2>1, <2>2 DEF BlobTypeOK, RequestSound, InUse
  <2> QED BY <2>3, <2>4
<1>6. AtRisk' \subseteq AtRisk
  BY DEF BlobTypeOK, AtRisk, Threatened, RequestSound, InUse
<1>7. Lost' \subseteq Lost
  BY DEF BlobTypeOK, Lost, Cared, RequestSound, InUse
<1>8. Charged
  BY <1>6, <1>7 DEF Charged
<1> QED BY <1>1, <1>2, <1>3, <1>4, <1>5, <1>8

LEMMA PutKeeps ==
  ASSUME BlobSound, NEW r \in Requests, Put(r)
  PROVE  BlobSound' /\ Charged
<1> USE BlobAssumption DEF BlobSound, Put, Becomes, Done, NoRequest
<1>1. BlobTypeOK'
  BY SMTT(30) DEF BlobTypeOK
<1>2. FilesHaveOneRow'
  BY DEF BlobTypeOK, FilesHaveOneRow, RequestSound, InUse
<1>3. CleanersSound'
  BY DEF BlobTypeOK, CleanersSound, RequestSound
<1>4. \A l \in Keys : KeySound(l)'
  BY DEF BlobTypeOK, KeySound, RequestSound, InUse
<1>5. \A q \in Requests : RequestSound(q)'
  <2>1. \A q \in Requests \ {r} : request'[q] = request[q] /\ request[q].key # request[r].key
    BY DEF BlobTypeOK, RequestSound
  <2>2. ASSUME NEW q \in Requests \ {r} PROVE RequestSound(q)'
    <3>1. request[q].key \in Keys => file'[request[q].key] = file[request[q].key]
      BY <2>1 DEF BlobTypeOK
    <3>2. \/ request'[r].key = request[r].key
          \/ request'[r].key = NoKey
      BY DEF BlobTypeOK, NoRequest
    <3> QED BY <2>1, <3>1, <3>2 DEF BlobTypeOK, RequestSound, InUse
  <2>3. request'[r].pc \in {"stored", "idle"}
    BY DEF BlobTypeOK, NoRequest
  <2>4. CASE request'[r].pc = "idle"
    BY <2>4, <2>2 DEF BlobTypeOK, RequestSound, NoRequest
  <2>5. CASE request'[r].pc = "stored"
    <3>1. /\ request'[r].key = request[r].key /\ request[r].key \in Keys
          /\ file' = [file EXCEPT ![request[r].key] = "stored"]
      BY <2>5 DEF BlobTypeOK, RequestSound, NoRequest
    <3>2. RequestSound(r)'
      BY <2>1, <2>5, <3>1 DEF BlobTypeOK, RequestSound, InUse
    <3> QED BY <2>2, <3>2
  <2> QED BY <2>3, <2>4, <2>5
<1>6. AtRisk' \subseteq AtRisk
  BY SMTT(30) DEF BlobTypeOK, AtRisk, Threatened, RequestSound, InUse
<1>7. Lost' \subseteq Lost
  BY DEF BlobTypeOK, Lost, Cared, RequestSound, InUse
<1>8. Charged
  BY <1>6, <1>7 DEF Charged
<1> QED BY <1>1, <1>2, <1>3, <1>4, <1>5, <1>8

LEMMA CommitFileKeeps ==
  ASSUME BlobSound, NEW r \in Requests, CommitFile(r)
  PROVE  BlobSound' /\ Charged
<1> USE BlobAssumption DEF BlobSound, CommitFile, RowsSaved, Done, NoRequest
<1>1. BlobTypeOK'
  BY DEF BlobTypeOK
<1>2. FilesHaveOneRow'
  BY DEF BlobTypeOK, FilesHaveOneRow, RequestSound, InUse
<1>3. CleanersSound'
  BY DEF BlobTypeOK, CleanersSound
<1>4. \A l \in Keys : KeySound(l)'
  BY DEF BlobTypeOK, KeySound, RequestSound, InUse
<1>5. \A q \in Requests : RequestSound(q)'
  BY DEF BlobTypeOK, RequestSound, KeySound, InUse, NoRequest
<1>6. AtRisk' \subseteq AtRisk
  BY DEF BlobTypeOK, AtRisk, Threatened, RequestSound, InUse
<1>7. Lost' \subseteq Lost
  <2> SUFFICES ASSUME NEW k \in Lost' PROVE k \in Lost
    OBVIOUS
  <2>1. request[r].key # k
    BY DEF BlobTypeOK, Lost, InUse
  <2>2. ~Cared(k)
    BY <2>1 DEF BlobTypeOK, Lost, Cared
  <2>3. ~InUse(k)
    <3>1. PICK d \in Docs : asset' = [asset EXCEPT ![d] = request[r].key] /\ asset[d] = NoKey
      BY DEF FilesHaveOneRow
    <3>2. k \in Keys /\ \A e \in Docs : asset'[e] # k
      BY DEF Lost, InUse
    <3> QED BY <3>1, <3>2 DEF BlobTypeOK, InUse
  <2> QED BY <2>2, <2>3 DEF Lost
<1>8. Charged
  BY <1>6, <1>7 DEF Charged
<1> QED BY <1>1, <1>2, <1>3, <1>4, <1>5, <1>8

LEMMA CommitFileFailsKeeps ==
  ASSUME BlobSound, NEW r \in Requests, CommitFileFails(r)
  PROVE  BlobSound' /\ Charged
<1> USE BlobAssumption DEF BlobSound, CommitFileFails, Becomes, NoMishap, Mishap
<1>1. BlobTypeOK'
  BY DEF BlobTypeOK
<1>2. FilesHaveOneRow'
  BY DEF BlobTypeOK, FilesHaveOneRow, RequestSound, InUse
<1>3. CleanersSound'
  BY DEF BlobTypeOK, CleanersSound
<1>4. \A l \in Keys : KeySound(l)'
  BY DEF BlobTypeOK, KeySound, RequestSound, InUse
<1>5. \A q \in Requests : RequestSound(q)'
  BY DEF BlobTypeOK, RequestSound, KeySound, InUse, NoRequest
<1>6. AtRisk' \subseteq AtRisk
  BY DEF BlobTypeOK, AtRisk, Threatened, RequestSound, InUse
<1>7. Lost' \subseteq Lost
  BY DEF BlobTypeOK, Lost, Cared, RequestSound, InUse
<1>8. Charged
  BY <1>6, <1>7 DEF Charged
<1> QED BY <1>1, <1>2, <1>3, <1>4, <1>5, <1>8

LEMMA CommitFileUnansweredKeeps ==
  ASSUME BlobSound, NEW r \in Requests, CommitFileUnanswered(r)
  PROVE  BlobSound' /\ Charged
<1> USE BlobAssumption DEF BlobSound, CommitFileUnanswered, RowsSaved, Becomes, Mishap
<1>1. BlobTypeOK'
  BY DEF BlobTypeOK
<1>2. FilesHaveOneRow'
  BY DEF BlobTypeOK, FilesHaveOneRow, RequestSound, InUse
<1>3. CleanersSound'
  BY DEF BlobTypeOK, CleanersSound
<1>4. \A l \in Keys : KeySound(l)'
  BY DEF BlobTypeOK, KeySound, RequestSound, InUse
<1>5. \A q \in Requests : RequestSound(q)'
  BY DEF BlobTypeOK, RequestSound, KeySound, InUse, NoRequest
<1>6. \E d : AtRisk' \subseteq AtRisk \cup {d}
  <2>1. PICK d \in Docs : asset' = [asset EXCEPT ![d] = request[r].key]
    OBVIOUS
  <2>2. \A k \in Keys : k # request[r].key => (Threatened(k)' => Threatened(k))
    BY DEF BlobTypeOK, Threatened
  <2>3. ~InUse(request[r].key)
    BY DEF RequestSound
  <2>4. AtRisk' \subseteq AtRisk \cup {d}
    BY <2>1, <2>2, <2>3 DEF BlobTypeOK, AtRisk, InUse
  <2> QED BY <2>4
<1>7. Lost' \subseteq Lost
  <2> SUFFICES ASSUME NEW k \in Lost' PROVE k \in Lost
    OBVIOUS
  <2>1. ~Cared(k)
    BY DEF BlobTypeOK, Lost, Cared
  <2>2. ~InUse(k)
    <3>1. PICK d \in Docs : asset' = [asset EXCEPT ![d] = request[r].key] /\ asset[d] = NoKey
      BY DEF FilesHaveOneRow
    <3>2. k \in Keys /\ \A e \in Docs : asset'[e] # k
      BY DEF Lost, InUse
    <3> QED BY <3>1, <3>2 DEF BlobTypeOK, InUse
  <2> QED BY <2>1, <2>2 DEF Lost
<1>8. Charged
  BY <1>6, <1>7 DEF Charged
<1> QED BY <1>1, <1>2, <1>3, <1>4, <1>5, <1>8

LEMMA BeginDeleteKeeps ==
  ASSUME BlobSound, NEW r \in Requests, NEW d \in Docs, BeginDelete(r, d)
  PROVE  BlobSound' /\ Charged
<1> USE BlobAssumption DEF BlobSound, BeginDelete, Pending, NoRequest
<1>1. BlobTypeOK'
  BY DEF BlobTypeOK
<1>2. FilesHaveOneRow'
  BY DEF BlobTypeOK, FilesHaveOneRow, RequestSound, InUse
<1>3. CleanersSound'
  BY DEF BlobTypeOK, CleanersSound
<1>4. \A l \in Keys : KeySound(l)'
  BY DEF BlobTypeOK, KeySound, RequestSound, InUse
<1>5. \A q \in Requests : RequestSound(q)'
  BY DEF BlobTypeOK, RequestSound, KeySound, InUse, NoRequest
<1>6. AtRisk' \subseteq AtRisk
  BY DEF BlobTypeOK, AtRisk, Threatened, RequestSound, InUse
<1>7. Lost' \subseteq Lost
  BY DEF BlobTypeOK, Lost, Cared, RequestSound, InUse
<1>8. Charged
  BY <1>6, <1>7 DEF Charged
<1> QED BY <1>1, <1>2, <1>3, <1>4, <1>5, <1>8

LEMMA CommitDeleteKeeps ==
  ASSUME BlobSound, NEW r \in Requests, CommitDelete(r)
  PROVE  BlobSound' /\ Charged
<1> USE BlobAssumption DEF BlobSound, CommitDelete, Becomes, Done, NoRequest
<1>0. request[r].doc \in Docs
  BY DEF RequestSound
<1>1. BlobTypeOK'
  <2>1. request' \in [Requests ->
          [pc: {"idle", "put", "stored", "delete", "remove", "track"},
           doc: Docs \cup {NoDoc}, key: Keys \cup {NoKey}]]
    BY SMTT(30) DEF BlobTypeOK, NoRequest
  <2>2. /\ document' \in [Docs -> {"absent", "stored", "deleted"}]
        /\ asset' \in [Docs -> Keys \cup {NoKey}]
    BY <1>0 DEF BlobTypeOK
  <2>3. mishaps' \in 0..MaxMishaps /\ unanswered' \in 0..mishaps'
    BY DEF BlobTypeOK
  <2> QED BY <2>1, <2>2, <2>3 DEF BlobTypeOK
<1>2. FilesHaveOneRow'
  BY DEF BlobTypeOK, FilesHaveOneRow, RequestSound, InUse
<1>3. CleanersSound'
  BY DEF BlobTypeOK, CleanersSound
<1>4. \A l \in Keys : KeySound(l)'
  BY SMTT(30) DEF BlobTypeOK, KeySound, RequestSound, InUse
<1>5. \A q \in Requests : RequestSound(q)'
  BY SMTT(30) DEF BlobTypeOK, RequestSound, KeySound, InUse, NoRequest
<1>6. AtRisk' \subseteq AtRisk
  <2> SUFFICES ASSUME NEW d \in Docs, d \in AtRisk' PROVE d \in AtRisk
    BY DEF AtRisk
  <2>1. d # request[r].doc /\ asset'[d] = asset[d] /\ asset[d] \in Keys
    BY <1>0 DEF BlobTypeOK, AtRisk
  <2>2. asset[d] # request[r].key
    BY <1>0, <2>1 DEF BlobTypeOK, FilesHaveOneRow
  <2>3. Threatened(asset[d])' => Threatened(asset[d])
    BY <2>1, <2>2, SMTT(30) DEF BlobTypeOK, Threatened
  <2> QED BY <2>1, <2>3 DEF AtRisk
<1>7. Lost' \subseteq Lost
  <2>9. PICK k : k = request[r].key
    OBVIOUS
  <2>1. k # NoKey => Cared(k)'
    BY <2>9 DEF BlobTypeOK, Cared
  <2>2. \A l \in Keys : l # k => (~InUse(l)' => ~InUse(l))
    BY <1>0, <2>9 DEF BlobTypeOK, InUse
  <2>3. \A l \in Keys : Cared(l) => Cared(l)'
    BY DEF BlobTypeOK, Cared, NoRequest
  <2>4. \A l \in Lost' : l # k
    BY <2>1, BlobAssumption DEF Lost
  <2> QED BY <2>2, <2>3, <2>4 DEF Lost
<1>8. Charged
  BY <1>6, <1>7 DEF Charged
<1> QED BY <1>1, <1>2, <1>3, <1>4, <1>5, <1>8

LEMMA CommitDeleteFailsKeeps ==
  ASSUME BlobSound, NEW r \in Requests, CommitDeleteFails(r)
  PROVE  BlobSound' /\ Charged
<1> USE BlobAssumption DEF BlobSound, CommitDeleteFails, Done, NoRequest, NoMishap, Mishap
<1>1. BlobTypeOK'
  BY DEF BlobTypeOK
<1>2. FilesHaveOneRow'
  BY DEF BlobTypeOK, FilesHaveOneRow, RequestSound, InUse
<1>3. CleanersSound'
  BY DEF BlobTypeOK, CleanersSound
<1>4. \A l \in Keys : KeySound(l)'
  BY DEF BlobTypeOK, KeySound, RequestSound, InUse
<1>5. \A q \in Requests : RequestSound(q)'
  BY DEF BlobTypeOK, RequestSound, KeySound, InUse, NoRequest
<1>6. AtRisk' \subseteq AtRisk
  BY DEF BlobTypeOK, AtRisk, Threatened, RequestSound, InUse
<1>7. Lost' \subseteq Lost
  BY DEF BlobTypeOK, Lost, Cared, RequestSound, InUse
<1>8. Charged
  BY <1>6, <1>7 DEF Charged
<1> QED BY <1>1, <1>2, <1>3, <1>4, <1>5, <1>8

LEMMA CommitDeleteUnansweredKeeps ==
  ASSUME BlobSound, NEW r \in Requests, CommitDeleteUnanswered(r)
  PROVE  BlobSound' /\ Charged
<1> USE BlobAssumption DEF BlobSound, CommitDeleteUnanswered, Done, NoRequest, Mishap
<1>0. request[r].doc \in Docs
  BY DEF RequestSound
<1>1. BlobTypeOK'
  <2>1. request' \in [Requests ->
          [pc: {"idle", "put", "stored", "delete", "remove", "track"},
           doc: Docs \cup {NoDoc}, key: Keys \cup {NoKey}]]
    BY DEF BlobTypeOK, NoRequest
  <2>2. /\ document' \in [Docs -> {"absent", "stored", "deleted"}]
        /\ asset' \in [Docs -> Keys \cup {NoKey}]
    BY <1>0 DEF BlobTypeOK
  <2>3. mishaps' \in 0..MaxMishaps /\ unanswered' \in 0..mishaps'
    BY DEF BlobTypeOK
  <2> QED BY <2>1, <2>2, <2>3 DEF BlobTypeOK
<1>2. FilesHaveOneRow'
  BY DEF BlobTypeOK, FilesHaveOneRow, RequestSound, InUse
<1>3. CleanersSound'
  BY DEF BlobTypeOK, CleanersSound
<1>4. \A l \in Keys : KeySound(l)'
  BY DEF BlobTypeOK, KeySound, RequestSound, InUse
<1>5. \A q \in Requests : RequestSound(q)'
  BY DEF BlobTypeOK, RequestSound, KeySound, InUse, NoRequest
<1>6. AtRisk' \subseteq AtRisk
  BY DEF BlobTypeOK, AtRisk, Threatened, RequestSound, InUse
<1>7. \E k : Lost' \subseteq Lost \cup {k}
  <2> DEFINE k == request[r].key
  <2>2. \A l \in Keys : l # k => (~InUse(l)' => ~InUse(l))
    BY <1>0 DEF BlobTypeOK, InUse
  <2>3. \A l \in Keys : Cared(l) => Cared(l)'
    BY DEF BlobTypeOK, Cared, NoRequest
  <2>4. Lost' \subseteq Lost \cup {k}
    BY <2>2, <2>3 DEF Lost
  <2> QED BY <2>4
<1>8. Charged
  BY <1>6, <1>7 DEF Charged
<1> QED BY <1>1, <1>2, <1>3, <1>4, <1>5, <1>8

LEMMA RemoveFileKeeps ==
  ASSUME BlobSound, NEW r \in Requests, RemoveFile(r)
  PROVE  BlobSound' /\ Charged
<1> USE BlobAssumption DEF BlobSound, RemoveFile, Done, NoRequest, Becomes, NoMishap, Mishap
<1>0. request[r].pc # "delete" => request[r].key \in Keys
  BY DEF BlobTypeOK, RequestSound
<1>1. BlobTypeOK'
  <2>1. request' \in [Requests ->
          [pc: {"idle", "put", "stored", "delete", "remove", "track"},
           doc: Docs \cup {NoDoc}, key: Keys \cup {NoKey}]]
    BY DEF BlobTypeOK, NoRequest
  <2>2. file' \in [Keys -> {"none", "stored", "deleted"}]
    BY <1>0 DEF BlobTypeOK
  <2>3. mishaps' \in 0..MaxMishaps /\ unanswered' \in 0..mishaps'
    BY DEF BlobTypeOK
  <2> QED BY <2>1, <2>2, <2>3 DEF BlobTypeOK
<1>2. FilesHaveOneRow'
  BY DEF BlobTypeOK, FilesHaveOneRow, RequestSound, InUse
<1>3. CleanersSound'
  BY DEF BlobTypeOK, CleanersSound
<1>4. \A l \in Keys : KeySound(l)'
  <2> SUFFICES ASSUME NEW l \in Keys, file'[l] = "none" PROVE KeySound(l)'
    BY DEF KeySound
  <2>1. file[l] = "none"
    BY <1>0 DEF BlobTypeOK
  <2> QED BY <2>1 DEF BlobTypeOK, KeySound, InUse, NoRequest
<1>5. \A q \in Requests : RequestSound(q)'
  BY SMTT(30) DEF BlobTypeOK, RequestSound, KeySound, InUse, NoRequest
<1>6. AtRisk' \subseteq AtRisk
  <2> SUFFICES ASSUME NEW d \in Docs, d \in AtRisk' PROVE d \in AtRisk
    BY DEF AtRisk
  <2>1. asset'[d] = asset[d] /\ asset[d] \in Keys
    BY DEF BlobTypeOK, AtRisk
  <2>2. CASE asset[d] = request[r].key
    BY <2>1, <2>2 DEF AtRisk, Threatened
  <2>3. CASE asset[d] # request[r].key
    <3>1. file'[asset[d]] = file[asset[d]]
      BY <2>1, <2>3 DEF BlobTypeOK
    <3>2. Threatened(asset[d])' => Threatened(asset[d])
      BY <2>1, <2>3 DEF BlobTypeOK, Threatened
    <3> QED BY <2>1, <3>1, <3>2 DEF AtRisk
  <2> QED BY <2>2, <2>3
<1>7. Lost' \subseteq Lost
  BY DEF BlobTypeOK, Lost, Cared, RequestSound, InUse
<1>8. Charged
  BY <1>6, <1>7 DEF Charged
<1> QED BY <1>1, <1>2, <1>3, <1>4, <1>5, <1>8

LEMMA TrackKeeps ==
  ASSUME BlobSound, NEW r \in Requests, Track(r)
  PROVE  BlobSound' /\ Charged
<1> USE BlobAssumption DEF BlobSound, Track, Done, NoRequest, NoMishap, Mishap
<1>1. BlobTypeOK'
  BY DEF BlobTypeOK
<1>2. FilesHaveOneRow'
  BY DEF BlobTypeOK, FilesHaveOneRow, RequestSound, InUse
<1>3. CleanersSound'
  BY DEF BlobTypeOK, CleanersSound
<1>4. \A l \in Keys : KeySound(l)'
  BY DEF BlobTypeOK, KeySound, RequestSound, InUse
<1>5. \A q \in Requests : RequestSound(q)'
  BY DEF BlobTypeOK, RequestSound, KeySound, InUse, NoRequest
<1>6. AtRisk' \subseteq AtRisk
  BY DEF BlobTypeOK, AtRisk, Threatened, RequestSound, InUse
<1>7. /\ \E k : Lost' \subseteq Lost \cup {k}
      /\ mishaps' = mishaps => Lost' \subseteq Lost
  <2> DEFINE k == request[r].key
  <2>1. \A l \in Keys : l # k => (Cared(l) => Cared(l)')
    BY DEF BlobTypeOK, Cared, NoRequest
  <2>2. \A l \in Keys : l # k => (l \in Lost' => l \in Lost)
    BY <2>1 DEF BlobTypeOK, Lost, InUse

  <2>3. Lost' \subseteq Lost \cup {k}
    BY <2>2 DEF Lost
  <2>4. ASSUME mishaps' = mishaps PROVE k \notin Lost'
    <3>1. mishaps # mishaps + 1
      BY DEF BlobTypeOK
    <3>2. task' = [task EXCEPT ![k] = IF @ = "none" THEN "due" ELSE @]
      BY <2>4, <3>1
    <3> QED BY <3>2 DEF BlobTypeOK, Lost
  <2>5. mishaps' = mishaps => Lost' \subseteq Lost
    BY <2>3, <2>4
  <2> QED BY <2>3, <2>5
<1>8. Charged
  <2>1. mishaps' \in {mishaps, mishaps + 1} /\ unanswered' = unanswered
    OBVIOUS
  <2>2. CASE mishaps' = mishaps
    BY <1>6, <1>7, <2>2 DEF Charged
  <2>3. CASE mishaps' = mishaps + 1
    BY <1>6, <1>7, <2>1, <2>3 DEF Charged
  <2> QED BY <2>1, <2>2, <2>3
<1> QED BY <1>1, <1>2, <1>3, <1>4, <1>5, <1>8

LEMMA CrashRequestKeeps ==
  ASSUME BlobSound, NEW r \in Requests, CrashRequest(r)
  PROVE  BlobSound' /\ Charged
<1> USE BlobAssumption DEF BlobSound, CrashRequest, Done, NoRequest, Mishap
<1>1. BlobTypeOK'
  BY DEF BlobTypeOK
<1>2. FilesHaveOneRow'
  BY DEF BlobTypeOK, FilesHaveOneRow, RequestSound, InUse
<1>3. CleanersSound'
  BY DEF BlobTypeOK, CleanersSound
<1>4. \A l \in Keys : KeySound(l)'
  BY DEF BlobTypeOK, KeySound, RequestSound, InUse
<1>5. \A q \in Requests : RequestSound(q)'
  BY DEF BlobTypeOK, RequestSound, KeySound, InUse, NoRequest
<1>6. AtRisk' \subseteq AtRisk
  BY DEF BlobTypeOK, AtRisk, Threatened, RequestSound, InUse
<1>7. \E k : Lost' \subseteq Lost \cup {k}
  <2> DEFINE k == request[r].key
  <2>1. \A l \in Keys : l # k => (Cared(l) => Cared(l)')
    BY DEF BlobTypeOK, Cared, NoRequest
  <2>2. \A l \in Keys : l # k => (l \in Lost' => l \in Lost)
    BY <2>1 DEF BlobTypeOK, Lost, InUse

  <2>3. Lost' \subseteq Lost \cup {k}
    BY <2>2 DEF Lost
  <2> QED BY <2>3
<1>8. Charged
  BY <1>6, <1>7 DEF Charged
<1> QED BY <1>1, <1>2, <1>3, <1>4, <1>5, <1>8

LEMMA ClaimDueKeeps ==
  ASSUME BlobSound, NEW c \in Cleaners, NEW S \in SUBSET Keys, ClaimDue(c, S)
  PROVE  BlobSound' /\ Charged
<1> USE BlobAssumption DEF BlobSound, ClaimDue
<1>1. BlobTypeOK'
  BY DEF BlobTypeOK
<1>2. FilesHaveOneRow'
  BY DEF BlobTypeOK, FilesHaveOneRow, RequestSound, InUse
<1>3. CleanersSound'
  BY DEF BlobTypeOK, CleanersSound
<1>4. \A l \in Keys : KeySound(l)'
  BY DEF BlobTypeOK, KeySound, RequestSound, InUse
<1>5. \A q \in Requests : RequestSound(q)'
  BY DEF BlobTypeOK, RequestSound, KeySound, InUse, NoRequest
<1>6. AtRisk' \subseteq AtRisk
  BY DEF BlobTypeOK, AtRisk, Threatened, RequestSound, InUse
<1>7. Lost' \subseteq Lost
  BY DEF BlobTypeOK, Lost, Cared, RequestSound, InUse
<1>8. Charged
  BY <1>6, <1>7 DEF Charged
<1> QED BY <1>1, <1>2, <1>3, <1>4, <1>5, <1>8

LEMMA CleanFileKeeps ==
  ASSUME BlobSound, NEW c \in Cleaners, NEW k \in Keys, CleanFile(c, k)
  PROVE  BlobSound' /\ Charged
<1> USE BlobAssumption DEF BlobSound, CleanFile, NoMishap, Mishap
<1>1. BlobTypeOK'
  <2>1. cleaner' \in [Cleaners -> [todo: SUBSET Keys, gone: Keys \cup {NoKey}]]
    BY SMTT(30) DEF BlobTypeOK
  <2>2. /\ task' \in [Keys -> {"none", "due", "held", "waiting"}]
        /\ file' \in [Keys -> {"none", "stored", "deleted"}]
    BY DEF BlobTypeOK
  <2>3. mishaps' \in 0..MaxMishaps /\ unanswered' \in 0..mishaps'
    BY DEF BlobTypeOK
  <2> QED BY <2>1, <2>2, <2>3 DEF BlobTypeOK
<1>2. FilesHaveOneRow'
  BY DEF BlobTypeOK, FilesHaveOneRow, RequestSound, InUse
<1>3. CleanersSound'
  BY DEF BlobTypeOK, CleanersSound
<1>4. \A l \in Keys : KeySound(l)'
  <2> SUFFICES ASSUME NEW l \in Keys, file'[l] = "none" PROVE KeySound(l)'
    BY DEF KeySound
  <2>1. file[l] = "none"
    BY DEF BlobTypeOK
  <2> QED BY <2>1 DEF BlobTypeOK, KeySound, InUse, NoRequest
<1>9. \A b \in Cleaners : cleaner'[b].todo \subseteq cleaner[b].todo
  BY DEF BlobTypeOK
<1>5. \A q \in Requests : RequestSound(q)'
  <2> SUFFICES ASSUME NEW q \in Requests PROVE RequestSound(q)'
    OBVIOUS
  <2>1. request[q].pc \in {"put", "stored"} => request[q].key # k
    BY DEF RequestSound
  <2>2. request[q].pc \in {"put", "stored"} =>
          request[q].key \in Keys /\ file'[request[q].key] = file[request[q].key]
          /\ task'[request[q].key] = task[request[q].key]
    BY <2>1 DEF BlobTypeOK, RequestSound
  <2> QED BY <1>9, <2>2 DEF RequestSound, InUse
<1>6. AtRisk' \subseteq AtRisk
  <2> SUFFICES ASSUME NEW d \in Docs, d \in AtRisk' PROVE d \in AtRisk
    BY DEF AtRisk
  <2>1. asset'[d] = asset[d] /\ asset[d] \in Keys
    BY DEF BlobTypeOK, AtRisk
  <2>2. CASE asset[d] = k
    BY <2>1, <2>2 DEF AtRisk, Threatened
  <2>3. CASE asset[d] # k
    <3>1. file'[asset[d]] = file[asset[d]] /\ task'[asset[d]] = task[asset[d]]
      BY <2>1, <2>3 DEF BlobTypeOK
    <3>2. Threatened(asset[d])' => Threatened(asset[d])
      BY <1>9, <2>1, <3>1 DEF Threatened
    <3> QED BY <2>1, <3>1, <3>2 DEF AtRisk
  <2> QED BY <2>2, <2>3
<1>7. Lost' \subseteq Lost
  BY DEF BlobTypeOK, Lost, Cared, RequestSound, InUse
<1>8. Charged
  BY <1>6, <1>7 DEF Charged
<1> QED BY <1>1, <1>2, <1>3, <1>4, <1>5, <1>8

LEMMA ForgetTaskKeeps ==
  ASSUME BlobSound, NEW c \in Cleaners, ForgetTask(c)
  PROVE  BlobSound' /\ Charged
<1> USE BlobAssumption DEF BlobSound, ForgetTask
<1>1. BlobTypeOK'
  BY DEF BlobTypeOK
<1>2. FilesHaveOneRow'
  BY DEF BlobTypeOK, FilesHaveOneRow, RequestSound, InUse
<1>3. CleanersSound'
  BY DEF BlobTypeOK, CleanersSound
<1>4. \A l \in Keys : KeySound(l)'
  BY DEF BlobTypeOK, KeySound, RequestSound, InUse
<1>5. \A q \in Requests : RequestSound(q)'
  BY DEF BlobTypeOK, RequestSound, KeySound, InUse, NoRequest
<1>6. AtRisk' \subseteq AtRisk
  BY DEF BlobTypeOK, AtRisk, Threatened, RequestSound, InUse
<1>7. Lost' \subseteq Lost
  BY DEF BlobTypeOK, CleanersSound, Lost, Cared, InUse
<1>8. Charged
  BY <1>6, <1>7 DEF Charged
<1> QED BY <1>1, <1>2, <1>3, <1>4, <1>5, <1>8

LEMMA CrashCleanerKeeps ==
  ASSUME BlobSound, NEW c \in Cleaners, CrashCleaner(c)
  PROVE  BlobSound' /\ Charged
<1> USE BlobAssumption DEF BlobSound, CrashCleaner, Mishap, NoCleanup
<1>1. BlobTypeOK'
  BY DEF BlobTypeOK
<1>2. FilesHaveOneRow'
  BY DEF BlobTypeOK, FilesHaveOneRow, RequestSound, InUse
<1>3. CleanersSound'
  BY DEF BlobTypeOK, CleanersSound
<1>4. \A l \in Keys : KeySound(l)'
  BY DEF BlobTypeOK, KeySound, RequestSound, InUse
<1>5. \A q \in Requests : RequestSound(q)'
  BY DEF BlobTypeOK, RequestSound, KeySound, InUse, NoRequest
<1>6. AtRisk' \subseteq AtRisk
  BY DEF BlobTypeOK, AtRisk, Threatened, RequestSound, InUse
<1>7. Lost' \subseteq Lost
  BY DEF BlobTypeOK, Lost, Cared, RequestSound, InUse
<1>8. Charged
  BY <1>6, <1>7 DEF Charged
<1> QED BY <1>1, <1>2, <1>3, <1>4, <1>5, <1>8

LEMMA TaskDueKeeps ==
  ASSUME BlobSound, NEW k \in Keys, TaskDue(k)
  PROVE  BlobSound' /\ Charged
<1> USE BlobAssumption DEF BlobSound, TaskDue
<1>1. BlobTypeOK'
  BY DEF BlobTypeOK
<1>2. FilesHaveOneRow'
  BY DEF BlobTypeOK, FilesHaveOneRow, RequestSound, InUse
<1>3. CleanersSound'
  BY DEF BlobTypeOK, CleanersSound
<1>4. \A l \in Keys : KeySound(l)'
  BY DEF BlobTypeOK, KeySound, RequestSound, InUse
<1>5. \A q \in Requests : RequestSound(q)'
  BY DEF BlobTypeOK, RequestSound, KeySound, InUse, NoRequest
<1>6. AtRisk' \subseteq AtRisk
  BY DEF BlobTypeOK, AtRisk, Threatened, RequestSound, InUse
<1>7. Lost' \subseteq Lost
  BY DEF BlobTypeOK, Lost, Cared, RequestSound, InUse
<1>8. Charged
  BY <1>6, <1>7 DEF Charged
<1> QED BY <1>1, <1>2, <1>3, <1>4, <1>5, <1>8

LEMMA NothingKeeps ==
  ASSUME BlobSound, UNCHANGED blobVars
  PROVE  BlobSound' /\ Charged
<1> USE DEF BlobSound, blobVars
<1>1. BlobTypeOK' /\ FilesHaveOneRow' /\ CleanersSound'
  BY DEF BlobTypeOK, FilesHaveOneRow, CleanersSound
<1>2. /\ \A l \in Keys : KeySound(l)'
      /\ \A q \in Requests : RequestSound(q)'
  BY DEF KeySound, RequestSound, InUse
<1>3. AtRisk' \subseteq AtRisk /\ Lost' \subseteq Lost
  BY DEF AtRisk, Threatened, Lost, Cared, InUse
<1> QED BY <1>1, <1>2, <1>3 DEF Charged

LEMMA EveryStepIsCharged ==
  ASSUME BlobSound, [BlobStep]_blobVars
  PROVE  BlobSound' /\ Charged
<1>1. CASE \E d \in Docs : Create(d)
  BY <1>1, CreateKeeps
<1>2. ASSUME NEW r \in Requests, RequestStep(r) PROVE BlobSound' /\ Charged
  <2>1. CASE \E k \in Keys : Begin(r, k)
    BY <2>1, BeginKeeps
  <2>2. CASE Put(r)
    BY <2>2, PutKeeps
  <2>3. CASE CommitFile(r)
    BY <2>3, CommitFileKeeps
  <2>4. CASE CommitFileFails(r)
    BY <2>4, CommitFileFailsKeeps
  <2>5. CASE CommitFileUnanswered(r)
    BY <2>5, CommitFileUnansweredKeeps
  <2>6. CASE \E d \in Docs : BeginDelete(r, d)
    BY <2>6, BeginDeleteKeeps
  <2>7. CASE CommitDelete(r)
    BY <2>7, CommitDeleteKeeps
  <2>8. CASE CommitDeleteFails(r)
    BY <2>8, CommitDeleteFailsKeeps
  <2>9. CASE CommitDeleteUnanswered(r)
    BY <2>9, CommitDeleteUnansweredKeeps
  <2>10. CASE RemoveFile(r)
    BY <2>10, RemoveFileKeeps
  <2>11. CASE Track(r)
    BY <2>11, TrackKeeps
  <2>12. CASE CrashRequest(r)
    BY <2>12, CrashRequestKeeps
  <2> QED BY <1>2, <2>1, <2>2, <2>3, <2>4, <2>5, <2>6, <2>7, <2>8, <2>9, <2>10, <2>11, <2>12
          DEF RequestStep
<1>3. ASSUME NEW c \in Cleaners, CleanerStep(c) PROVE BlobSound' /\ Charged
  <2>1. CASE \E S \in SUBSET Keys : ClaimDue(c, S)
    BY <2>1, ClaimDueKeeps
  <2>2. CASE \E k \in Keys : CleanFile(c, k)
    BY <2>2, CleanFileKeeps
  <2>3. CASE ForgetTask(c)
    BY <2>3, ForgetTaskKeeps
  <2>4. CASE CrashCleaner(c)
    BY <2>4, CrashCleanerKeeps
  <2> QED BY <1>3, <2>1, <2>2, <2>3, <2>4 DEF CleanerStep
<1>4. CASE \E k \in Keys : TaskDue(k)
  BY <1>4, TaskDueKeeps
<1>5. CASE UNCHANGED blobVars
  BY <1>5, NothingKeeps
<1> QED BY <1>1, <1>2, <1>3, <1>4, <1>5 DEF BlobStep

LEMMA BlobInvariant == BlobSpec => []BlobInv
<1>1. BlobInv /\ [BlobStep]_blobVars => BlobInv'
  <2> SUFFICES ASSUME BlobInv, [BlobStep]_blobVars PROVE BlobInv'
    OBVIOUS
  <2>1. BlobSound' /\ Charged
    BY EveryStepIsCharged DEF BlobInv
  <2>2. AtMost(AtRisk', unanswered') /\ AtMost(Lost', mishaps')
    BY <2>1, ChargedKeepsCounts DEF BlobSound
  <2>3. AtMost(AtRisk, unanswered)' /\ AtMost(Lost, mishaps)'
    BY <2>2 DEF AtMost
  <2> QED BY <2>1, <2>3 DEF BlobInv
<1> QED BY InitBlobs, <1>1, PTL DEF BlobSpec

(* Rows and files agree: however requests, deletions and cleanups overtake *)
(* each other or stop, a row points to a missing file only where a commit  *)
(* went unanswered, and a file is lost only to a crash or a failure, one   *)
(* for each.                                                               *)
THEOREM FilesAlwaysAgree == BlobSpec => []FilesAgree
<1> QED BY BlobInvariant, BlobInvSuffices, PTL
-------------------------------------------------------------------------------

Holding == [status: {"pending", "running", "completed", "failed"},
            holder: Extractors \cup {Nobody}, expired: BOOLEAN]

(* A worker that has no transaction open has inserted nothing; in one, it  *)
(* has each name of the text up to its next, and its chunk cannot go.      *)
HandSound(w) ==
  /\ hand[w] \in [at: {"free", "looking", "reading", "inserting", "linked", "stopped"},
                  chunk: {hand[w].chunk}, next: Nat \ {0}, inserted: SUBSET Names]
  /\ ~InTransaction(w) => hand[w].next = 1 /\ hand[w].inserted = {}
  /\ InTransaction(w) =>
       /\ hand[w].chunk \in here
       /\ \A i \in DOMAIN text[hand[w].chunk] :
            i < hand[w].next => text[hand[w].chunk][i] \in stored \cup hand[w].inserted
  /\ hand[w].at = "linked" => AllInserted(w)

MentionsSound(c) ==
  /\ mentions[c] \subseteq stored
  /\ c \in here /\ row[c].status = "completed" => mentions[c] = NamesIn(c)
  /\ c \notin here => mentions[c] = {}

NobodyInsertsTwice ==
  \A w \in Extractors : \A v \in Extractors \ {w} : hand[v].inserted \cap hand[w].inserted = {}

NamesTyped ==
  /\ text \in [Passages -> Seq(Names)]
  /\ here \subseteq Passages /\ stored \subseteq Names
  /\ row \in [Passages -> Holding]
  /\ mentions \in [Passages -> SUBSET Names]
  /\ DOMAIN hand = Extractors /\ hand = [w \in Extractors |-> hand[w]]

NamesInv ==
  /\ NamesTyped /\ NobodyInsertsTwice
  /\ \A w \in Extractors : HandSound(w)
  /\ \A c \in Passages : MentionsSound(c)

LEMMA NamesInvSuffices == NamesInv => NamesAreThere
<1> SUFFICES ASSUME NamesInv PROVE NamesAreThere
  OBVIOUS
<1>1. ASSUME NEW w \in Extractors, hand[w].at = "linked"
      PROVE  NamesIn(hand[w].chunk) \subseteq stored \cup hand[w].inserted
  <2> DEFINE c == hand[w].chunk
  <2>1. c \in Passages /\ text[c] \in Seq(Names) /\ hand[w].next > Len(text[c])
    BY <1>1 DEF NamesInv, NamesTyped, HandSound, InTransaction, AllInserted
  <2>2. \A i \in DOMAIN text[c] : i < hand[w].next
    <3>1. hand[w].next \in Nat
      BY DEF NamesInv, HandSound
    <3> QED BY <2>1, <3>1
  <2>3. \A i \in DOMAIN text[c] : text[c][i] \in stored \cup hand[w].inserted
    BY <1>1, <2>2 DEF NamesInv, HandSound, InTransaction
  <2> QED BY <2>3 DEF NamesIn
<1> QED BY <1>1 DEF NamesInv, NamesAreThere, MentionsSound, NobodyInsertsTwice

LEMMA InitNames == NamesInit => NamesInv
<1> SUFFICES ASSUME NamesInit PROVE NamesInv
  OBVIOUS
<1>1. NamesTyped
  BY NamesAssumption DEF NamesInit, NamesTyped, Waiting, Holding
<1>2. \A w \in Extractors : HandSound(w)
  BY DEF NamesInit, HandSound, FreeHand, InTransaction
<1> QED BY <1>1, <1>2 DEF NamesInit, NamesInv, NobodyInsertsTwice, FreeHand, MentionsSound, Waiting

LEMMA OthersStaySound ==
  ASSUME NamesInv, NEW v \in Extractors, hand'[v] = hand[v], text' = text,
         stored \subseteq stored', InTransaction(v) => hand[v].chunk \in here'
  PROVE  HandSound(v)'
<1>1. HandSound(v)
  BY DEF NamesInv
<1>2. InTransaction(v)' <=> InTransaction(v)
  BY DEF InTransaction
<1>3. AllInserted(v)' <=> AllInserted(v)
  BY DEF AllInserted
<1> QED BY <1>1, <1>2, <1>3 DEF HandSound

LEMMA RestIsSound ==
  ASSUME NEW v \in Extractors, hand'[v] \in {FreeHand, Stopped}
  PROVE  HandSound(v)'
<1>1. ~InTransaction(v)'
  BY DEF FreeHand, Stopped, InTransaction
<1> QED BY <1>1 DEF FreeHand, Stopped, HandSound

LEMMA ReadingIsSound ==
  ASSUME NEW w \in Extractors, NEW c,
         hand'[w] = [at |-> "reading", chunk |-> c, next |-> 1, inserted |-> {}]
  PROVE  HandSound(w)'
<1>1. ~InTransaction(w)'
  BY DEF InTransaction
<1>2. hand'[w] \in [at: {"free", "looking", "reading", "inserting", "linked", "stopped"},
                    chunk: {hand'[w].chunk}, next: Nat \ {0}, inserted: SUBSET Names]
  <2>1. hand'[w].chunk = c /\ {} \in SUBSET Names /\ 1 \in Nat \ {0} /\ c \in {c}
    OBVIOUS
  <2> QED BY <2>1
<1> QED BY <1>1, <1>2 DEF HandSound

LEMMA RecoverRowsKeeps ==
  ASSUME NamesInv, NEW w \in Extractors, RecoverRows(w)
  PROVE  NamesInv'
<1> USE NamesAssumption DEF NamesInv, RecoverRows
<1>1. NamesTyped'
  BY DEF NamesTyped, Holding, Waiting
<1>2. \A v \in Extractors : HandSound(v)'
  <2>1. ASSUME NEW v \in Extractors \ {w} PROVE HandSound(v)'
    <3>1. hand'[v] = hand[v] /\ (InTransaction(v) => hand[v].chunk \in here')
      BY DEF NamesTyped, HandSound
    <3> QED BY <3>1, OthersStaySound
  <2>2. HandSound(w)'
    <3>1. HandSound(w) /\ hand'[w] = [hand[w] EXCEPT !.at = "looking"]
      BY DEF NamesTyped
    <3> QED BY <3>1 DEF HandSound, InTransaction
  <2> QED BY <2>1, <2>2
<1>3. NobodyInsertsTwice'
  BY DEF NamesTyped, HandSound, NobodyInsertsTwice, InTransaction, FreeHand, Stopped
<1>4. \A b \in Passages : MentionsSound(b)'
  BY DEF NamesTyped, MentionsSound, NamesIn, Waiting, Holding
<1> QED BY <1>1, <1>2, <1>3, <1>4

LEMMA ClaimRowKeeps ==
  ASSUME NamesInv, NEW w \in Extractors, ClaimRow(w)
  PROVE  NamesInv'
<1> USE NamesAssumption DEF NamesInv, ClaimRow
<1>1. NamesTyped'
  BY DEF NamesTyped, Holding, Waiting
<1>2. \A v \in Extractors : HandSound(v)'
  <2>1. ASSUME NEW v \in Extractors \ {w} PROVE HandSound(v)'
    <3>1. hand'[v] = hand[v] /\ (InTransaction(v) => hand[v].chunk \in here')
      BY DEF NamesTyped, HandSound
    <3> QED BY <3>1, OthersStaySound
  <2>2. HandSound(w)'
    <3>1. PICK c : hand'[w] = [FreeHand EXCEPT !.at = "reading", !.chunk = c]
      BY DEF NamesTyped
    <3>2. hand'[w] = [at |-> "reading", chunk |-> c, next |-> 1, inserted |-> {}]
      BY <3>1, ZenonT(30) DEF FreeHand
    <3> QED BY <3>2, ReadingIsSound
  <2> QED BY <2>1, <2>2
<1>3. NobodyInsertsTwice'
  BY DEF NamesTyped, HandSound, NobodyInsertsTwice, InTransaction, FreeHand, Stopped
<1>4. \A b \in Passages : MentionsSound(b)'
  BY DEF NamesTyped, MentionsSound, NamesIn, Waiting, Holding
<1> QED BY <1>1, <1>2, <1>3, <1>4

LEMMA FindNoneKeeps ==
  ASSUME NamesInv, NEW w \in Extractors, FindNone(w)
  PROVE  NamesInv'
<1> USE NamesAssumption DEF NamesInv, FindNone
<1>1. NamesTyped'
  BY DEF NamesTyped, Holding, Waiting
<1>2. \A v \in Extractors : HandSound(v)'
  BY DEF NamesTyped, HandSound, InTransaction, AllInserted, FreeHand, Stopped, Owns
<1>3. NobodyInsertsTwice'
  BY DEF NamesTyped, HandSound, NobodyInsertsTwice, InTransaction, FreeHand, Stopped
<1>4. \A b \in Passages : MentionsSound(b)'
  BY DEF NamesTyped, MentionsSound, NamesIn, Waiting, Holding
<1> QED BY <1>1, <1>2, <1>3, <1>4

LEMMA GiveUpKeeps ==
  ASSUME NamesInv, NEW w \in Extractors, GiveUp(w)
  PROVE  NamesInv'
<1> USE NamesAssumption DEF NamesInv, GiveUp
<1>1. NamesTyped'
  BY DEF NamesTyped, Holding, Waiting
<1>2. \A v \in Extractors : HandSound(v)'
  BY DEF NamesTyped, HandSound, InTransaction, AllInserted, FreeHand, Stopped, Owns
<1>3. NobodyInsertsTwice'
  BY DEF NamesTyped, HandSound, NobodyInsertsTwice, InTransaction, FreeHand, Stopped
<1>4. \A b \in Passages : MentionsSound(b)'
  BY DEF NamesTyped, MentionsSound, NamesIn, Waiting, Holding
<1> QED BY <1>1, <1>2, <1>3, <1>4

LEMMA MarkFailedKeeps ==
  ASSUME NamesInv, NEW w \in Extractors, MarkFailed(w)
  PROVE  NamesInv'
<1> USE NamesAssumption DEF NamesInv, MarkFailed
<1>1. NamesTyped'
  BY DEF NamesTyped, Holding, Waiting
<1>2. \A v \in Extractors : HandSound(v)'
  <2>1. ASSUME NEW v \in Extractors \ {w} PROVE HandSound(v)'
    <3>1. hand'[v] = hand[v] /\ (InTransaction(v) => hand[v].chunk \in here')
      BY DEF NamesTyped, HandSound
    <3> QED BY <3>1, OthersStaySound
  <2>2. HandSound(w)'
    BY RestIsSound DEF NamesTyped
  <2> QED BY <2>1, <2>2
<1>3. NobodyInsertsTwice'
  BY DEF NamesTyped, HandSound, NobodyInsertsTwice, InTransaction, FreeHand, Stopped
<1>4. \A b \in Passages : MentionsSound(b)'
  BY DEF NamesTyped, MentionsSound, NamesIn, Waiting, Holding
<1> QED BY <1>1, <1>2, <1>3, <1>4

LEMMA BeginFinishKeeps ==
  ASSUME NamesInv, NEW w \in Extractors, BeginFinish(w)
  PROVE  NamesInv'
<1> USE NamesAssumption DEF NamesInv, BeginFinish
<1>1. NamesTyped'
  BY DEF NamesTyped, Holding, Waiting
<1>2. \A v \in Extractors : HandSound(v)'
  <2>1. ASSUME NEW v \in Extractors \ {w} PROVE HandSound(v)'
    <3>1. hand'[v] = hand[v] /\ (InTransaction(v) => hand[v].chunk \in here')
      BY DEF NamesTyped, HandSound
    <3> QED BY <3>1, OthersStaySound
  <2>2. HandSound(w)'
    <3>1. HandSound(w) /\ hand'[w] = [hand[w] EXCEPT !.at = "inserting"]
      BY DEF NamesTyped
    <3>2. hand[w].next = 1 /\ hand[w].inserted = {}
      BY <3>1 DEF HandSound, InTransaction
    <3>3. hand[w].chunk \in here /\ hand[w].chunk \in Passages
      BY DEF Owns, NamesTyped
    <3>4. \A i \in DOMAIN text[hand[w].chunk] : ~(i < 1)
      BY <3>3 DEF NamesTyped
    <3> QED BY <3>1, <3>2, <3>3, <3>4 DEF HandSound, InTransaction
  <2> QED BY <2>1, <2>2
<1>3. NobodyInsertsTwice'
  BY DEF NamesTyped, HandSound, NobodyInsertsTwice, InTransaction, FreeHand, Stopped
<1>4. \A b \in Passages : MentionsSound(b)'
  BY DEF NamesTyped, MentionsSound, NamesIn, Waiting, Holding
<1> QED BY <1>1, <1>2, <1>3, <1>4

LEMMA InsertedIsSound ==
  ASSUME NamesInv, NEW w \in Extractors, hand[w].at = "inserting", ~AllInserted(w),
         hand'[w] = Inserted(w), text' = text, stored' = stored, here' = here
  PROVE  HandSound(w)'
<1> DEFINE c == hand[w].chunk
<1>1. HandSound(w) /\ InTransaction(w)
  BY DEF NamesInv, InTransaction
<1>2. c \in Passages /\ text[c] \in Seq(Names) /\ hand[w].next \in DOMAIN text[c]
  <2>1. c \in Passages /\ text[c] \in Seq(Names)
    BY <1>1 DEF NamesInv, NamesTyped, HandSound
  <2>2. hand[w].next \in Nat \ {0}
    BY <1>1 DEF HandSound
  <2> QED BY <2>1, <2>2 DEF AllInserted
<1>3. NextName(w) \in Names
  BY <1>2 DEF NextName
<1>4. /\ hand'[w].at = "inserting" /\ hand'[w].chunk = c
      /\ hand'[w].next = hand[w].next + 1
      /\ hand'[w].inserted = hand[w].inserted \cup ({NextName(w)} \ stored)
  BY <1>1 DEF HandSound, Inserted
<1>5. hand'[w] \in [at: {"free", "looking", "reading", "inserting", "linked", "stopped"},
                    chunk: {hand'[w].chunk}, next: Nat \ {0}, inserted: SUBSET Names]
  <2>1. hand[w] \in [at: {"free", "looking", "reading", "inserting", "linked", "stopped"},
                     chunk: {c}, next: Nat \ {0}, inserted: SUBSET Names]
    BY <1>1 DEF HandSound
  <2>2. hand[w].next + 1 \in Nat \ {0}
    BY <2>1
  <2>3. hand[w].inserted \cup ({NextName(w)} \ stored) \in SUBSET Names
    BY <1>3, <2>1
  <2>4. hand'[w] = [hand[w] EXCEPT !.next = hand[w].next + 1,
                                   !.inserted = hand[w].inserted \cup ({NextName(w)} \ stored)]
    BY DEF Inserted
  <2> QED BY <1>4, <2>1, <2>2, <2>3, <2>4
<1>6. \A i \in DOMAIN text[c] : i < hand[w].next + 1 =>
         text[c][i] \in stored \cup hand[w].inserted \cup {NextName(w)}
  <2> TAKE i \in DOMAIN text[c]
  <2>1. i \in Nat /\ hand[w].next \in Nat
    BY <1>1, <1>2 DEF HandSound
  <2>2. CASE i < hand[w].next
    BY <1>1, <2>2 DEF HandSound
  <2>3. CASE i = hand[w].next
    BY <2>3 DEF NextName
  <2> QED BY <2>1, <2>2, <2>3
<1> QED BY <1>1, <1>4, <1>5, <1>6 DEF HandSound, InTransaction

LEMMA InsertedIsApart ==
  ASSUME NamesInv, NEW w \in Extractors, NEW v \in Extractors \ {w},
         hand'[w] = Inserted(w), NextName(w) \notin hand'[v].inserted,
         hand'[v].inserted \subseteq hand[v].inserted
  PROVE  /\ hand'[v].inserted \cap hand'[w].inserted = {}
         /\ hand'[w].inserted \cap hand'[v].inserted = {}
<1>1. hand'[w].inserted = hand[w].inserted \cup ({NextName(w)} \ stored)
  BY DEF NamesInv, HandSound, Inserted
<1>2. hand[v].inserted \cap hand[w].inserted = {}
  BY DEF NamesInv, NobodyInsertsTwice
<1> QED BY <1>1, <1>2

LEMMA InsertKeeps ==
  ASSUME NamesInv, NEW w \in Extractors, Insert(w)
  PROVE  NamesInv'
<1> USE NamesAssumption DEF NamesInv, Insert
<1>1. NamesTyped'
  BY DEF NamesTyped, Holding, Waiting
<1>2. \A v \in Extractors : HandSound(v)'
  <2>1. ASSUME NEW v \in Extractors \ {w} PROVE HandSound(v)'
    <3>1. hand'[v] = hand[v] /\ (InTransaction(v) => hand[v].chunk \in here')
      BY DEF NamesTyped, HandSound
    <3> QED BY <3>1, OthersStaySound
  <2>2. HandSound(w)'
    BY InsertedIsSound DEF NamesTyped
  <2> QED BY <2>1, <2>2
<1>3. NobodyInsertsTwice'
  <2>1. \A v \in Extractors \ {w} :
           /\ hand'[v] = hand[v] /\ NextName(w) \notin hand[v].inserted
    BY DEF NamesTyped, Inserting
  <2>2. hand'[w] = Inserted(w)
    BY DEF NamesTyped
  <2>3. \A v \in Extractors \ {w} :
           /\ hand'[v].inserted \cap hand'[w].inserted = {}
           /\ hand'[w].inserted \cap hand'[v].inserted = {}
    BY <2>1, <2>2, InsertedIsApart
  <2> QED BY <2>1, <2>3 DEF NobodyInsertsTwice
<1>4. \A b \in Passages : MentionsSound(b)'
  BY DEF NamesTyped, MentionsSound, NamesIn, Waiting, Holding
<1> QED BY <1>1, <1>2, <1>3, <1>4

LEMMA LinkKeeps ==
  ASSUME NamesInv, NEW w \in Extractors, Link(w)
  PROVE  NamesInv'
<1> USE NamesAssumption DEF NamesInv, Link
<1>1. NamesTyped'
  BY DEF NamesTyped, Holding, Waiting
<1>2. \A v \in Extractors : HandSound(v)'
  <2>1. ASSUME NEW v \in Extractors \ {w} PROVE HandSound(v)'
    <3>1. hand'[v] = hand[v] /\ (InTransaction(v) => hand[v].chunk \in here')
      BY DEF NamesTyped, HandSound
    <3> QED BY <3>1, OthersStaySound
  <2>2. HandSound(w)'
    <3>1. HandSound(w) /\ hand'[w] = [hand[w] EXCEPT !.at = "linked"]
      BY DEF NamesTyped
    <3> QED BY <3>1 DEF HandSound, InTransaction, AllInserted
  <2> QED BY <2>1, <2>2
<1>3. NobodyInsertsTwice'
  BY DEF NamesTyped, HandSound, NobodyInsertsTwice, InTransaction, FreeHand, Stopped
<1>4. \A b \in Passages : MentionsSound(b)'
  BY DEF NamesTyped, MentionsSound, NamesIn, Waiting, Holding
<1> QED BY <1>1, <1>2, <1>3, <1>4

LEMMA CommitFinishKeeps ==
  ASSUME NamesInv, NEW w \in Extractors, CommitFinish(w)
  PROVE  NamesInv'
<1> USE NamesAssumption DEF NamesInv, CommitFinish
<1>0. /\ hand[w].chunk \in Passages /\ InTransaction(w)
      /\ hand[w].inserted \subseteq Names
  BY DEF NamesTyped, HandSound, InTransaction
<1>5. NamesIn(hand[w].chunk) \subseteq Names
  BY <1>0 DEF NamesTyped, NamesIn
<1>1. NamesTyped'
  <2>1. mentions' \in [Passages -> SUBSET Names]
    BY <1>0, <1>5 DEF NamesTyped
  <2>2. row' \in [Passages -> Holding]
    BY <1>0 DEF NamesTyped, Holding, Waiting
  <2> QED BY <1>0, <2>1, <2>2, ZenonT(30) DEF NamesTyped
<1>2. \A v \in Extractors : HandSound(v)'
  BY DEF NamesTyped, HandSound, InTransaction, AllInserted, FreeHand, Stopped, Owns
<1>3. NobodyInsertsTwice'
  BY DEF NamesTyped, HandSound, NobodyInsertsTwice, InTransaction, FreeHand, Stopped
<1>4. \A b \in Passages : MentionsSound(b)'
  <2>1. NamesIn(hand[w].chunk) \subseteq stored'
    BY NamesInvSuffices DEF NamesAreThere
  <2>2. ASSUME NEW b \in Passages, b = hand[w].chunk PROVE MentionsSound(b)'
    <3>1. mentions'[b] = NamesIn(b) /\ NamesIn(b)' = NamesIn(b) /\ b \in here'
      BY <1>0, <2>2 DEF NamesTyped, NamesIn, HandSound
    <3> QED BY <2>1, <2>2, <3>1 DEF MentionsSound
  <2>3. ASSUME NEW b \in Passages, b # hand[w].chunk PROVE MentionsSound(b)'
    <3>1. mentions'[b] = mentions[b] /\ row'[b] = row[b] /\ NamesIn(b)' = NamesIn(b)
      BY <2>3 DEF NamesTyped, NamesIn
    <3>2. MentionsSound(b) /\ stored \subseteq stored' /\ here' = here
      OBVIOUS
    <3> QED BY <3>1, <3>2 DEF MentionsSound
  <2> QED BY <2>2, <2>3
<1> QED BY <1>1, <1>2, <1>3, <1>4

LEMMA RejectKeeps ==
  ASSUME NamesInv, NEW w \in Extractors, Reject(w)
  PROVE  NamesInv'
<1> USE NamesAssumption DEF NamesInv, Reject
<1>1. NamesTyped'
  BY DEF NamesTyped, Holding, Waiting
<1>2. \A v \in Extractors : HandSound(v)'
  BY DEF NamesTyped, HandSound, InTransaction, AllInserted, FreeHand, Stopped, Owns
<1>3. NobodyInsertsTwice'
  BY DEF NamesTyped, HandSound, NobodyInsertsTwice, InTransaction, FreeHand, Stopped
<1>4. \A b \in Passages : MentionsSound(b)'
  BY DEF NamesTyped, MentionsSound, NamesIn, Waiting, Holding
<1> QED BY <1>1, <1>2, <1>3, <1>4

LEMMA EndProcessKeeps ==
  ASSUME NamesInv, NEW w \in Extractors, EndProcess(w)
  PROVE  NamesInv'
<1> USE NamesAssumption DEF NamesInv, EndProcess
<1>1. NamesTyped'
  BY DEF NamesTyped, Holding, Waiting
<1>2. \A v \in Extractors : HandSound(v)'
  <2>1. ASSUME NEW v \in Extractors \ {w} PROVE HandSound(v)'
    <3>1. hand'[v] = hand[v] /\ (InTransaction(v) => hand[v].chunk \in here')
      BY DEF NamesTyped, HandSound
    <3> QED BY <3>1, OthersStaySound
  <2>2. HandSound(w)'
    BY RestIsSound DEF NamesTyped
  <2> QED BY <2>1, <2>2
<1>3. NobodyInsertsTwice'
  BY DEF NamesTyped, HandSound, NobodyInsertsTwice, InTransaction, FreeHand, Stopped
<1>4. \A b \in Passages : MentionsSound(b)'
  BY DEF NamesTyped, MentionsSound, NamesIn, Waiting, Holding
<1> QED BY <1>1, <1>2, <1>3, <1>4

LEMMA StartProcessKeeps ==
  ASSUME NamesInv, NEW w \in Extractors, StartProcess(w)
  PROVE  NamesInv'
<1> USE NamesAssumption DEF NamesInv, StartProcess
<1>1. NamesTyped'
  BY DEF NamesTyped, Holding, Waiting
<1>2. \A v \in Extractors : HandSound(v)'
  BY DEF NamesTyped, HandSound, InTransaction, AllInserted, FreeHand, Stopped, Owns
<1>3. NobodyInsertsTwice'
  BY DEF NamesTyped, HandSound, NobodyInsertsTwice, InTransaction, FreeHand, Stopped
<1>4. \A b \in Passages : MentionsSound(b)'
  BY DEF NamesTyped, MentionsSound, NamesIn, Waiting, Holding
<1> QED BY <1>1, <1>2, <1>3, <1>4

LEMMA BreakCircleKeeps ==
  ASSUME NamesInv, NEW t, BreakCircle(t)
  PROVE  NamesInv'
<1> USE NamesAssumption DEF NamesInv, BreakCircle
<1>1. NamesTyped'
  BY DEF NamesTyped, Holding, Waiting
<1>5. PICK first :
        /\ hand' = [w \in Extractors |-> IF w = t THEN Stopped
                                         ELSE IF w = first THEN Inserted(w) ELSE hand[w]]
        /\ first = t \/ (first \in Extractors /\ hand[first].at = "inserting"
                          /\ Inserting(first) = {t})
  OBVIOUS
<1>6. \A v \in Extractors : v # t /\ v # first => hand'[v] = hand[v]
  BY <1>5
<1>7. t \in Extractors => hand'[t] = Stopped
  BY <1>5
<1>8. ASSUME first # t, first \in Extractors
      PROVE  /\ hand'[first] = Inserted(first) /\ ~AllInserted(first) /\ t \in Extractors
             /\ \A v \in Extractors \ {first, t} : NextName(first) \notin hand[v].inserted
  <2>1. Inserting(first) = {t}
    BY <1>5, <1>8
  <2>2. t \in Inserting(first) /\ \A v \in Extractors \ {first, t} : v \notin Inserting(first)
    BY <2>1
  <2>3. ~AllInserted(first) /\ t \in Extractors /\ hand[first].at = "inserting"
    BY <2>2 DEF Inserting
  <2> QED BY <1>5, <1>8, <2>2, <2>3 DEF Inserting
<1>2. \A v \in Extractors : HandSound(v)'
  <2> SUFFICES ASSUME NEW v \in Extractors PROVE HandSound(v)'
    OBVIOUS
  <2>1. CASE v = t
    BY <1>7, <2>1, RestIsSound
  <2>2. CASE v # t /\ v = first
    BY <1>5, <1>8, <2>2, InsertedIsSound
  <2>3. CASE v # t /\ v # first
    <3>1. InTransaction(v) => hand[v].chunk \in here'
      BY DEF HandSound
    <3> QED BY <1>6, <2>3, <3>1, OthersStaySound
  <2> QED BY <2>1, <2>2, <2>3
<1>3. NobodyInsertsTwice'
  <2>1. \A v \in Extractors : v # first => hand'[v].inserted \subseteq hand[v].inserted
    BY <1>6, <1>7 DEF Stopped, FreeHand
  <2>2. t \in Extractors => hand'[t].inserted = {}
    BY <1>7 DEF Stopped, FreeHand
  <2>3. ASSUME first # t, first \in Extractors, NEW v \in Extractors \ {first}
        PROVE  /\ hand'[v].inserted \cap hand'[first].inserted = {}
               /\ hand'[first].inserted \cap hand'[v].inserted = {}
    <3>1. NextName(first) \notin hand'[v].inserted
      BY <1>6, <1>8, <2>2, <2>3
    <3> QED BY <1>8, <2>1, <2>3, <3>1, InsertedIsApart
  <2>4. ASSUME NEW w \in Extractors, NEW v \in Extractors \ {w}
        PROVE  hand'[v].inserted \cap hand'[w].inserted = {}
    <3>1. CASE first # t /\ w = first
      BY <2>3, <3>1
    <3>2. CASE first # t /\ v = first
      BY <2>3, <3>2
    <3>3. CASE first = t \/ (w # first /\ v # first)
      <4>1. /\ hand'[v].inserted \subseteq hand[v].inserted
            /\ hand'[w].inserted \subseteq hand[w].inserted
        BY <2>1, <2>2, <3>3
      <4>2. hand[v].inserted \cap hand[w].inserted = {}
        BY DEF NobodyInsertsTwice
      <4> QED BY <4>1, <4>2
    <3> QED BY <3>1, <3>2, <3>3
  <2> QED BY <2>4 DEF NobodyInsertsTwice
<1>4. \A b \in Passages : MentionsSound(b)'
  BY DEF NamesTyped, MentionsSound, NamesIn, Waiting, Holding
<1> QED BY <1>1, <1>2, <1>3, <1>4

LEMMA DeleteChunkKeeps ==
  ASSUME NamesInv, NEW c \in Passages, DeleteChunk(c)
  PROVE  NamesInv'
<1> USE NamesAssumption DEF NamesInv, DeleteChunk
<1>1. NamesTyped'
  BY DEF NamesTyped, Holding, Waiting
<1>2. \A v \in Extractors : HandSound(v)'
  BY DEF NamesTyped, HandSound, InTransaction, AllInserted, FreeHand, Stopped, Owns
<1>3. NobodyInsertsTwice'
  BY DEF NamesTyped, HandSound, NobodyInsertsTwice, InTransaction, FreeHand, Stopped
<1>4. \A b \in Passages : MentionsSound(b)'
  BY DEF NamesTyped, MentionsSound, NamesIn, Waiting, Holding
<1> QED BY <1>1, <1>2, <1>3, <1>4

LEMMA CommitDeletionKeeps ==
  ASSUME NamesInv, NEW c \in Passages, CommitDeletion(c)
  PROVE  NamesInv'
<1> USE NamesAssumption DEF NamesInv, CommitDeletion
<1>1. NamesTyped'
  BY DEF NamesTyped, Holding, Waiting
<1>2. \A v \in Extractors : HandSound(v)'
  <2> SUFFICES ASSUME NEW v \in Extractors PROVE HandSound(v)'
    OBVIOUS
  <2>1. InTransaction(v) => hand[v].chunk \in here'
    BY DEF JobLocked, HandSound
  <2> QED BY <2>1, OthersStaySound
<1>3. NobodyInsertsTwice'
  BY DEF NamesTyped, HandSound, NobodyInsertsTwice, InTransaction, FreeHand, Stopped
<1>4. \A b \in Passages : MentionsSound(b)'
  BY DEF NamesTyped, MentionsSound, NamesIn, Waiting, Holding
<1> QED BY <1>1, <1>2, <1>3, <1>4

LEMMA PassLeaseKeeps ==
  ASSUME NamesInv, NEW c \in Passages, PassLease(c)
  PROVE  NamesInv'
<1> USE NamesAssumption DEF NamesInv, PassLease
<1>1. NamesTyped'
  <2>1. row[c] \in Holding
    BY DEF NamesTyped
  <2>2. [row[c] EXCEPT !.expired = TRUE] \in Holding
    BY <2>1 DEF Holding
  <2>3. row' \in [Passages -> Holding]
    BY <2>2 DEF NamesTyped
  <2> QED BY <2>3 DEF NamesTyped
<1>2. \A v \in Extractors : HandSound(v)'
  BY DEF NamesTyped, HandSound, InTransaction, AllInserted, FreeHand, Stopped, Owns
<1>3. NobodyInsertsTwice'
  BY DEF NamesTyped, HandSound, NobodyInsertsTwice, InTransaction, FreeHand, Stopped
<1>4. \A b \in Passages : MentionsSound(b)'
  BY DEF NamesTyped, MentionsSound, NamesIn, Waiting, Holding
<1> QED BY <1>1, <1>2, <1>3, <1>4

LEMMA NoNamesKeep ==
  ASSUME NamesInv, UNCHANGED nameVars
  PROVE  NamesInv'
<1> USE NamesAssumption DEF NamesInv, nameVars
<1>1. NamesTyped'
  BY DEF NamesTyped, Holding, Waiting
<1>2. \A v \in Extractors : HandSound(v)'
  BY DEF NamesTyped, HandSound, InTransaction, AllInserted, FreeHand, Stopped, Owns
<1>3. NobodyInsertsTwice'
  BY DEF NamesTyped, HandSound, NobodyInsertsTwice, InTransaction, FreeHand, Stopped
<1>4. \A b \in Passages : MentionsSound(b)'
  BY DEF NamesTyped, MentionsSound, NamesIn, Waiting, Holding
<1> QED BY <1>1, <1>2, <1>3, <1>4

LEMMA NamesInvariant == NamesSpec => []NamesInv
<1>1. NamesInv /\ [NamesStep]_nameVars => NamesInv'
  <2> SUFFICES ASSUME NamesInv, [NamesStep]_nameVars PROVE NamesInv'
    OBVIOUS
  <2>1. ASSUME NEW w \in Extractors, ExtractorStep(w) PROVE NamesInv'
    <3>1. CASE RecoverRows(w) \/ ClaimRow(w) \/ FindNone(w)
      BY <3>1, RecoverRowsKeeps, ClaimRowKeeps, FindNoneKeeps
    <3>2. CASE GiveUp(w) \/ MarkFailed(w) \/ BeginFinish(w)
      BY <3>2, GiveUpKeeps, MarkFailedKeeps, BeginFinishKeeps
    <3>3. CASE Insert(w) \/ Link(w) \/ CommitFinish(w)
      BY <3>3, InsertKeeps, LinkKeeps, CommitFinishKeeps
    <3>4. CASE Reject(w) \/ EndProcess(w) \/ StartProcess(w)
      BY <3>4, RejectKeeps, EndProcessKeeps, StartProcessKeeps
    <3> QED BY <2>1, <3>1, <3>2, <3>3, <3>4 DEF ExtractorStep
  <2>2. ASSUME NEW t, BreakCircle(t) PROVE NamesInv'
    BY <2>2, BreakCircleKeeps
  <2>3. ASSUME NEW c \in Passages, DeleteChunk(c) \/ CommitDeletion(c) \/ PassLease(c)
        PROVE  NamesInv'
    BY <2>3, DeleteChunkKeeps, CommitDeletionKeeps, PassLeaseKeeps
  <2>4. CASE UNCHANGED nameVars
    BY <2>4, NoNamesKeep
  <2> QED BY <2>1, <2>2, <2>3, <2>4 DEF NamesStep
<1> QED BY InitNames, <1>1, PTL DEF NamesSpec

(* The names that a finished text needs are stored, or inserted in the     *)
(* transaction that links them, whoever met them first and however many    *)
(* transactions that had inserted them were rolled back; none is inserted  *)
(* twice, and committed mentions stay whole until their chunk goes.        *)
THEOREM NamesAreAlwaysThere == NamesSpec => []NamesAreThere
<1> QED BY NamesInvariant, NamesInvSuffices, PTL

--------------------------------------------------------------------------------

(* A set of numbers has a least one, and a greatest one if it is bounded.  *)
LEMMA Least ==
  ASSUME NEW S \in SUBSET Nat, S # {}
  PROVE  Min(S) \in S /\ \A n \in S : Min(S) <= n
<1> DEFINE Less == {p \in Nat \X Nat : p[1] < p[2]}
<1>1. IsWellFoundedOn(Less, Nat)
  BY NatLessThanWellFounded DEF OpToRel
<1>2. PICK x \in S : \A y \in S : ~(<<y, x>> \in Less)
  <2> HIDE DEF Less
  <2> QED BY <1>1, WFMin
<1>3. \A y, z \in Nat : y < z => <<y, z>> \in Less
  OBVIOUS
<1> HIDE DEF Less
<1>4. ASSUME NEW y \in S PROVE x <= y
  <2>1. x \in Nat /\ y \in Nat
    OBVIOUS
  <2>2. ~(y < x)
    BY <1>2, <1>3, <2>1, Zenon
  <2> QED BY <2>1, <2>2
<1> QED BY <1>4 DEF Min

LEMMA Greatest ==
  ASSUME NEW S \in SUBSET Nat, S # {}, NEW b \in Nat, \A n \in S : n <= b
  PROVE  Max(S) \in S /\ \A n \in S : n <= Max(S)
<1> DEFINE Above == {m \in Nat : \A n \in S : n <= m}
<1>1. Above \in SUBSET Nat /\ b \in Above
  OBVIOUS
<1>2. PICK m \in Above : \A k \in Above : m <= k
  BY <1>1, Least
<1>3. m \in S
  <2>1. CASE m = 0
    <3>1. \A n \in S : n = 0
      BY <2>1, <1>2
    <3> QED BY <3>1, <2>1
  <2>2. CASE m # 0 /\ m \notin S
    <3>1. m - 1 \in Above
      BY <2>2, <1>2
    <3> QED BY <3>1, <1>2
  <2> QED BY <2>1, <2>2
<1> QED BY <1>2, <1>3 DEF Max
-----------------------------------------------------------------------------

LinkerState == [stage : {"idle", "read", "joined"}, event : Events \cup {NoEvent},
                org : Owners, number : Nat, into : Nat, day : Nat]

(* An assignment under way is of a legacy source and changes only what     *)
(* comes from it.                                                          *)
MovesAreLegacy ==
  /\ DOMAIN move = Sources
  /\ \A s \in Sources :
       /\ move[s].emptied \subseteq Nat /\ DOMAIN move[s].days \subseteq Nat
       /\ \A c \in DOMAIN move[s].days : move[s].days[c] \in Nat
       /\ move[s] # NoMove => owner[s] = Legacy /\ move[s].org \in Orgs

RemovalsAreLive ==
  /\ removal \in [Events -> [active : BOOLEAN, emptied : SUBSET Nat]]
  /\ \A e \in Events : removal[e].active => event[e] = "live"

(* What a linker read of its event stays true: it holds the event, and a   *)
(* source that has an organization keeps it.                               *)
LinkersKnowOwners ==
  \A l \in Linkers : linker[l].stage # "idle" =>
    /\ linker[l].event \in Events
    /\ event[linker[l].event] = "live" /\ ~removal[linker[l].event].active
    /\ linker[l].org # Legacy => owner[SourceOf[linker[l].event]] = linker[l].org

(* A number that a linker drew is no cluster yet, and no other linker's.   *)
NumbersAreNew ==
  /\ \A l \in Linkers : linker[l].stage = "idle" <=> linker[l].number = NoCluster
  /\ \A l \in Linkers : linker[l].number \notin Clusters
  /\ \A l, m \in Linkers :
       l # m /\ linker[l].number = linker[m].number => linker[l].number = NoCluster

(* The cluster that a linker joins is new, or locked and of its            *)
(* organization.                                                           *)
JoinedStays ==
  \A l \in Linkers : linker[l].stage = "joined" =>
    \/ linker[l].into = linker[l].number
    \/ linker[l].into \in Clusters /\ cluster[linker[l].into].org = linker[l].org

Numbers == Known \cup {linker[l].into : l \in Linkers}
Bounded == \E b \in Nat : \A n \in Numbers : n <= b

IInv ==
  /\ TypeOK /\ MovesAreLegacy /\ RemovalsAreLive /\ LinkersKnowOwners
  /\ NumbersAreNew /\ JoinedStays /\ Bounded /\ OrganizationsApart

LEMMA InitLinking == Init => IInv
<1> SUFFICES ASSUME Init PROVE IInv
  OBVIOUS
<1>1. Clusters = {}
  BY DEF Init, Clusters
<1>2. /\ Idle \in LinkerState /\ Idle.stage = "idle"
      /\ Idle.number = NoCluster /\ Idle.into = NoCluster
  BY DEF Idle, LinkerState, Owners, NoCluster, NoDay
<1>3. TypeOK
  <2>1. linker \in [Linkers -> LinkerState]
    BY <1>2 DEF Init
  <2>2. cluster \in [Clusters -> [org : Owners, day : Nat]]
    BY <1>1 DEF Init, Clusters
  <2>3. disruptions \in 0..MaxDisruptions
    BY ConstantsAssumption DEF Init
  <2> QED BY <1>1, <2>1, <2>2, <2>3 DEF Init, TypeOK, LinkerState, NoCluster, NoDay
<1>4. MovesAreLegacy
  BY DEF Init, MovesAreLegacy, NoMove
<1>5. RemovalsAreLive
  BY DEF Init, RemovalsAreLive, NoRemoval
<1>6. LinkersKnowOwners /\ NumbersAreNew /\ JoinedStays
  BY <1>1, <1>2 DEF Init, LinkersKnowOwners, NumbersAreNew, JoinedStays
<1>7. \A n \in Numbers : n <= 0
  BY <1>1, <1>2 DEF Init, Numbers, Known, NoMove, NoRemoval, NoCluster
<1>8. OrganizationsApart
  BY DEF Init, OrganizationsApart
<1> QED BY <1>3, <1>4, <1>5, <1>6, <1>7, <1>8 DEF IInv, Bounded

-----------------------------------------------------------------------------

LEMMA NumbersAreNaturals ==
  ASSUME TypeOK, MovesAreLegacy, RemovalsAreLive
  PROVE  Numbers \in SUBSET Nat
<1>1. Clusters \subseteq Nat
  BY DEF TypeOK
<1>2. \A l \in Linkers : linker[l].number \in Nat /\ linker[l].into \in Nat
  BY DEF TypeOK
<1>3. \A s \in Sources : move[s].emptied \subseteq Nat /\ DOMAIN move[s].days \subseteq Nat
  BY DEF MovesAreLegacy
<1>4. \A e \in Events : removal[e].emptied \subseteq Nat
  BY DEF RemovalsAreLive
<1> QED BY <1>1, <1>2, <1>3, <1>4 DEF Numbers, Known

(* The next number is greater than every number that is known.             *)
LEMMA NextNumber ==
  ASSUME IInv
  PROVE  Number \in Nat /\ Number # NoCluster /\ \A n \in Known : n < Number
<1> DEFINE S == Known \cup {0}
<1>1. S \in SUBSET Nat
  BY NumbersAreNaturals DEF IInv, Numbers
<1>2. PICK b \in Nat : \A n \in Numbers : n <= b
  BY DEF IInv, Bounded
<1>3. \A n \in S : n <= b
  BY <1>2 DEF Numbers
<1> HIDE DEF S
<1>4. S # {}
  BY DEF S
<1>5. Max(S) \in S /\ \A n \in S : n <= Max(S)
  BY <1>1, <1>2, <1>3, <1>4, Greatest
<1>6. Number = 1 + Max(S) /\ Max(S) \in Nat
  BY <1>1, <1>5 DEF Number, S
<1> QED BY <1>1, <1>5, <1>6 DEF S, NoCluster

LEMMA DaysAreNumbers ==
  ASSUME TypeOK, NEW E \in SUBSET Events
  PROVE  Earliest(E) \in Nat
<1> DEFINE known == {day[e] : e \in E} \ {NoDay}
<1>1. known \in SUBSET Nat
  BY DEF TypeOK
<1>2. Earliest(E) = IF known = {} THEN NoDay ELSE Min(known)
  BY DEF Earliest
<1> HIDE DEF known
<1>3. CASE known = {}
  BY <1>2, <1>3 DEF NoDay
<1>4. CASE known # {}
  <2>1. Min(known) \in known
    BY <1>1, <1>4, Least
  <2> QED BY <1>1, <1>2, <1>4, <2>1
<1> QED BY <1>3, <1>4

LEMMA ExtractKeeps ==
  ASSUME IInv, NEW e \in Events, Extract(e)
  PROVE  IInv'
<1>1. TypeOK'
  <2>1. PICK d \in DaysOf[e] : day' = [day EXCEPT ![e] = d]
    BY DEF Extract
  <2>2. d \in Nat
    BY ConstantsAssumption
  <2> QED BY <2>1, <2>2 DEF IInv, TypeOK, Extract, Clusters
<1>2. MovesAreLegacy'
  BY DEF IInv, Extract, MovesAreLegacy
<1>3. RemovalsAreLive'
  BY DEF IInv, Extract, RemovalsAreLive, TypeOK
<1>4. LinkersKnowOwners'
  BY DEF IInv, Extract, LinkersKnowOwners, TypeOK
<1>5. NumbersAreNew' /\ JoinedStays' /\ Bounded' /\ OrganizationsApart'
  BY DEF IInv, Extract, NumbersAreNew, JoinedStays, Bounded, Numbers, Known,
         OrganizationsApart, Clusters
<1> QED BY <1>1, <1>2, <1>3, <1>4, <1>5 DEF IInv

(* What an ended transaction of a linker leaves.                           *)
LEMMA IdleLinker ==
  /\ Idle \in LinkerState
  /\ Idle.stage = "idle" /\ Idle.number = NoCluster /\ Idle.into = NoCluster
  BY DEF Idle, LinkerState, Owners, NoCluster, NoDay

LEMMA ReleasedKeys ==
  ASSUME TypeOK, NEW l
  PROVE  Released(l) \in [Owners -> Linkers \cup {Free}]
  BY DEF TypeOK, Released

LEMMA ReadEventKeeps ==
  ASSUME IInv, NEW l \in Linkers, NEW e \in Events, ReadEvent(l, e)
  PROVE  IInv'
<1> DEFINE x == [Idle EXCEPT !.stage = "read", !.event = e,
                             !.org = owner[SourceOf[e]], !.number = Number]
<1>1. linker' = [linker EXCEPT ![l] = x]
  BY DEF ReadEvent
<1>2. owner[SourceOf[e]] \in Owners
  BY ConstantsAssumption DEF IInv, TypeOK
<1>3. /\ x \in LinkerState /\ x.stage = "read" /\ x.event = e
      /\ x.org = owner[SourceOf[e]] /\ x.number = Number /\ x.into = NoCluster
  BY <1>2, NextNumber DEF Idle, LinkerState, NoDay, NoCluster
<1>4. UNCHANGED <<rows, key, move, removal, disruptions>>
  BY DEF ReadEvent
<1>5. Clusters' = Clusters
  BY <1>4 DEF rows, Clusters
<1>6. linker \in [Linkers -> LinkerState]
  BY DEF IInv, TypeOK, LinkerState
<1> HIDE DEF x
<1>7. TypeOK'
  BY <1>1, <1>3, <1>4, <1>5, <1>6 DEF IInv, TypeOK, LinkerState, rows
<1>8. MovesAreLegacy' /\ RemovalsAreLive' /\ OrganizationsApart'
  BY <1>4 DEF IInv, MovesAreLegacy, RemovalsAreLive, OrganizationsApart, rows
<1>9. LinkersKnowOwners'
  <2>1. event[e] = "live" /\ ~removal[e].active
    BY DEF ReadEvent, EventLocked
  <2> QED BY <1>1, <1>3, <1>4, <1>6, <2>1 DEF IInv, LinkersKnowOwners, rows
<1>10. NumbersAreNew'
  <2>1. Number \notin Clusters /\ Number # NoCluster
        /\ \A m \in Linkers : linker[m].number # Number
    BY NextNumber, <1>6 DEF Known, LinkerState, IInv, TypeOK
  <2> QED BY <1>1, <1>3, <1>5, <1>6, <2>1 DEF IInv, NumbersAreNew
<1>11. JoinedStays'
  BY <1>1, <1>3, <1>4, <1>5, <1>6 DEF IInv, JoinedStays, rows
<1>12. Bounded'
  <2>1. PICK b \in Nat : \A n \in Numbers : n <= b
    BY DEF IInv, Bounded
  <2>2. Numbers' \subseteq Numbers \cup {Number, NoCluster}
    BY <1>1, <1>3, <1>4, <1>5, <1>6 DEF Numbers, Known
  <2>3. CASE Number <= b
    BY <2>1, <2>2, <2>3 DEF Bounded, NoCluster
  <2>4. CASE b < Number
    <3>1. Numbers \subseteq Nat
      BY NumbersAreNaturals DEF IInv
    <3>2. \A n \in Numbers' : n <= Number
      BY <2>1, <2>2, <2>4, <3>1, NextNumber DEF NoCluster
    <3> QED BY <3>2, NextNumber DEF Bounded
  <2> QED BY <2>1, <2>3, <2>4, NextNumber
<1> QED BY <1>7, <1>8, <1>9, <1>10, <1>11, <1>12 DEF IInv

LEMMA StillBounded ==
  ASSUME Bounded, Numbers' \subseteq Numbers \cup {NoCluster}
  PROVE  Bounded'
<1>1. PICK b \in Nat : \A n \in Numbers : n <= b
  BY DEF Bounded
<1>2. \A n \in Numbers' : n <= b
  BY <1>1 DEF NoCluster
<1> QED BY <1>1, <1>2 DEF Bounded

LEMMA JoinKeeps ==
  ASSUME IInv, NEW l \in Linkers, Join(l)
  PROVE  IInv'
<1> DEFINE self == linker[l]
           found == Candidates(self.org, day[self.event])
           into == IF found = {} THEN self.number ELSE Min(found)
           d == Earliest(Members(into) \cup {self.event})
           x == [self EXCEPT !.stage = "joined", !.into = into, !.day = d]
<1>1. linker \in [Linkers -> LinkerState]
  BY DEF IInv, TypeOK, LinkerState
<1>2. self.stage = "read" /\ self \in LinkerState
  BY <1>1 DEF Join
<1>3. self.event \in Events
  BY <1>2 DEF IInv, LinkersKnowOwners
<1>4. found \subseteq {c \in Clusters : cluster[c].org = self.org}
  BY DEF Candidates, Of
<1>5. \/ into = self.number
      \/ into \in Clusters /\ cluster[into].org = self.org
  <2>1. found \in SUBSET Nat
    BY <1>4 DEF IInv, TypeOK
  <2> HIDE DEF found
  <2> QED BY <1>4, <2>1, Least
<1>6. into \in Nat /\ into \in Known
  <2> HIDE DEF into, found
  <2> QED BY <1>1, <1>2, <1>5 DEF LinkerState, IInv, TypeOK, Known
<1>7. d \in Nat
  <2>1. Members(into) \cup {self.event} \in SUBSET Events
    BY <1>3 DEF Members
  <2> QED BY <2>1, DaysAreNumbers DEF IInv
<1>8. linker' = [linker EXCEPT ![l] = x]
  BY <1>1, <1>2 DEF Join, LinkerState
<1> HIDE DEF into, found, d
<1>9. /\ x \in LinkerState /\ x.stage = "joined" /\ x.into = into
      /\ x.event = self.event /\ x.org = self.org /\ x.number = self.number
  BY <1>2, <1>6, <1>7 DEF LinkerState
<1>10. UNCHANGED <<rows, move, removal, disruptions>> /\ key' = [key EXCEPT ![self.org] = l]
  BY DEF Join
<1>11. Clusters' = Clusters
  BY <1>10 DEF rows, Clusters
<1> HIDE DEF x
<1>12. TypeOK'
  BY <1>1, <1>8, <1>9, <1>10, <1>11 DEF IInv, TypeOK, LinkerState, rows
<1>13. MovesAreLegacy' /\ RemovalsAreLive' /\ OrganizationsApart'
  BY <1>10 DEF IInv, MovesAreLegacy, RemovalsAreLive, OrganizationsApart, rows
<1>14. LinkersKnowOwners'
  BY <1>1, <1>2, <1>8, <1>9, <1>10 DEF IInv, LinkersKnowOwners, rows
<1>15. NumbersAreNew'
  BY <1>1, <1>2, <1>8, <1>9, <1>11 DEF IInv, NumbersAreNew
<1>16. JoinedStays'
  BY <1>1, <1>5, <1>8, <1>9, <1>10, <1>11 DEF IInv, JoinedStays, rows
<1>17. Bounded'
  <2>1. Numbers' \subseteq Numbers
    BY <1>1, <1>6, <1>8, <1>9, <1>10, <1>11 DEF Numbers, Known
  <2> QED BY <2>1, StillBounded DEF IInv
<1> QED BY <1>12, <1>13, <1>14, <1>15, <1>16, <1>17 DEF IInv

LEMMA LinkFailsKeeps ==
  ASSUME IInv, NEW l \in Linkers, LinkFails(l)
  PROVE  IInv'
<1>1. /\ linker \in [Linkers -> LinkerState] /\ linker' = [linker EXCEPT ![l] = Idle]
      /\ UNCHANGED <<rows, move, removal>> /\ key' = Released(l)
  BY DEF IInv, TypeOK, LinkerState, LinkFails
<1>2. Clusters' = Clusters
  BY <1>1 DEF rows, Clusters
<1>3. disruptions' \in 0..MaxDisruptions
  BY ConstantsAssumption DEF LinkFails, Disrupt, IInv, TypeOK
<1>4. TypeOK'
  BY <1>1, <1>2, <1>3, IdleLinker, ReleasedKeys DEF IInv, TypeOK, LinkerState, rows
<1>5. MovesAreLegacy' /\ RemovalsAreLive' /\ OrganizationsApart'
  BY <1>1 DEF IInv, MovesAreLegacy, RemovalsAreLive, OrganizationsApart, rows
<1>6. LinkersKnowOwners' /\ JoinedStays'
  BY <1>1, <1>2, IdleLinker DEF IInv, LinkersKnowOwners, JoinedStays, rows
<1>7. NumbersAreNew'
  BY <1>1, <1>2, IdleLinker DEF IInv, NumbersAreNew, TypeOK
<1>8. Numbers' \subseteq Numbers \cup {NoCluster}
  BY <1>1, <1>2, IdleLinker DEF Numbers, Known
<1> QED BY <1>4, <1>5, <1>6, <1>7, <1>8, StillBounded DEF IInv

LEMMA CommitKeeps ==
  ASSUME IInv, NEW l \in Linkers, Commit(l)
  PROVE  IInv'
<1> DEFINE self == linker[l]
           made == [org |-> self.org, day |-> self.day]
<1>1. /\ linker \in [Linkers -> LinkerState] /\ linker' = [linker EXCEPT ![l] = Idle]
      /\ member' = [member EXCEPT ![self.event] = self.into]
      /\ key' = Released(l)
      /\ UNCHANGED <<owner, event, day, move, removal, disruptions>>
  BY DEF IInv, TypeOK, LinkerState, Commit
<1>2. /\ self \in LinkerState /\ self.stage = "joined" /\ self.event \in Events
      /\ event[self.event] = "live" /\ self.number # NoCluster
      /\ self.org # Legacy => owner[SourceOf[self.event]] = self.org
  BY <1>1 DEF Commit, IInv, LinkersKnowOwners, NumbersAreNew
<1>3. \/ self.into = self.number
      \/ self.into \in Clusters /\ cluster[self.into].org = self.org
  BY <1>2 DEF IInv, JoinedStays
<1>4. self.into \in Nat \ {NoCluster} /\ made \in [org : Owners, day : Nat]
  BY <1>2, <1>3 DEF IInv, TypeOK, LinkerState
<1>5. /\ Clusters' = Clusters \cup {self.into}
      /\ cluster' = [c \in Clusters' |-> IF c = self.into THEN made ELSE cluster[c]]
  BY DEF Commit, Clusters
<1>6. \A c \in Clusters : cluster'[c].org = cluster[c].org
  BY <1>3, <1>5 DEF IInv, NumbersAreNew
<1>7. TypeOK'
  <2>1. cluster' \in [Clusters' -> [org : Owners, day : Nat]]
    BY <1>4, <1>5 DEF IInv, TypeOK
  <2>2. member' \in [Events -> Clusters' \cup {NoCluster}]
    BY <1>1, <1>2, <1>5 DEF IInv, TypeOK
  <2>3. linker' \in [Linkers -> LinkerState]
    BY <1>1, IdleLinker
  <2>4. key' \in [Owners -> Linkers \cup {Free}]
    BY <1>1, ReleasedKeys DEF IInv
  <2>5. \A e \in Events : member'[e] # NoCluster => event[e] = "live"
    BY <1>1, <1>2 DEF IInv, TypeOK
  <2>6. Clusters' \subseteq Nat \ {NoCluster}
    BY <1>4, <1>5 DEF IInv, TypeOK
  <2> QED BY <1>1, <2>1, <2>2, <2>3, <2>4, <2>5, <2>6 DEF IInv, TypeOK, LinkerState
<1>8. MovesAreLegacy' /\ RemovalsAreLive' /\ LinkersKnowOwners'
  BY <1>1, IdleLinker DEF IInv, MovesAreLegacy, RemovalsAreLive, LinkersKnowOwners
<1>9. NumbersAreNew'
  <2>1. \A m \in Linkers \ {l} : linker[m].number # self.into
    BY <1>2, <1>3 DEF IInv, NumbersAreNew
  <2>2. linker'[l].number = NoCluster /\ NoCluster \notin Clusters'
    BY <1>1, <1>7, IdleLinker DEF TypeOK
  <2>3. \A m \in Linkers \ {l} : linker'[m] = linker[m]
    BY <1>1
  <2>4. \A m \in Linkers : linker'[m].number \notin Clusters'
    BY <1>5, <2>1, <2>2, <2>3 DEF IInv, NumbersAreNew
  <2>5. linker'[l].stage = "idle"
    BY <1>1, IdleLinker
  <2> QED BY <2>2, <2>3, <2>4, <2>5 DEF IInv, NumbersAreNew
<1>10. JoinedStays'
  BY <1>1, <1>5, <1>6, IdleLinker DEF IInv, JoinedStays
<1>11. Bounded'
  <2>1. Numbers' \subseteq Numbers \cup {NoCluster}
    BY <1>1, <1>5, IdleLinker DEF Numbers, Known
  <2> QED BY <2>1, StillBounded DEF IInv
<1>12. OrganizationsApart'
  <2> SUFFICES ASSUME NEW e \in Events, member'[e] # NoCluster,
                      cluster'[member'[e]].org # Legacy
               PROVE  cluster'[member'[e]].org = owner[SourceOf[e]]
    BY <1>1 DEF OrganizationsApart
  <2>1. CASE e = self.event
    <3>1. member'[e] = self.into
      BY <1>1, <2>1 DEF IInv, TypeOK
    <3>2. cluster'[self.into].org = self.org
      BY <1>5
    <3> QED BY <1>2, <2>1, <3>1, <3>2
  <2>2. CASE e # self.event
    <3>1. member'[e] = member[e] /\ member[e] \in Clusters
      BY <1>1, <2>2 DEF IInv, TypeOK
    <3> QED BY <1>6, <3>1 DEF IInv, OrganizationsApart
  <2> QED BY <2>1, <2>2
<1> QED BY <1>7, <1>8, <1>9, <1>10, <1>11, <1>12 DEF IInv

LEMMA BeginMoveKeeps ==
  ASSUME IInv, NEW s \in Sources, NEW o \in Orgs, BeginMove(s, o)
  PROVE  IInv'
<1> DEFINE T == {e \in Events : SourceOf[e] = s /\ event[e] = "live" /\ member[e] # NoCluster}
           E == IF \E e \in Events : SourceOf[e] = s /\ event[e] = "live"
                THEN Without(T) ELSE {}
           D == {c \in {member[e] : e \in T} \ E :
                   Earliest(Members(c) \ T) # cluster[c].day}
<1>1. /\ move' = [move EXCEPT ![s] = [org |-> o, taken |-> T, emptied |-> E,
                    days |-> [c \in D |-> Earliest(Members(c) \ T)]]]
      /\ E \subseteq Clusters /\ D \subseteq Clusters
  BY DEF BeginMove, Without, IInv, TypeOK
<1> HIDE DEF T, E, D
<1>2. /\ UNCHANGED <<rows, key, linker, removal, disruptions>>
      /\ owner[s] = Legacy
  BY DEF BeginMove
<1>3. Clusters' = Clusters
  BY <1>2 DEF rows, Clusters
<1>4. \A c \in D : Earliest(Members(c) \ T) \in Nat
  <2> TAKE c \in D
  <2>1. Members(c) \ T \in SUBSET Events
    BY DEF Members
  <2> QED BY <2>1, DaysAreNumbers DEF IInv
<1>5. MovesAreLegacy'
  <2>1. DOMAIN move' = Sources
    BY <1>1 DEF IInv, MovesAreLegacy
  <2>2. /\ move'[s].emptied = E /\ DOMAIN move'[s].days = D /\ move'[s].org = o
        /\ \A c \in D : move'[s].days[c] \in Nat
    BY <1>1, <1>4 DEF IInv, MovesAreLegacy
  <2>3. \A r \in Sources \ {s} : move'[r] = move[r]
    BY <1>1 DEF IInv, MovesAreLegacy
  <2>4. E \subseteq Nat /\ D \subseteq Nat
    BY <1>1 DEF IInv, TypeOK
  <2> QED BY <1>2, <2>1, <2>2, <2>3, <2>4 DEF IInv, MovesAreLegacy, rows
<1>6. TypeOK'
  BY <1>2, <1>3 DEF IInv, TypeOK, rows
<1>7. /\ RemovalsAreLive' /\ LinkersKnowOwners' /\ NumbersAreNew' /\ JoinedStays'
      /\ OrganizationsApart'
  BY <1>2, <1>3 DEF IInv, RemovalsAreLive, LinkersKnowOwners, NumbersAreNew, JoinedStays,
                    OrganizationsApart, rows
<1>8. Numbers' \subseteq Numbers
  <2>1. \A r \in Sources : move'[r].emptied \cup DOMAIN move'[r].days
                           \subseteq move[r].emptied \cup DOMAIN move[r].days \cup Clusters
    BY <1>1 DEF IInv, MovesAreLegacy
  <2> QED BY <1>2, <1>3, <2>1 DEF Numbers, Known
<1> QED BY <1>5, <1>6, <1>7, <1>8, StillBounded DEF IInv

(* A cluster that a linker joined is locked, so no commit of another       *)
(* transaction takes it away.                                              *)
LEMMA JoinedIsLocked ==
  ASSUME IInv, NEW l \in Linkers, linker[l].stage = "joined",
         linker[l].into # linker[l].number
  PROVE  linker[l].into \in Clusters /\ Locked(linker[l].into)
  BY DEF IInv, JoinedStays, Locked

LEMMA CommitMoveKeeps ==
  ASSUME IInv, NEW s \in Sources, CommitMove(s)
  PROVE  IInv'
<1> DEFINE gone == move[s].emptied
           changed == DOMAIN move[s].days
           kept(c) == IF c \in changed THEN [cluster[c] EXCEPT !.day = move[s].days[c]]
                      ELSE cluster[c]
<1>1. /\ owner' = [owner EXCEPT ![s] = move[s].org]
      /\ member' = [e \in Events |-> IF e \in move[s].taken \/ member[e] \in gone
                                     THEN NoCluster ELSE member[e]]
      /\ cluster' = [c \in Clusters \ gone |-> kept(c)]
      /\ move' = [move EXCEPT ![s] = NoMove]
      /\ UNCHANGED <<event, day, key, linker, removal, disruptions>>
  BY DEF CommitMove, Deleting
<1>2. owner[s] = Legacy /\ move[s].org \in Orgs
  BY DEF CommitMove, IInv, MovesAreLegacy
<1>3. Clusters' = Clusters \ gone
  BY <1>1 DEF Clusters
<1>4. \A c \in Clusters' :
        cluster'[c] \in [org : Owners, day : Nat] /\ cluster'[c].org = cluster[c].org
  <2> SUFFICES ASSUME NEW c \in Clusters'
               PROVE  kept(c) \in [org : Owners, day : Nat] /\ kept(c).org = cluster[c].org
    BY <1>1, <1>3
  <2>1. cluster[c] \in [org : Owners, day : Nat]
    BY <1>3 DEF IInv, TypeOK
  <2>2. c \in changed => move[s].days[c] \in Nat
    BY DEF IInv, MovesAreLegacy
  <2> QED BY <2>1, <2>2
<1> HIDE DEF kept
<1>5. TypeOK'
  <2>1. owner' \in [Sources -> Owners]
    BY <1>1, <1>2 DEF IInv, TypeOK, Owners
  <2>2. cluster' \in [Clusters' -> [org : Owners, day : Nat]]
    BY <1>1, <1>3, <1>4
  <2>3. member' \in [Events -> Clusters' \cup {NoCluster}]
    BY <1>1, <1>3 DEF IInv, TypeOK
  <2>4. \A e \in Events : member'[e] # NoCluster => event[e] = "live"
    BY <1>1 DEF IInv, TypeOK
  <2> QED BY <1>1, <1>3, <2>1, <2>2, <2>3, <2>4 DEF IInv, TypeOK
<1>6. MovesAreLegacy'
  <2>1. /\ NoMove.emptied = {} /\ DOMAIN NoMove.days = {} /\ DOMAIN move' = Sources
        /\ move'[s] = NoMove /\ \A r \in Sources \ {s} : move'[r] = move[r] /\ owner'[r] = owner[r]
    BY <1>1 DEF IInv, TypeOK, MovesAreLegacy, NoMove
  <2> QED BY <2>1 DEF IInv, MovesAreLegacy
<1>7. RemovalsAreLive'
  BY <1>1 DEF IInv, RemovalsAreLive
<1>8. LinkersKnowOwners'
  <2>1. \A r \in Sources : owner[r] # Legacy => owner'[r] = owner[r]
    BY <1>1, <1>2 DEF IInv, TypeOK
  <2>2. \A l \in Linkers : linker[l].stage # "idle" => SourceOf[linker[l].event] \in Sources
    BY ConstantsAssumption DEF IInv, LinkersKnowOwners
  <2> QED BY <1>1, <2>1, <2>2 DEF IInv, LinkersKnowOwners
<1>9. NumbersAreNew'
  BY <1>1, <1>3 DEF IInv, NumbersAreNew
<1>10. JoinedStays'
  <2>1. \A c \in Clusters : Locked(c) => c \notin gone
    BY DEF CommitMove
  <2> QED BY <1>1, <1>3, <1>4, <2>1, JoinedIsLocked DEF IInv, JoinedStays
<1>11. Numbers' \subseteq Numbers
  <2>1. \A r \in Sources : move'[r].emptied \cup DOMAIN move'[r].days
                           \subseteq move[r].emptied \cup DOMAIN move[r].days
    BY <1>1 DEF IInv, MovesAreLegacy, NoMove
  <2> QED BY <1>1, <1>3, <2>1 DEF Numbers, Known
<1>12. OrganizationsApart'
  <2> SUFFICES ASSUME NEW e \in Events, member'[e] # NoCluster,
                      cluster'[member'[e]].org # Legacy
               PROVE  cluster'[member'[e]].org = owner'[SourceOf[e]]
    BY DEF OrganizationsApart
  <2>1. member'[e] = member[e] /\ member[e] \in Clusters'
    BY <1>1, <1>5 DEF TypeOK
  <2>2. cluster'[member'[e]].org = cluster[member[e]].org
    BY <1>4, <2>1
  <2>3. cluster[member[e]].org = owner[SourceOf[e]]
    BY <2>1, <2>2 DEF IInv, OrganizationsApart
  <2>4. SourceOf[e] # s
    BY <1>2, <2>2, <2>3
  <2> QED BY <1>1, <2>2, <2>3, <2>4, ConstantsAssumption DEF IInv, TypeOK
<1> QED BY <1>5, <1>6, <1>7, <1>8, <1>9, <1>10, <1>11, <1>12, StillBounded DEF IInv

LEMMA MoveFailsKeeps ==
  ASSUME IInv, NEW s \in Sources, MoveFails(s)
  PROVE  IInv'
<1>1. UNCHANGED <<rows, key, linker, removal>> /\ move' = [move EXCEPT ![s] = NoMove]
  BY DEF MoveFails
<1>2. disruptions' \in 0..MaxDisruptions
  BY ConstantsAssumption DEF MoveFails, Disrupt, Calm, IInv, TypeOK
<1>3. Clusters' = Clusters
  BY <1>1 DEF rows, Clusters
<1>4. /\ NoMove.emptied = {} /\ DOMAIN NoMove.days = {} /\ DOMAIN move' = Sources
      /\ move'[s] = NoMove /\ \A r \in Sources \ {s} : move'[r] = move[r]
  BY <1>1 DEF IInv, MovesAreLegacy, NoMove
<1>5. TypeOK'
  BY <1>1, <1>2, <1>3 DEF IInv, TypeOK, rows
<1>6. MovesAreLegacy'
  BY <1>1, <1>4 DEF IInv, MovesAreLegacy, rows
<1>7. /\ RemovalsAreLive' /\ LinkersKnowOwners' /\ NumbersAreNew' /\ JoinedStays'
      /\ OrganizationsApart'
  BY <1>1, <1>3 DEF IInv, RemovalsAreLive, LinkersKnowOwners, NumbersAreNew, JoinedStays,
                    OrganizationsApart, rows
<1>8. Numbers' \subseteq Numbers
  <2>1. \A r \in Sources : move'[r].emptied \cup DOMAIN move'[r].days
                           \subseteq move[r].emptied \cup DOMAIN move[r].days
    BY <1>4
  <2> QED BY <1>1, <1>3, <2>1 DEF Numbers, Known
<1> QED BY <1>5, <1>6, <1>7, <1>8, StillBounded DEF IInv

LEMMA BeginRemovalKeeps ==
  ASSUME IInv, NEW e \in Events, BeginRemoval(e)
  PROVE  IInv'
<1>1. /\ removal' = [removal EXCEPT ![e] = [active |-> TRUE, emptied |-> Without({e})]]
      /\ UNCHANGED <<rows, key, linker, move, disruptions>>
      /\ event[e] = "live" /\ ~EventLocked(e)
  BY DEF BeginRemoval
<1>2. Clusters' = Clusters
  BY <1>1 DEF rows, Clusters
<1>3. Without({e}) \subseteq Clusters /\ Clusters \subseteq Nat
  BY DEF Without, IInv, TypeOK
<1>4. TypeOK'
  BY <1>1, <1>2 DEF IInv, TypeOK, rows
<1>5. RemovalsAreLive'
  BY <1>1, <1>3 DEF IInv, RemovalsAreLive, rows
<1>6. LinkersKnowOwners'
  <2>1. \A l \in Linkers : linker[l].event # e
    BY <1>1 DEF EventLocked
  <2> QED BY <1>1, <2>1 DEF IInv, RemovalsAreLive, LinkersKnowOwners, rows
<1>7. MovesAreLegacy' /\ NumbersAreNew' /\ JoinedStays' /\ OrganizationsApart'
  BY <1>1, <1>2 DEF IInv, MovesAreLegacy, NumbersAreNew, JoinedStays, OrganizationsApart, rows
<1>8. Numbers' \subseteq Numbers
  <2>1. \A f \in Events : removal'[f].emptied \subseteq removal[f].emptied \cup Clusters
    BY <1>1, <1>3 DEF IInv, RemovalsAreLive
  <2>2. UNION {removal'[f].emptied : f \in Events}
          \subseteq Clusters \cup (UNION {removal[f].emptied : f \in Events})
    BY <2>1
  <2>3. linker' = linker /\ move' = move
    BY <1>1
  <2>4. Known' \subseteq Known
    BY <1>2, <2>2, <2>3 DEF Known
  <2> QED BY <2>3, <2>4 DEF Numbers
<1> QED BY <1>4, <1>5, <1>6, <1>7, <1>8, StillBounded DEF IInv

LEMMA CommitRemovalKeeps ==
  ASSUME IInv, NEW e \in Events, CommitRemoval(e)
  PROVE  IInv'
<1> DEFINE gone == removal[e].emptied
<1>1. /\ event' = [event EXCEPT ![e] = "gone"]
      /\ day' = [day EXCEPT ![e] = NoDay]
      /\ member' = [f \in Events |-> IF f \in {e} \/ member[f] \in gone
                                     THEN NoCluster ELSE member[f]]
      /\ cluster' = [c \in Clusters \ gone |-> cluster[c]]
      /\ removal' = [removal EXCEPT ![e] = NoRemoval]
      /\ UNCHANGED <<owner, key, linker, move, disruptions>>
  BY DEF CommitRemoval, Deleting, Restrict, Clusters
<1>2. Clusters' = Clusters \ gone /\ \A c \in Clusters' : cluster'[c] = cluster[c]
  BY <1>1 DEF Clusters
<1>3. removal[e].active /\ \A c \in Clusters : Locked(c) => c \notin gone
  BY DEF CommitRemoval
<1>4. TypeOK'
  <2>1. event' \in [Events -> {"new", "live", "gone"}] /\ day' \in [Events -> Nat]
    BY <1>1 DEF IInv, TypeOK, NoDay
  <2>2. cluster' \in [Clusters' -> [org : Owners, day : Nat]]
    BY <1>1, <1>2 DEF IInv, TypeOK
  <2>3. member' \in [Events -> Clusters' \cup {NoCluster}]
    BY <1>1, <1>2 DEF IInv, TypeOK
  <2>4. \A f \in Events : member'[f] # NoCluster => event'[f] = "live"
    BY <1>1 DEF IInv, TypeOK
  <2> QED BY <1>1, <1>2, <2>1, <2>2, <2>3, <2>4 DEF IInv, TypeOK
<1>5. RemovalsAreLive'
  <2>1. NoRemoval \in [active : BOOLEAN, emptied : SUBSET Nat] /\ ~NoRemoval.active
    BY DEF NoRemoval
  <2>2. removal' \in [Events -> [active : BOOLEAN, emptied : SUBSET Nat]]
    BY <1>1, <2>1 DEF IInv, RemovalsAreLive
  <2>3. \A f \in Events : removal'[f].active => f # e /\ removal[f].active
    BY <1>1, <2>1 DEF IInv, RemovalsAreLive
  <2> QED BY <1>1, <2>2, <2>3 DEF IInv, RemovalsAreLive
<1>6. LinkersKnowOwners'
  <2>1. \A l \in Linkers : linker[l].stage # "idle" => linker[l].event # e
    BY <1>3 DEF IInv, LinkersKnowOwners
  <2> QED BY <1>1, <2>1 DEF IInv, LinkersKnowOwners, RemovalsAreLive
<1>7. MovesAreLegacy' /\ NumbersAreNew'
  BY <1>1, <1>2 DEF IInv, MovesAreLegacy, NumbersAreNew
<1>8. JoinedStays'
  BY <1>1, <1>2, <1>3, JoinedIsLocked DEF IInv, JoinedStays
<1>9. Numbers' \subseteq Numbers
  <2>1. \A f \in Events : removal'[f].emptied \subseteq removal[f].emptied
    BY <1>1 DEF IInv, RemovalsAreLive, NoRemoval
  <2>2. Known' \subseteq Known
    <3>1. Clusters' \subseteq Clusters
      BY <1>2
    <3>2. UNION {removal'[f].emptied : f \in Events}
            \subseteq UNION {removal[f].emptied : f \in Events}
      BY <2>1
    <3> QED BY <1>1, <3>1, <3>2 DEF Known
  <2> QED BY <1>1, <2>2 DEF Numbers
<1>10. OrganizationsApart'
  <2>1. \A f \in Events : member'[f] # NoCluster =>
          member'[f] = member[f] /\ member[f] \in Clusters'
    BY <1>1, <1>4 DEF TypeOK
  <2> QED BY <1>1, <1>2, <2>1 DEF IInv, OrganizationsApart
<1> QED BY <1>4, <1>5, <1>6, <1>7, <1>8, <1>9, <1>10, StillBounded DEF IInv

LEMMA StutterKeeps == ASSUME IInv, UNCHANGED vars PROVE IInv'
<1>1. Clusters' = Clusters /\ Numbers' = Numbers
  BY DEF vars, Clusters, Numbers, Known
<1>2. TypeOK'
  BY <1>1 DEF IInv, TypeOK, vars
<1> QED BY <1>1, <1>2 DEF IInv, vars, MovesAreLegacy, RemovalsAreLive, LinkersKnowOwners,
                          NumbersAreNew, JoinedStays, Bounded, OrganizationsApart

LEMMA StepKeeps == ASSUME IInv, [Next]_vars PROVE IInv'
<1>1. CASE \E e \in Events : Extract(e) \/ BeginRemoval(e) \/ CommitRemoval(e)
  BY <1>1, ExtractKeeps, BeginRemovalKeeps, CommitRemovalKeeps
<1>2. CASE \E l \in Linkers : LinkerStep(l) \/ LinkFails(l)
  BY <1>2, JoinKeeps, CommitKeeps, ReadEventKeeps, LinkFailsKeeps DEF LinkerStep
<1>3. CASE \E s \in Sources : MoveEnds(s) \/ \E o \in Orgs : BeginMove(s, o)
  BY <1>3, CommitMoveKeeps, MoveFailsKeeps, BeginMoveKeeps DEF MoveEnds
<1>4. CASE UNCHANGED vars
  BY <1>4, StutterKeeps
<1> QED BY <1>1, <1>2, <1>3, <1>4 DEF Next

LEMMA LinkingInvariant == Spec => []IInv
<1>1. Init => IInv
  BY InitLinking
<1>2. IInv /\ [Next]_vars => IInv'
  BY StepKeeps
<1> QED BY <1>1, <1>2, PTL DEF Spec

(* Every membership is of a stored event in a stored cluster, and what     *)
(* the transactions hold has the types of the tables.                      *)
THEOREM LinkingTypeCorrect == Spec => []TypeOK
<1>1. IInv => TypeOK
  BY DEF IInv
<1> QED BY <1>1, LinkingInvariant, PTL

(* However linkers, assignments, removals and failures interleave, the     *)
(* clusters of an organization hold only its own events.                   *)
THEOREM OrganizationsStayApart == Spec => []OrganizationsApart
<1>1. IInv => OrganizationsApart
  BY DEF IInv
<1> QED BY <1>1, LinkingInvariant, PTL
-----------------------------------------------------------------------------
(* Why the clusters of an organization are days.  A cluster without a day  *)
(* may come to have one and the other way round, so what is kept is more   *)
(* than the property: known days agree with the cluster's, and a cluster   *)
(* without a day is the oldest of its organization, hence the only one and *)
(* the one that an event without a day would join.                         *)

MembersAgree ==
  \A e \in Events :
    member[e] # NoCluster /\ cluster[member[e]].org # Legacy /\ day[e] # NoDay =>
      cluster[member[e]].day = day[e]

UndatedIsOldest ==
  \A c \in Clusters : cluster[c].org # Legacy /\ cluster[c].day = NoDay =>
    \A d \in Of(cluster[c].org) : c <= d

(* What a linker found stays true until it commits: it holds the advisory  *)
(* lock, so nobody adds a cluster to the organization.                     *)
JoinedFits(l) ==
  /\ key[linker[l].org] = l
  /\ \A e \in Members(linker[l].into) \cup {linker[l].event} :
       day[e] # NoDay => day[e] = linker[l].day
  /\ \A c \in Of(linker[l].org) \ {linker[l].into} : cluster[c].day # linker[l].day
  /\ linker[l].day = NoDay => \A c \in Of(linker[l].org) : linker[l].into <= c
  /\ linker[l].into \notin Clusters =>
       \A c \in Of(linker[l].org) : cluster[c].day # NoDay

AllJoinedFit ==
  \A l \in Linkers : linker[l].stage = "joined" /\ linker[l].org # Legacy => JoinedFits(l)

(* An assignment writes the days of legacy clusters only, and its numbers  *)
(* are not drawn again.                                                    *)
MovesOfLegacy ==
  \A s \in Sources : \A c \in DOMAIN move[s].days :
    /\ c # NoCluster
    /\ c \in Clusters => cluster[c].org = Legacy
    /\ \A l \in Linkers : linker[l].number # c

DaysInv ==
  MembersAgree /\ UndatedIsOldest /\ OneClusterPerDay /\ AllJoinedFit /\ MovesOfLegacy

LEMMA InitDays == Init => DaysInv
<1> SUFFICES ASSUME Init PROVE DaysInv
  OBVIOUS
<1>1. Clusters = {}
  BY DEF Init, Clusters
<1>2. \A e \in Events : member[e] = NoCluster
  BY DEF Init
<1>3. \A l \in Linkers : linker[l].stage = "idle"
  BY DEF Init, Idle
<1>4. \A s \in Sources : DOMAIN move[s].days = {}
  BY DEF Init, NoMove
<1> QED BY <1>1, <1>2, <1>3, <1>4 DEF DaysInv, MembersAgree, UndatedIsOldest, OneClusterPerDay,
           AllJoinedFit, MovesOfLegacy

(* The earliest of days that are all the same, or unknown.                 *)
LEMMA OneKnownDay ==
  ASSUME TypeOK, NEW E \in SUBSET Events, NEW x \in Nat,
         \A e \in E : day[e] # NoDay => day[e] = x
  PROVE  /\ Earliest(E) \in {NoDay, x}
         /\ \A e \in E : day[e] # NoDay => Earliest(E) = day[e]
<1> DEFINE known == {day[e] : e \in E} \ {NoDay}
<1>1. known \in SUBSET Nat /\ known \subseteq {x}
  BY DEF TypeOK
<1>2. Earliest(E) = IF known = {} THEN NoDay ELSE Min(known)
  BY DEF Earliest
<1>3. \A e \in E : day[e] # NoDay => day[e] \in known
  OBVIOUS
<1> HIDE DEF known
<1>4. CASE known = {}
  BY <1>2, <1>3, <1>4
<1>5. CASE known # {}
  <2>1. Min(known) \in known
    BY <1>1, <1>5, Least
  <2> QED BY <1>1, <1>2, <1>3, <1>5, <2>1
<1> QED BY <1>4, <1>5

(* A linker has joined a cluster with a number, never the same cluster as  *)
(* another linker of another organization.                                 *)
LEMMA JoinedIsCluster ==
  ASSUME IInv, NEW l \in Linkers, linker[l].stage = "joined"
  PROVE  linker[l].into # NoCluster /\ linker[l].event \in Events
  BY DEF IInv, NumbersAreNew, JoinedStays, LinkersKnowOwners, TypeOK

LEMMA JoinedApart ==
  ASSUME IInv, NEW l \in Linkers, NEW m \in Linkers, l # m,
         linker[l].stage = "joined", linker[m].stage = "joined",
         linker[l].org # linker[m].org
  PROVE  linker[l].into # linker[m].into
<1>1. linker[l].number # NoCluster /\ linker[m].number # NoCluster
  BY DEF IInv, NumbersAreNew
<1>2. linker[l].number # linker[m].number
  BY <1>1 DEF IInv, NumbersAreNew
<1> QED BY <1>2 DEF IInv, NumbersAreNew, JoinedStays

(* Deletions, and days written to legacy clusters, disturb nothing.        *)
LEMMA FewerKeep ==
  ASSUME IInv, IInv', DaysInv, linker' = linker, key' = key,
         Clusters' \subseteq Clusters,
         \A c \in Clusters' : /\ cluster'[c].org = cluster[c].org
                              /\ cluster[c].org # Legacy => cluster'[c].day = cluster[c].day,
         \A e \in Events : member'[e] \in {member[e], NoCluster},
         \A e \in Events : day'[e] \in {day[e], NoDay},
         \A l \in Linkers : linker[l].stage = "joined" /\ linker[l].into \in Clusters =>
                              linker[l].into \in Clusters'
  PROVE  MembersAgree' /\ UndatedIsOldest' /\ OneClusterPerDay' /\ AllJoinedFit'
<1>1. \A e \in Events : member'[e] # NoCluster => member'[e] = member[e] /\ member[e] \in Clusters'
  BY DEF IInv, TypeOK
<1>2. \A o : Of(o)' \subseteq Of(o)
  BY DEF Of
<1>3. MembersAgree'
  BY <1>1 DEF DaysInv, MembersAgree
<1>4. UndatedIsOldest'
  BY <1>2 DEF DaysInv, UndatedIsOldest
<1>5. OneClusterPerDay'
  <2> SUFFICES ASSUME NEW c \in Clusters', NEW d \in Clusters', cluster'[c] = cluster'[d],
                      cluster'[c].org # Legacy
               PROVE  c = d
    BY DEF OneClusterPerDay
  <2>1. cluster[c].org = cluster[d].org /\ cluster[c].day = cluster[d].day
    OBVIOUS
  <2>2. cluster[c] \in [org : Owners, day : Nat] /\ cluster[d] \in [org : Owners, day : Nat]
    BY DEF IInv, TypeOK
  <2>3. cluster[c] = cluster[d]
    BY <2>1, <2>2
  <2> QED BY <2>3 DEF DaysInv, OneClusterPerDay
<1>6. AllJoinedFit'
  <2> SUFFICES ASSUME NEW l \in Linkers, linker[l].stage = "joined", linker[l].org # Legacy
               PROVE  JoinedFits(l)'
    BY DEF AllJoinedFit
  <2>1. JoinedFits(l)
    BY DEF DaysInv, AllJoinedFit
  <2>2. linker[l].into # NoCluster
    BY JoinedIsCluster
  <2>3. Members(linker[l].into)' \subseteq Members(linker[l].into)
    BY <1>1, <2>2 DEF Members
  <2>4. linker[l].event \in Events
    BY JoinedIsCluster
  <2>5. \A e \in Members(linker[l].into)' \cup {linker[l].event} :
          day'[e] # NoDay => day'[e] = linker[l].day
    <3>1. Members(linker[l].into) \subseteq Events
      BY DEF Members
    <3> QED BY <2>1, <2>3, <2>4, <3>1 DEF JoinedFits
  <2>6. \A c \in Of(linker[l].org)' : c \in Of(linker[l].org) /\ cluster'[c].day = cluster[c].day
    BY <1>2 DEF Of
  <2>7. linker[l].into \notin Clusters' => linker[l].into \notin Clusters
    OBVIOUS
  <2> QED BY <2>1, <2>5, <2>6, <2>7 DEF JoinedFits
<1> QED BY <1>3, <1>4, <1>5, <1>6

LEMMA ExtractKeepsDays ==
  ASSUME IInv, DaysInv, NEW e \in Events, Extract(e)
  PROVE  DaysInv'
<1>1. /\ UNCHANGED <<owner, member, cluster, key, linker, move, removal, disruptions>>
      /\ \A f \in Events \ {e} : day'[f] = day[f]
  BY DEF Extract, IInv, TypeOK
<1>2. member[e] = NoCluster
  BY DEF Extract, IInv, TypeOK
<1>3. \A l \in Linkers : linker[l].stage = "joined" => linker[l].event # e
  BY DEF Extract, IInv, LinkersKnowOwners
<1>4. Clusters' = Clusters /\ \A o : Of(o)' = Of(o)
  BY <1>1 DEF Clusters, Of
<1>5. MembersAgree'
  BY <1>1, <1>2 DEF DaysInv, MembersAgree
<1>6. UndatedIsOldest' /\ OneClusterPerDay' /\ MovesOfLegacy'
  BY <1>1, <1>4 DEF DaysInv, UndatedIsOldest, OneClusterPerDay, MovesOfLegacy
<1>7. AllJoinedFit'
  <2> SUFFICES ASSUME NEW l \in Linkers, linker[l].stage = "joined", linker[l].org # Legacy
               PROVE  JoinedFits(l)'
    BY <1>1 DEF AllJoinedFit
  <2>1. JoinedFits(l)
    BY DEF DaysInv, AllJoinedFit
  <2>2. Members(linker[l].into)' = Members(linker[l].into)
    BY <1>1 DEF Members
  <2>3. linker[l].into # NoCluster /\ linker[l].event \in Events
    BY JoinedIsCluster
  <2>4. Members(linker[l].into) \cup {linker[l].event} \subseteq Events \ {e}
    BY <1>2, <1>3, <2>3 DEF Members
  <2> QED BY <1>1, <1>4, <2>1, <2>2, <2>4 DEF JoinedFits
<1> QED BY <1>5, <1>6, <1>7 DEF DaysInv

LEMMA ReadEventKeepsDays ==
  ASSUME IInv, DaysInv, NEW l \in Linkers, NEW e \in Events, ReadEvent(l, e)
  PROVE  DaysInv'
<1> DEFINE x == [Idle EXCEPT !.stage = "read", !.event = e,
                             !.org = owner[SourceOf[e]], !.number = Number]
<1>1. /\ linker' = [linker EXCEPT ![l] = x] /\ linker \in [Linkers -> LinkerState]
      /\ UNCHANGED <<rows, key, move, removal, disruptions>>
  BY DEF ReadEvent, IInv, TypeOK, LinkerState
<1>2. x.stage = "read" /\ x.number = Number
  BY DEF Idle
<1> HIDE DEF x
<1>3. UNCHANGED <<day, member, cluster, key, move>> /\ Clusters' = Clusters
      /\ \A o : Of(o)' = Of(o) /\ \A c : Members(c)' = Members(c)
  BY <1>1 DEF rows, Clusters, Of, Members
<1>4. MembersAgree' /\ UndatedIsOldest' /\ OneClusterPerDay'
  BY <1>3 DEF DaysInv, MembersAgree, UndatedIsOldest, OneClusterPerDay
<1>5. AllJoinedFit'
  <2> SUFFICES ASSUME NEW m \in Linkers, linker'[m].stage = "joined", linker'[m].org # Legacy
               PROVE  JoinedFits(m)'
    BY DEF AllJoinedFit
  <2>1. m # l /\ linker'[m] = linker[m]
    BY <1>1, <1>2
  <2>2. JoinedFits(m)
    BY <2>1 DEF DaysInv, AllJoinedFit
  <2> QED BY <1>3, <2>1, <2>2 DEF JoinedFits
<1>6. MovesOfLegacy'
  <2>1. \A s \in Sources : \A c \in DOMAIN move[s].days : c < Number /\ c \in Nat
    BY NextNumber DEF Known, IInv, MovesAreLegacy
  <2>2. \A s \in Sources : \A c \in DOMAIN move[s].days : c # Number
    BY <2>1, NextNumber
  <2> QED BY <1>1, <1>2, <1>3, <2>2 DEF DaysInv, MovesOfLegacy
<1> QED BY <1>4, <1>5, <1>6 DEF DaysInv

(* The cluster that a linker chooses, and the day that it computes.        *)
Chosen(o, e, n, into, d) ==
  /\ into = IF Candidates(o, day[e]) = {} THEN n ELSE Min(Candidates(o, day[e]))
  /\ d = Earliest(Members(into) \cup {e})

Fits(o, e, into, d) ==
  /\ \A f \in Members(into) \cup {e} : day[f] # NoDay => day[f] = d
  /\ \A c \in Of(o) \ {into} : cluster[c].day # d
  /\ d = NoDay => \A c \in Of(o) : into <= c
  /\ into \notin Clusters => \A c \in Of(o) : cluster[c].day # NoDay

LEMMA ChosenFits ==
  ASSUME IInv, DaysInv, NEW o \in Orgs, NEW e \in Events, NEW n \in Nat,
         n # NoCluster, n \notin Clusters, NEW into, NEW d, Chosen(o, e, n, into, d)
  PROVE  Fits(o, e, into, d)
<1> SUFFICES /\ \A f \in Members(into) \cup {e} : day[f] # NoDay => day[f] = d
             /\ \A c \in Of(o) \ {into} : cluster[c].day # d
             /\ d = NoDay => \A c \in Of(o) : into <= c
             /\ into \notin Clusters => \A c \in Of(o) : cluster[c].day # NoDay
  BY DEF Fits
<1>0. /\ into = IF Candidates(o, day[e]) = {} THEN n ELSE Min(Candidates(o, day[e]))
      /\ d = Earliest(Members(into) \cup {e})
  BY DEF Chosen
<1> DEFINE found == Candidates(o, day[e])
           matches == {c \in Of(o) : day[e] = NoDay \/ cluster[c].day \in {NoDay, day[e]}}
           same == {c \in matches : cluster[c].day # NoDay}
           E == Members(into) \cup {e}
<1>1. /\ o # Legacy /\ day[e] \in Nat
      /\ Of(o) \subseteq Clusters /\ Of(o) \subseteq Nat
      /\ \A c \in Of(o) : cluster[c].org = o /\ cluster[c].day \in Nat
      /\ \A c, b \in Of(o) : cluster[c].day = cluster[b].day => c = b
  <2>1. \A c \in Of(o) : cluster[c] = [org |-> o, day |-> cluster[c].day]
    BY DEF IInv, TypeOK, Of
  <2>2. \A c, b \in Of(o) : cluster[c].day = cluster[b].day => cluster[c] = cluster[b]
    BY <2>1
  <2>3. o # Legacy
    BY ConstantsAssumption
  <2> QED BY <2>2, <2>3 DEF IInv, TypeOK, Of, DaysInv, OneClusterPerDay
<1>2. found = IF day[e] # NoDay /\ same # {} THEN same ELSE matches
  BY DEF Candidates
<1>3. found \in SUBSET Of(o)
  BY <1>2
<1>4. found # {} => into \in found /\ \A c \in found : into <= c
  <2> HIDE DEF found
  <2>1. found \in SUBSET Nat
    BY <1>1, <1>3
  <2>2. found # {} => Min(found) \in found /\ \A c \in found : Min(found) <= c
    BY <2>1, Least
  <2> QED BY <1>0, <2>2 DEF found
<1>5. E \in SUBSET Events
  BY DEF Members
<1>6. ASSUME NEW x \in Nat, \A f \in E : day[f] # NoDay => day[f] = x
      PROVE  d \in {NoDay, x} /\ \A f \in E : day[f] # NoDay => d = day[f]
  <2> HIDE DEF E
  <2>1. /\ Earliest(E) \in {NoDay, x}
        /\ \A f \in E : day[f] # NoDay => Earliest(E) = day[f]
    BY <1>5, <1>6, OneKnownDay DEF IInv
  <2> QED BY <1>0, <2>1 DEF E
<1>7. into \in Of(o) => \A f \in Members(into) : day[f] # NoDay => day[f] = cluster[into].day
  BY <1>1 DEF DaysInv, MembersAgree, Members, IInv, TypeOK
<1>8. \A c \in Of(o) : cluster[c].day = NoDay => \A b \in Of(o) : c <= b
  BY <1>1 DEF DaysInv, UndatedIsOldest
<1>9. found = {} => into = n /\ Members(into) = {}
  BY <1>0 DEF Members, IInv, TypeOK
<1> HIDE DEF found
<1>10. CASE day[e] = NoDay
  <2>1. found = Of(o)
    BY <1>2, <1>10
  <2>2. CASE found = {}
    <3>1. \A f \in E : day[f] # NoDay => day[f] = NoDay
      BY <1>9, <1>10, <2>2
    <3> QED BY <1>6, <1>9, <2>1, <2>2, <3>1 DEF NoDay
  <2>3. CASE found # {}
    <3>1. \A f \in E : day[f] # NoDay => day[f] = cluster[into].day
      BY <1>4, <1>7, <1>10, <2>1, <2>3
    <3>2. into \in Of(o) /\ cluster[into].day \in Nat
      BY <1>1, <1>4, <2>1, <2>3
    <3>3. d \in {NoDay, cluster[into].day} /\ \A f \in E : day[f] # NoDay => d = day[f]
      BY <1>6, <3>1, <3>2
    <3>4. \A c \in Of(o) : into <= c
      BY <1>4, <2>1, <2>3
    <3>5. \A c \in Of(o) : cluster[c].day = NoDay => c = into
      <4> TAKE c \in Of(o)
      <4>1. cluster[c].day = NoDay => c <= into /\ into <= c
        BY <1>8, <3>2, <3>4
      <4> QED BY <1>1, <3>2, <4>1
    <3> QED BY <1>1, <3>2, <3>3, <3>4, <3>5
  <2> QED BY <2>2, <2>3
<1>11. CASE day[e] # NoDay
  <2>1. (found # {} => \A f \in Members(into) : day[f] # NoDay => day[f] = day[e])
    BY <1>2, <1>4, <1>7, <1>11
  <2>2. \A f \in E : day[f] # NoDay => day[f] = day[e]
    BY <1>9, <2>1
  <2>3. d = day[e] /\ \A f \in E : day[f] # NoDay => d = day[f]
    BY <1>1, <1>6, <1>11, <2>2
  <2>4. \A c \in Of(o) \ {into} : cluster[c].day # day[e]
    <3>1. \A c \in Of(o) : cluster[c].day = day[e] => c \in same
      BY <1>11
    <3>2. same # {} => into \in same /\ cluster[into].day = day[e]
      BY <1>2, <1>4, <1>11
    <3> QED BY <1>1, <3>1, <3>2
  <2>5. into \notin Clusters => \A c \in Of(o) : cluster[c].day # NoDay
    <3>1. into \notin Clusters => found = {}
      BY <1>1, <1>3, <1>4
    <3> QED BY <1>2, <1>11, <3>1
  <2> QED BY <1>11, <2>3, <2>4, <2>5
<1> QED BY <1>10, <1>11

LEMMA JoinKeepsDays ==
  ASSUME IInv, DaysInv, NEW l \in Linkers, Join(l)
  PROVE  DaysInv'
<1> DEFINE self == linker[l]
           found == Candidates(self.org, day[self.event])
           into == IF found = {} THEN self.number ELSE Min(found)
           d == Earliest(Members(into) \cup {self.event})
           x == [self EXCEPT !.stage = "joined", !.into = into, !.day = d]
<1>1. linker \in [Linkers -> LinkerState]
  BY DEF IInv, TypeOK, LinkerState
<1>2. /\ self.stage = "read" /\ self \in LinkerState /\ self.event \in Events
      /\ self.number \in Nat /\ self.number # NoCluster /\ self.number \notin Clusters
  BY <1>1 DEF Join, IInv, LinkersKnowOwners, NumbersAreNew, LinkerState
<1>3. linker' = [linker EXCEPT ![l] = x]
  BY <1>1, <1>2 DEF Join, LinkerState
<1>4. /\ x.stage = "joined" /\ x.into = into /\ x.day = d
      /\ x.event = self.event /\ x.org = self.org /\ x.number = self.number
  BY <1>2 DEF LinkerState
<1>5. /\ UNCHANGED <<day, member, cluster, move>> /\ key' = [key EXCEPT ![self.org] = l]
      /\ key[self.org] = Free
  BY DEF Join, rows
<1>6. Clusters' = Clusters /\ \A o : Of(o)' = Of(o) /\ \A c : Members(c)' = Members(c)
  BY <1>5 DEF Clusters, Of, Members
<1>7. MembersAgree' /\ UndatedIsOldest' /\ OneClusterPerDay'
  BY <1>5, <1>6 DEF DaysInv, MembersAgree, UndatedIsOldest, OneClusterPerDay
<1>8. self.org # Legacy =>
        /\ \A f \in Members(into) \cup {self.event} : day[f] # NoDay => day[f] = d
        /\ \A c \in Of(self.org) \ {into} : cluster[c].day # d
        /\ d = NoDay => \A c \in Of(self.org) : into <= c
        /\ into \notin Clusters => \A c \in Of(self.org) : cluster[c].day # NoDay
  <2>1. self.org # Legacy => self.org \in Orgs
    BY <1>2 DEF LinkerState, Owners
  <2>2. Chosen(self.org, self.event, self.number, into, d)
    BY DEF Chosen
  <2> HIDE DEF into, found, d, x, self
  <2>3. self.org # Legacy => Fits(self.org, self.event, into, d)
    BY <1>2, <2>1, <2>2, ChosenFits
  <2> QED BY <2>3 DEF Fits
<1> HIDE DEF into, found, d, x
<1>9. AllJoinedFit'
  <2> SUFFICES ASSUME NEW m \in Linkers, linker'[m].stage = "joined", linker'[m].org # Legacy
               PROVE  JoinedFits(m)'
    BY DEF AllJoinedFit
  <2>1. CASE m = l
    <3>1. linker'[l] = x
      BY <1>1, <1>3
    <3>2. key'[self.org] = l
      BY <1>2, <1>5 DEF IInv, TypeOK, LinkerState
    <3>3. self.org # Legacy
      BY <1>4, <2>1, <3>1
    <3> QED BY <1>4, <1>5, <1>6, <1>8, <2>1, <3>1, <3>2, <3>3 DEF JoinedFits
  <2>2. CASE m # l
    <3>1. linker'[m] = linker[m]
      BY <1>3, <2>2
    <3>2. JoinedFits(m)
      BY <3>1 DEF DaysInv, AllJoinedFit
    <3>3. key[linker[m].org] = m /\ m # Free
      BY <3>2, ConstantsAssumption DEF JoinedFits
    <3>4. key'[linker[m].org] = m
      BY <1>5, <3>3
    <3> QED BY <1>5, <1>6, <3>1, <3>2, <3>4 DEF JoinedFits
  <2> QED BY <2>1, <2>2
<1>10. MovesOfLegacy'
  BY <1>1, <1>3, <1>4, <1>5, <1>6 DEF DaysInv, MovesOfLegacy
<1> QED BY <1>7, <1>9, <1>10 DEF DaysInv

LEMMA LinkFailsKeepsDays ==
  ASSUME IInv, DaysInv, NEW l \in Linkers, LinkFails(l)
  PROVE  DaysInv'
<1>1. /\ linker \in [Linkers -> LinkerState] /\ linker' = [linker EXCEPT ![l] = Idle]
      /\ UNCHANGED <<day, member, cluster, move>> /\ key' = Released(l)
  BY DEF IInv, TypeOK, LinkerState, LinkFails, rows
<1>2. Clusters' = Clusters /\ \A o : Of(o)' = Of(o) /\ \A c : Members(c)' = Members(c)
  BY <1>1 DEF Clusters, Of, Members
<1>3. MembersAgree' /\ UndatedIsOldest' /\ OneClusterPerDay'
  BY <1>1, <1>2 DEF DaysInv, MembersAgree, UndatedIsOldest, OneClusterPerDay
<1>4. AllJoinedFit'
  <2> SUFFICES ASSUME NEW m \in Linkers, linker'[m].stage = "joined", linker'[m].org # Legacy
               PROVE  JoinedFits(m)'
    BY DEF AllJoinedFit
  <2>1. m # l /\ linker'[m] = linker[m]
    BY <1>1, IdleLinker
  <2>2. JoinedFits(m) /\ linker[m].org \in Owners
    BY <1>1, <2>1 DEF DaysInv, AllJoinedFit, LinkerState
  <2>3. key'[linker[m].org] = m
    BY <1>1, <2>1, <2>2 DEF JoinedFits, Released
  <2> QED BY <1>1, <1>2, <2>1, <2>2, <2>3 DEF JoinedFits
<1>5. MovesOfLegacy'
  BY <1>1, <1>2, IdleLinker DEF DaysInv, MovesOfLegacy
<1> QED BY <1>3, <1>4, <1>5 DEF DaysInv

LEMMA CommitKeepsDays ==
  ASSUME IInv, IInv', DaysInv, NEW l \in Linkers, Commit(l)
  PROVE  DaysInv'
<1> DEFINE self == linker[l]
           made == [org |-> self.org, day |-> self.day]
<1>1. /\ linker \in [Linkers -> LinkerState] /\ linker' = [linker EXCEPT ![l] = Idle]
      /\ member' = [member EXCEPT ![self.event] = self.into]
      /\ key' = Released(l)
      /\ UNCHANGED <<owner, event, day, move, removal, disruptions>>
  BY DEF IInv, TypeOK, LinkerState, Commit
<1>2. /\ self \in LinkerState /\ self.stage = "joined" /\ self.event \in Events
      /\ self.into # NoCluster
  BY <1>1, JoinedIsCluster DEF Commit
<1>3. \/ self.into = self.number /\ self.into \notin Clusters
      \/ self.into \in Clusters /\ cluster[self.into].org = self.org
  BY <1>2 DEF IInv, JoinedStays, NumbersAreNew
<1>4. /\ Clusters' = Clusters \cup {self.into}
      /\ cluster'[self.into] = made
      /\ \A c \in Clusters \ {self.into} : cluster'[c] = cluster[c]
  BY DEF Commit, Clusters
<1>5. self.org # Legacy => JoinedFits(l)
  BY <1>2 DEF DaysInv, AllJoinedFit
<1>6. made.org = self.org /\ made.day = self.day /\ self.day \in Nat /\ self.org \in Owners
  BY <1>2 DEF LinkerState
<1>7. \A o : o # self.org => Of(o)' = Of(o) /\ self.into \notin Of(o)
  BY <1>3, <1>4, <1>6 DEF Of
<1>8. \A o : o = self.org => Of(o)' = Of(o) \cup {self.into}
  BY <1>3, <1>4, <1>6 DEF Of
<1> HIDE DEF made, self
<1>9. MembersAgree'
  <2> SUFFICES ASSUME NEW e \in Events, member'[e] # NoCluster,
                      cluster'[member'[e]].org # Legacy, day[e] # NoDay
               PROVE  cluster'[member'[e]].day = day[e]
    BY <1>1 DEF MembersAgree
  <2>1. CASE member'[e] = self.into
    <3>1. e \in Members(self.into) \cup {self.event}
      BY <1>1, <2>1 DEF Members, IInv, TypeOK
    <3> QED BY <1>4, <1>5, <1>6, <2>1, <3>1 DEF JoinedFits, self
  <2>2. CASE member'[e] # self.into
    <3>1. member'[e] = member[e] /\ member[e] \in Clusters \ {self.into}
      BY <1>1, <2>2 DEF IInv, TypeOK
    <3> QED BY <1>4, <3>1 DEF DaysInv, MembersAgree
  <2> QED BY <2>1, <2>2
<1>10. UndatedIsOldest'
  <2> SUFFICES ASSUME NEW c \in Clusters', cluster'[c].org # Legacy, cluster'[c].day = NoDay,
                      NEW o, o = cluster'[c].org, NEW d \in Of(o)'
               PROVE  c <= d
    BY DEF UndatedIsOldest
  <2>1. c \in Nat /\ d \in Nat
    BY DEF IInv, TypeOK, Of
  <2>2. CASE cluster'[c].org # self.org
    <3>1. c # self.into /\ cluster'[c] = cluster[c] /\ c \in Clusters
      BY <1>4, <1>6, <2>2
    <3> QED BY <1>7, <2>2, <3>1 DEF DaysInv, UndatedIsOldest
  <2>3. CASE cluster'[c].org = self.org /\ c = self.into
    <3>1. \A b \in Of(self.org) : self.into <= b
      BY <1>4, <1>5, <1>6, <2>3 DEF JoinedFits, self
    <3> QED BY <1>8, <2>1, <2>3, <3>1
  <2>4. CASE cluster'[c].org = self.org /\ c # self.into
    <3>1. cluster'[c] = cluster[c] /\ c \in Of(self.org) /\ c \in Clusters
      BY <1>4, <2>4 DEF Of
    <3>2. self.into \in Clusters
      BY <1>5, <2>4, <3>1 DEF JoinedFits, self
    <3>3. self.into \in Of(self.org)
      BY <1>3, <3>2 DEF Of, IInv, NumbersAreNew
    <3>4. \A b \in Of(self.org) : c <= b
      BY <2>4, <3>1 DEF DaysInv, UndatedIsOldest
    <3> QED BY <1>8, <2>4, <3>3, <3>4
  <2> QED BY <2>2, <2>3, <2>4
<1>11. OneClusterPerDay'
  <2>1. ASSUME self.org # Legacy, NEW c \in Of(self.org) \ {self.into}
        PROVE  cluster[c].day # self.day
    BY <1>5, <2>1 DEF JoinedFits, self
  <2>2. ASSUME NEW c \in Clusters', c # self.into, cluster'[c] = cluster'[self.into],
               cluster'[c].org # Legacy
        PROVE  FALSE
    <3>1. c \in Clusters /\ cluster[c].org = self.org /\ cluster[c].day = self.day
      BY <1>4, <1>6, <2>2
    <3> QED BY <1>4, <1>6, <2>1, <2>2, <3>1 DEF Of
  <2> SUFFICES ASSUME NEW c \in Clusters', NEW d \in Clusters', cluster'[c] = cluster'[d],
                      cluster'[c].org # Legacy
               PROVE  c = d
    BY DEF OneClusterPerDay
  <2>3. CASE c # self.into /\ d # self.into
    BY <1>4, <2>3 DEF DaysInv, OneClusterPerDay
  <2> QED BY <2>2, <2>3
<1>12. AllJoinedFit'
  <2> SUFFICES ASSUME NEW m \in Linkers, linker'[m].stage = "joined", linker'[m].org # Legacy
               PROVE  JoinedFits(m)'
    BY DEF AllJoinedFit
  <2>1. m # l /\ linker'[m] = linker[m]
    BY <1>1, IdleLinker
  <2>2. JoinedFits(m) /\ linker[m].org \in Owners
    BY <1>1, <2>1 DEF DaysInv, AllJoinedFit, LinkerState
  <2>3. key'[linker[m].org] = m
    BY <1>1, <2>1, <2>2 DEF JoinedFits, Released
  <2>4. linker[m].org # self.org
    BY <1>5, <2>1, <2>2 DEF JoinedFits, self
  <2>5. linker[m].into # self.into
    BY <1>2, <2>1, <2>4, JoinedApart DEF self
  <2>6. linker[m].into # NoCluster
    BY <2>1, JoinedIsCluster
  <2>7. Members(linker[m].into)' \subseteq Members(linker[m].into)
    BY <1>1, <1>2, <2>1, <2>5 DEF Members, IInv, TypeOK
  <2>8. Of(linker[m].org)' = Of(linker[m].org) /\ self.into \notin Of(linker[m].org)
    BY <1>7, <2>1, <2>4
  <2>9. \A c \in Of(linker[m].org) : cluster'[c] = cluster[c]
    BY <1>4, <2>8 DEF Of
  <2>10. linker[m].into \notin Clusters' => linker[m].into \notin Clusters
    BY <1>4
  <2> QED BY <1>1, <2>1, <2>2, <2>3, <2>7, <2>8, <2>9, <2>10 DEF JoinedFits
<1>13. MovesOfLegacy'
  <2> SUFFICES ASSUME NEW s \in Sources, NEW c \in DOMAIN move[s].days
               PROVE  /\ c # NoCluster
                      /\ c \in Clusters' => cluster'[c].org = Legacy
                      /\ \A m \in Linkers : linker'[m].number # c
    BY <1>1 DEF MovesOfLegacy
  <2>1. c # NoCluster /\ \A m \in Linkers : linker[m].number # c
    BY DEF DaysInv, MovesOfLegacy
  <2>2. \A m \in Linkers : linker'[m].number # c
    BY <1>1, <2>1, IdleLinker
  <2>3. ASSUME c \in Clusters' PROVE cluster'[c].org = Legacy
    <3>1. c \in Clusters
      BY <1>3, <1>4, <2>1, <2>3 DEF self
    <3>2. cluster[c].org = Legacy
      BY <3>1 DEF DaysInv, MovesOfLegacy
    <3> QED BY <1>3, <1>4, <1>6, <3>1, <3>2 DEF self
  <2> QED BY <2>1, <2>2, <2>3
<1> QED BY <1>9, <1>10, <1>11, <1>12, <1>13 DEF DaysInv

LEMMA BeginMoveKeepsDays ==
  ASSUME IInv, IInv', DaysInv, NEW s \in Sources, NEW o \in Orgs, BeginMove(s, o)
  PROVE  DaysInv'
<1> DEFINE T == {e \in Events : SourceOf[e] = s /\ event[e] = "live" /\ member[e] # NoCluster}
           E == IF \E e \in Events : SourceOf[e] = s /\ event[e] = "live"
                THEN Without(T) ELSE {}
           D == {c \in {member[e] : e \in T} \ E :
                   Earliest(Members(c) \ T) # cluster[c].day}
<1>1. /\ move' = [move EXCEPT ![s] = [org |-> o, taken |-> T, emptied |-> E,
                    days |-> [c \in D |-> Earliest(Members(c) \ T)]]]
      /\ UNCHANGED <<rows, key, linker, removal, disruptions>>
      /\ owner[s] = Legacy
  BY DEF BeginMove
<1>2. \A c \in D : c \in Clusters /\ c # NoCluster /\ cluster[c].org = Legacy
  BY <1>1 DEF IInv, TypeOK, OrganizationsApart
<1>3. \A c \in D : \A l \in Linkers : linker[l].number # c
  BY <1>2 DEF IInv, NumbersAreNew
<1> HIDE DEF T, E, D
<1>4. UNCHANGED <<day, member, cluster, key, linker>> /\ Clusters' = Clusters
  BY <1>1 DEF rows, Clusters
<1>5. MovesOfLegacy'
  <2>1. DOMAIN move'[s].days = D /\ \A r \in Sources \ {s} : move'[r] = move[r]
    BY <1>1 DEF IInv, MovesAreLegacy
  <2> QED BY <1>2, <1>3, <1>4, <2>1 DEF DaysInv, MovesOfLegacy
<1> QED BY <1>4, <1>5, FewerKeep DEF DaysInv

LEMMA CommitMoveKeepsDays ==
  ASSUME IInv, IInv', DaysInv, NEW s \in Sources, CommitMove(s)
  PROVE  DaysInv'
<1> DEFINE gone == move[s].emptied
           changed == DOMAIN move[s].days
           kept(c) == IF c \in changed THEN [cluster[c] EXCEPT !.day = move[s].days[c]]
                      ELSE cluster[c]
<1>1. /\ member' = [e \in Events |-> IF e \in move[s].taken \/ member[e] \in gone
                                     THEN NoCluster ELSE member[e]]
      /\ cluster' = [c \in Clusters \ gone |-> kept(c)]
      /\ move' = [move EXCEPT ![s] = NoMove]
      /\ UNCHANGED <<day, key, linker>>
  BY DEF CommitMove, Deleting
<1>2. Clusters' = Clusters \ gone
  BY <1>1 DEF Clusters
<1>3. \A c \in Clusters' : /\ cluster'[c].org = cluster[c].org
                           /\ cluster[c].org # Legacy => cluster'[c].day = cluster[c].day
  <2> SUFFICES ASSUME NEW c \in Clusters'
               PROVE  kept(c).org = cluster[c].org
                      /\ (cluster[c].org # Legacy => kept(c).day = cluster[c].day)
    BY <1>1, <1>2
  <2>1. cluster[c] \in [org : Owners, day : Nat]
    BY <1>2 DEF IInv, TypeOK
  <2>2. c \in changed => cluster[c].org = Legacy
    BY <1>2 DEF DaysInv, MovesOfLegacy
  <2> QED BY <2>1, <2>2
<1> HIDE DEF kept
<1>4. \A l \in Linkers : linker[l].stage = "joined" /\ linker[l].into \in Clusters =>
                           linker[l].into \in Clusters'
  <2>1. \A c \in Clusters : Locked(c) => c \notin gone
    BY DEF CommitMove
  <2>2. \A l \in Linkers : linker[l].stage = "joined" /\ linker[l].into \in Clusters =>
                             linker[l].into # linker[l].number
    BY DEF IInv, NumbersAreNew
  <2> QED BY <1>2, <2>1, <2>2, JoinedIsLocked
<1>5. MembersAgree' /\ UndatedIsOldest' /\ OneClusterPerDay' /\ AllJoinedFit'
  BY <1>1, <1>2, <1>3, <1>4, FewerKeep DEF IInv, TypeOK
<1>6. MovesOfLegacy'
  <2>1. /\ DOMAIN NoMove.days = {}
        /\ move'[s] = NoMove /\ \A r \in Sources \ {s} : move'[r] = move[r]
    BY <1>1 DEF IInv, MovesAreLegacy, NoMove
  <2> QED BY <1>1, <1>2, <1>3, <2>1, ZenonT(30) DEF DaysInv, MovesOfLegacy
<1> QED BY <1>5, <1>6 DEF DaysInv

LEMMA MoveFailsKeepsDays ==
  ASSUME IInv, IInv', DaysInv, NEW s \in Sources, MoveFails(s)
  PROVE  DaysInv'
<1>1. /\ UNCHANGED <<day, member, cluster, key, linker>> /\ Clusters' = Clusters
      /\ move' = [move EXCEPT ![s] = NoMove]
  BY DEF MoveFails, rows, Clusters
<1>2. MovesOfLegacy'
  <2>1. /\ DOMAIN NoMove.days = {}
        /\ move'[s] = NoMove /\ \A r \in Sources \ {s} : move'[r] = move[r]
    BY <1>1 DEF IInv, MovesAreLegacy, NoMove
  <2> QED BY <1>1, <2>1 DEF DaysInv, MovesOfLegacy
<1> QED BY <1>1, <1>2, FewerKeep DEF DaysInv

LEMMA BeginRemovalKeepsDays ==
  ASSUME IInv, IInv', DaysInv, NEW e \in Events, BeginRemoval(e)
  PROVE  DaysInv'
<1>1. UNCHANGED <<day, member, cluster, key, linker, move>> /\ Clusters' = Clusters
  BY DEF BeginRemoval, rows, Clusters
<1>2. MovesOfLegacy'
  BY <1>1 DEF DaysInv, MovesOfLegacy
<1> QED BY <1>1, <1>2, FewerKeep DEF DaysInv

LEMMA CommitRemovalKeepsDays ==
  ASSUME IInv, IInv', DaysInv, NEW e \in Events, CommitRemoval(e)
  PROVE  DaysInv'
<1> DEFINE gone == removal[e].emptied
<1>1. /\ day' = [day EXCEPT ![e] = NoDay]
      /\ member' = [f \in Events |-> IF f \in {e} \/ member[f] \in gone
                                     THEN NoCluster ELSE member[f]]
      /\ cluster' = [c \in Clusters \ gone |-> cluster[c]]
      /\ UNCHANGED <<key, linker, move>>
  BY DEF CommitRemoval, Deleting, Restrict, Clusters
<1>2. Clusters' = Clusters \ gone /\ \A c \in Clusters' : cluster'[c] = cluster[c]
  BY <1>1 DEF Clusters
<1>3. \A l \in Linkers : linker[l].stage = "joined" /\ linker[l].into \in Clusters =>
                           linker[l].into \in Clusters'
  <2>1. \A c \in Clusters : Locked(c) => c \notin gone
    BY DEF CommitRemoval
  <2>2. \A l \in Linkers : linker[l].stage = "joined" /\ linker[l].into \in Clusters =>
                             linker[l].into # linker[l].number
    BY DEF IInv, NumbersAreNew
  <2> QED BY <1>2, <2>1, <2>2, JoinedIsLocked
<1>4. \A f \in Events : member'[f] \in {member[f], NoCluster} /\ day'[f] \in {day[f], NoDay}
  BY <1>1 DEF IInv, TypeOK
<1>5. MembersAgree' /\ UndatedIsOldest' /\ OneClusterPerDay' /\ AllJoinedFit'
  BY <1>1, <1>2, <1>3, <1>4, FewerKeep
<1>6. MovesOfLegacy'
  BY <1>1, <1>2 DEF DaysInv, MovesOfLegacy
<1> QED BY <1>5, <1>6 DEF DaysInv

LEMMA DaysStepKeeps ==
  ASSUME IInv, IInv', DaysInv, [Next]_vars
  PROVE  DaysInv'
<1>1. CASE \E e \in Events : Extract(e) \/ BeginRemoval(e) \/ CommitRemoval(e)
  BY <1>1, ExtractKeepsDays, BeginRemovalKeepsDays, CommitRemovalKeepsDays
<1>2. CASE \E l \in Linkers : LinkerStep(l) \/ LinkFails(l)
  BY <1>2, JoinKeepsDays, CommitKeepsDays, ReadEventKeepsDays, LinkFailsKeepsDays DEF LinkerStep
<1>3. CASE \E s \in Sources : MoveEnds(s) \/ \E o \in Orgs : BeginMove(s, o)
  BY <1>3, CommitMoveKeepsDays, MoveFailsKeepsDays, BeginMoveKeepsDays DEF MoveEnds
<1>4. CASE UNCHANGED vars
  <2>1. UNCHANGED <<day, member, cluster, key, linker, move>> /\ Clusters' = Clusters
    BY <1>4 DEF vars, Clusters
  <2>2. MovesOfLegacy'
    BY <2>1 DEF DaysInv, MovesOfLegacy
  <2> QED BY <2>1, <2>2, FewerKeep DEF DaysInv
<1> QED BY <1>1, <1>2, <1>3, <1>4 DEF Next

(* Known days agree with the cluster's day, so with each other.            *)
LEMMA DaysFollow == IInv /\ DaysInv => ClustersAreDays
<1> SUFFICES ASSUME IInv, DaysInv PROVE OneDayPerCluster /\ OneClusterPerDay
  BY DEF ClustersAreDays
<1>1. OneDayPerCluster
  BY DEF DaysInv, MembersAgree, OneDayPerCluster
<1> QED BY <1>1 DEF DaysInv

(* A cluster of an organization is one day, and a day one cluster: two     *)
(* workers that link at the same time start no second cluster for a day,   *)
(* and no event joins a cluster of another day, whatever assignments,      *)
(* deletions and failures come between.                                    *)
THEOREM ClustersStayDays == Spec => []ClustersAreDays
<1>1. Init => DaysInv
  BY InitDays
<1>2. IInv /\ IInv' /\ DaysInv /\ [Next]_vars => DaysInv'
  BY DaysStepKeeps
<1>3. IInv /\ DaysInv => ClustersAreDays
  BY DaysFollow
<1> QED BY <1>1, <1>2, <1>3, LinkingInvariant, PTL DEF Spec

===============================================================================
