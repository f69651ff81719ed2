---------------------------- MODULE ContentProofs ----------------------------
(***************************************************************************)
(* What is made from documents, for every set of tables, sources,          *)
(* sessions, requests and organizations: whatever migrations and deletions *)
(* follow each other, the schema is the one of its revision and a document *)
(* takes with it what was made from it and no more; archives of            *)
(* undisturbed content are whole and so are restores of them; research     *)
(* sessions show only what their organization may see; and the reports on  *)
(* a deployment agree.                                                     *)
(***************************************************************************)
EXTENDS ContentRows, ArchiveContents, ResearchSessions, DeploymentReports,
        FiniteSetTheorems, SequenceTheorems, WellFoundedInduction, TLAPS

(* Induction over numbers, for sets.                                       *)
LEMMA Induction ==
  ASSUME NEW S \in SUBSET Nat, 0 \in S, \A n \in S : n + 1 \in S
  PROVE  \A n \in Nat : n \in S
<1> DEFINE Less == {p \in Nat \X Nat : p[1] < p[2]}
           Left == Nat \ S
<1>1. IsWellFoundedOn(Less, Nat)
  BY NatLessThanWellFounded DEF OpToRel
<1>2. SUFFICES ASSUME Left # {} PROVE FALSE
  OBVIOUS
<1>3. PICK x \in Left : \A y \in Left : ~(<<y, x>> \in Less)
  <2> HIDE DEF Less
  <2> QED BY <1>1, <1>2, WFMin
<1>4. x \in Nat /\ x # 0 /\ x - 1 \in Nat
  OBVIOUS
<1>5. <<x - 1, x>> \in Less
  BY <1>4
<1>6. x - 1 \in S
  <2> HIDE DEF Less
  <2> QED BY <1>3, <1>4, <1>5
<1> QED BY <1>4, <1>6

--------------------------------------------------------------------------------

\* The steps of a closure.
Searched(f, T, R, m) == f = [n \in 0..m |-> IF n = 0 THEN T ELSE Reached(f[n - 1], R)]

LEMMA SearchesExist ==
  ASSUME NEW T, NEW R, NEW m \in Nat
  PROVE  \E f : Searched(f, T, R, m)
<1> DEFINE S == {k \in Nat : \E f : Searched(f, T, R, k)}
<1>1. 0 \in S
  <2>1. Searched([n \in 0..0 |-> T], T, R, 0)
    BY DEF Searched
  <2> QED BY <2>1
<1>2. ASSUME NEW k \in S PROVE k + 1 \in S
  <2>1. PICK f : Searched(f, T, R, k)
    OBVIOUS
  <2>a. PICK x : x = Reached(f[k], R)
    OBVIOUS
  <2>b. PICK g : g = [n \in 0..(k + 1) |-> IF n = k + 1 THEN x ELSE f[n]]
    OBVIOUS
  <2>2. k \in Nat
    OBVIOUS
  <2>3. ASSUME NEW n \in 0..(k + 1)
        PROVE  g[n] = IF n = 0 THEN T ELSE Reached(g[n - 1], R)
    <3>1. CASE n = k + 1
      <4>1. g[n] = x /\ n - 1 = k /\ g[k] = f[k] /\ n # 0
        BY <2>b, <2>2, <3>1
      <4> QED BY <2>a, <4>1
    <3>2. CASE n # k + 1
      <4>1. n \in 0..k /\ g[n] = f[n]
        BY <2>b, <2>2, <3>2
      <4>2. f[n] = IF n = 0 THEN T ELSE Reached(f[n - 1], R)
        BY <2>1, <4>1 DEF Searched
      <4>3. n # 0 => g[n - 1] = f[n - 1]
        BY <2>b, <2>2, <4>1
      <4> QED BY <4>1, <4>2, <4>3
    <3> QED BY <3>1, <3>2
  <2>4. Searched(g, T, R, k + 1)
    BY <2>b, <2>3 DEF Searched
  <2> QED BY <2>2, <2>4
<1> HIDE DEF S
<1>3. m \in S
  BY <1>1, <1>2, Induction DEF S
<1> QED BY <1>3 DEF S

LEMMA ClosureIs ==
  ASSUME NEW T, NEW R, NEW m \in Nat, m = Cardinality({r.from : r \in R}),
         NEW f, Searched(f, T, R, m)
  PROVE  Closure(T, R) = f[m]
<1> DEFINE Found(u) == u = [n \in 0..m |-> IF n = 0 THEN T ELSE Reached(u[n - 1], R)]
           found == CHOOSE u : Found(u)
<1>1. Closure(T, R) = found[m]
  BY DEF Closure
<1>2. Found(f)
  BY DEF Searched
<1>3. Found(found)
  <2> HIDE DEF Found
  <2> QED BY <1>2
<1> DEFINE S == {k \in Nat : k <= m => found[k] = f[k]}
<1> HIDE DEF found
<1>4. 0 \in S
  BY <1>3 DEF Searched
<1>5. ASSUME NEW k \in S PROVE k + 1 \in S
  <2> SUFFICES ASSUME k + 1 <= m PROVE found[k + 1] = f[k + 1]
    OBVIOUS
  <2>1. k \in 0..m /\ k + 1 \in 0..m /\ k + 1 # 0 /\ (k + 1) - 1 = k /\ found[k] = f[k]
    OBVIOUS
  <2>2. found[k + 1] = Reached(found[(k + 1) - 1], R)
    BY <1>3, <2>1
  <2>3. f[k + 1] = Reached(f[(k + 1) - 1], R)
    BY <2>1 DEF Searched
  <2> QED BY <2>1, <2>2, <2>3
<1> HIDE DEF S
<1>6. m \in S
  BY <1>4, <1>5, Induction DEF S
<1> QED BY <1>1, <1>6 DEF S

Froms(R) == {r.from : r \in R}

LEMMA FromsAreFinite ==
  ASSUME NEW R, IsFiniteSet(R)
  PROVE  IsFiniteSet(Froms(R))
<1>1. PICK n \in Nat : ExistsSurjection(1..n, R)
  BY FS_NatSurjection
<1>2. PICK g : g \in Surjection(1..n, R)
  BY <1>1 DEF ExistsSurjection
<1>3. g \in [1..n -> R] /\ \A r \in R : \E i \in 1..n : g[i] = r
  BY <1>2 DEF Surjection
<1>4. PICK h : h = [i \in 1..n |-> g[i].from]
  OBVIOUS
<1>5. h \in [1..n -> Froms(R)] /\ \A t \in Froms(R) : \E i \in 1..n : h[i] = t
  BY <1>3, <1>4 DEF Froms
<1>6. h \in Surjection(1..n, Froms(R))
  BY <1>5 DEF Surjection
<1> QED BY <1>6, FS_NatSurjection DEF ExistsSurjection

\* A closure is reached in m steps, each of them from the last.
ReachedBy(f, m, T, R) ==
  /\ m \in Nat /\ m = Cardinality(Froms(R))
  /\ Closure(T, R) = f[m] /\ f[0] = T
  /\ \A n \in 0..(m - 1) : f[n + 1] = Reached(f[n], R)

LEMMA ClosureIsSearched ==
  ASSUME NEW T, NEW R, IsFiniteSet(R)
  PROVE  \E f, m : ReachedBy(f, m, T, R)
<1>1. PICK F : F = Froms(R)
  OBVIOUS
<1>2. IsFiniteSet(F)
  BY <1>1, FromsAreFinite
<1>3. PICK m \in Nat : m = Cardinality(F)
  BY <1>2, FS_CardinalityType
<1>4. PICK f : Searched(f, T, R, m)
  BY SearchesExist
<1>5. Closure(T, R) = f[m]
  BY <1>1, <1>3, <1>4, ClosureIs DEF Froms
<1>6. f[0] = T
  BY <1>4 DEF Searched
<1>7. ASSUME NEW n \in 0..(m - 1) PROVE f[n + 1] = Reached(f[n], R)
  <2>1. n + 1 \in 0..m /\ n + 1 # 0 /\ (n + 1) - 1 = n
    OBVIOUS
  <2>2. f[n + 1] = Reached(f[(n + 1) - 1], R)
    BY <1>4, <2>1 DEF Searched
  <2> QED BY <2>1, <2>2
<1>8. ReachedBy(f, m, T, R)
  BY <1>1, <1>3, <1>5, <1>6, <1>7 DEF ReachedBy
<1> QED BY <1>8

(* A closure has its tables, and is within every set that has them and     *)
(* what refers to what it has.                                             *)
LEMMA ClosureIsLeast ==
  ASSUME NEW T, NEW R, IsFiniteSet(R), NEW Z, T \subseteq Z,
         \A r \in R : r.parent \in Z => r.from \in Z
  PROVE  T \subseteq Closure(T, R) /\ Closure(T, R) \subseteq Z
<1>1. PICK f, m : ReachedBy(f, m, T, R)
  BY ClosureIsSearched
<1>2. /\ m \in Nat /\ Closure(T, R) = f[m] /\ f[0] = T
      /\ \A n \in 0..(m - 1) : f[n + 1] = Reached(f[n], R)
  BY <1>1 DEF ReachedBy
<1> DEFINE S == {k \in Nat : k <= m => T \subseteq f[k] /\ f[k] \subseteq Z}
<1>3. 0 \in S
  BY <1>2
<1>4. ASSUME NEW k \in S PROVE k + 1 \in S
  <2> SUFFICES ASSUME k + 1 <= m PROVE T \subseteq f[k + 1] /\ f[k + 1] \subseteq Z
    OBVIOUS
  <2>1. k \in 0..(m - 1) /\ T \subseteq f[k] /\ f[k] \subseteq Z
    BY <1>2
  <2>2. f[k + 1] = Reached(f[k], R)
    BY <1>2, <2>1
  <2> QED BY <2>1, <2>2 DEF Reached
<1> HIDE DEF S
<1>5. m \in S
  BY <1>2, <1>3, <1>4, Induction DEF S
<1> QED BY <1>2, <1>5 DEF S

LEMMA ClosureHas ==
  ASSUME NEW T, NEW R, IsFiniteSet(R)
  PROVE  T \subseteq Closure(T, R)
<1>1. PICK Z : Z = T \cup {r.from : r \in R}
  OBVIOUS
<1>2. T \subseteq Z /\ \A r \in R : r.from \in Z
  BY <1>1
<1> QED BY <1>2, ClosureIsLeast

(* A closure has what refers to what it has: each step that was not the    *)
(* last found one table more.                                              *)
LEMMA ClosureIsClosed ==
  ASSUME NEW T, NEW R, IsFiniteSet(R), NEW q \in R, q.parent \in Closure(T, R)
  PROVE  q.from \in Closure(T, R)
<1>1. PICK f, m : ReachedBy(f, m, T, R)
  BY ClosureIsSearched
<1>2. /\ m \in Nat /\ Closure(T, R) = f[m] /\ f[0] = T
      /\ \A n \in 0..(m - 1) : f[n + 1] = Reached(f[n], R)
  BY <1>1 DEF ReachedBy
<1>3. PICK F : F = Froms(R)
  OBVIOUS
<1>4. IsFiniteSet(F) /\ m = Cardinality(F) /\ \A r \in R : r.from \in F
  <2>1. IsFiniteSet(F)
    BY <1>3, FromsAreFinite
  <2>2. m = Cardinality(F)
    BY <1>1, <1>3 DEF ReachedBy
  <2> QED BY <1>3, <2>1, <2>2 DEF Froms
<1> DEFINE Closed(k) == \A r \in R : r.parent \in f[k] => r.from \in f[k]
           S == {k \in Nat : k <= m => Closed(k) \/ Cardinality(f[k] \cap F) >= k}
<1>5. \A k : IsFiniteSet(f[k] \cap F) /\ Cardinality(f[k] \cap F) \in Nat
             /\ Cardinality(f[k] \cap F) <= Cardinality(F)
             /\ (Cardinality(f[k] \cap F) = Cardinality(F) => f[k] \cap F = F)
  <2> TAKE k
  <2>1. f[k] \cap F \subseteq F
    OBVIOUS
  <2> QED BY <1>4, <2>1, FS_Subset, FS_CardinalityType
<1>6. 0 \in S
  BY <1>5
<1>7. ASSUME NEW k \in S PROVE k + 1 \in S
  <2> SUFFICES ASSUME k + 1 <= m PROVE Closed(k + 1) \/ Cardinality(f[k + 1] \cap F) >= k + 1
    OBVIOUS
  <2>1. k \in 0..(m - 1) /\ (Closed(k) \/ Cardinality(f[k] \cap F) >= k)
    BY <1>2
  <2>2. f[k + 1] = Reached(f[k], R)
    BY <1>2, <2>1
  <2>3. CASE Closed(k)
    <3>1. f[k + 1] = f[k]
      BY <2>2, <2>3 DEF Reached
    <3> QED BY <2>3, <3>1
  <2>4. CASE ~Closed(k) /\ Cardinality(f[k] \cap F) >= k
    <3>1. PICK r \in R : r.parent \in f[k] /\ r.from \notin f[k]
      BY <2>4
    <3>2. r.from \in f[k + 1] /\ f[k] \subseteq f[k + 1] /\ r.from \in F
      BY <1>4, <2>2, <3>1 DEF Reached
    <3>3. f[k] \cap F \subseteq f[k + 1] \cap F /\ f[k] \cap F # f[k + 1] \cap F
      BY <3>1, <3>2
    <3>4. /\ Cardinality(f[k] \cap F) <= Cardinality(f[k + 1] \cap F)
          /\ Cardinality(f[k] \cap F) # Cardinality(f[k + 1] \cap F)
      BY <1>5, <3>3, FS_Subset
    <3>5. PICK a : a = Cardinality(f[k] \cap F)
      OBVIOUS
    <3>6. PICK b : b = Cardinality(f[k + 1] \cap F)
      OBVIOUS
    <3>7. a \in Nat /\ b \in Nat /\ a <= b /\ a # b /\ a >= k /\ k \in Nat
      BY <1>5, <2>4, <3>4, <3>5, <3>6, Zenon
    <3>8. b >= k + 1
      BY <3>7
    <3> QED BY <3>6, <3>8
  <2> QED BY <2>1, <2>3, <2>4
<1>8. m \in S
  <2> HIDE DEF S
  <2> QED BY <1>2, <1>6, <1>7, Induction DEF S
<1>9. CASE Closed(m)
  BY <1>2, <1>9
<1>10. CASE Cardinality(f[m] \cap F) >= m
  <2>a. PICK a : a = Cardinality(f[m] \cap F)
    OBVIOUS
  <2>b. a \in Nat /\ a <= m /\ a >= m
    BY <1>4, <1>5, <1>10, <2>a, Zenon
  <2>c. a = m
    BY <1>2, <2>b
  <2>1. f[m] \cap F = F
    BY <1>4, <1>5, <2>a, <2>c, Zenon
  <2> QED BY <1>2, <1>4, <2>1
<1> QED BY <1>8, <1>9, <1>10

--------------------------------------------------------------------------------

\* What holds of the rows at any number of revisions.  Rows refer to rows; a
\* cluster has its members and an event its evidence.
SchemaSound == applied \in 0..Newest /\ schema \in Schemas(applied)

RowsSound ==
    /\ rows \subseteq Stored /\ rows \subseteq schema.tables
    /\ \A r \in schema.references : r.from \in rows /\ r.parent \in Stored => r.parent \in rows
    /\ "event_clusters" \in rows => "event_cluster_members" \in rows
    /\ "events" \in rows => "event_evidence" \in rows

OwnedSound ==
    /\ owned \subseteq rows \cap Owned
    /\ \A t \in owned : OrganizationOf(t) \in schema.columns

\* The inductive invariant of ContentSpec.
ContentInv ==
    /\ SchemaSound /\ RowsSound /\ OwnedSound
    /\ RefusalsHaveACause /\ ClustersFollowTheirSource

LEMMA SchemaIs ==
    ASSUME NEW n, NEW s \in Schemas(n)
    PROVE  /\ s.tables = SchemaAt[n].tables /\ s.columns = SchemaAt[n].columns
           /\ s.references = SchemaAt[n].references
  BY DEF Schemas

LEMMA RunsOnNewest ==
    ASSUME ContentInv, Running
    PROVE  /\ schema.tables = NewestSchema.tables /\ schema.columns = NewestSchema.columns
           /\ schema.references = NewestSchema.references
  BY SchemaIs DEF ContentInv, SchemaSound, Running, NewestSchema

LEMMA ReferencesAreFinite ==
    ASSUME ContentInv, Running
    PROVE  References \subseteq NewestSchema.references /\ IsFiniteSet(References)
<1>1. References \subseteq NewestSchema.references
  BY RunsOnNewest DEF References
<1>2. QED
  BY <1>1, DocumentsAssumption, FS_Subset

(* What goes with rows: all that refers to it by cascade, and nothing else.*)
LEMMA CascadesFollow ==
    ASSUME ContentInv, Running, NEW T
    PROVE  /\ T \subseteq Cascaded(T)
           /\ \A r \in References :
                r.rule = "cascade" /\ r.parent \in Cascaded(T) => r.from \in Cascaded(T)
<1>1. PICK R : R = {r \in References : r.rule = "cascade"}
  OBVIOUS
<1>2. R \subseteq References /\ IsFiniteSet(References)
  BY <1>1, ReferencesAreFinite
<1>3. IsFiniteSet(R) /\ Cascaded(T) = Closure(T, R)
  BY <1>1, <1>2, FS_Subset DEF Cascaded
<1>4. T \subseteq Cascaded(T)
  BY <1>3, ClosureHas
<1>5. ASSUME NEW r \in References, r.rule = "cascade", r.parent \in Cascaded(T)
      PROVE  r.from \in Cascaded(T)
  BY <1>1, <1>3, <1>5, ClosureIsClosed
<1>6. QED
  BY <1>4, <1>5

LEMMA CascadesStay ==
    ASSUME ContentInv, Running, NEW T, NEW Z, T \subseteq Z,
           \A r \in NewestSchema.references :
               r.rule = "cascade" /\ r.parent \in Z => r.from \in Z
    PROVE  Cascaded(T) \subseteq Z
<1>1. PICK R : R = {r \in References : r.rule = "cascade"}
  OBVIOUS
<1>2. /\ R \subseteq References /\ IsFiniteSet(References)
      /\ References \subseteq NewestSchema.references
  BY <1>1, ReferencesAreFinite
<1>3. IsFiniteSet(R) /\ Cascaded(T) = Closure(T, R)
  BY <1>1, <1>2, FS_Subset DEF Cascaded
<1>4. \A r \in R : r.parent \in Z => r.from \in Z
  BY <1>1, <1>2
<1>5. QED
  BY <1>3, <1>4, ClosureIsLeast

(* What refers to documents: closed, and where deletions stop.             *)
LEMMA FromDocumentsIsClosed ==
    /\ "documents" \in FromDocuments
    /\ \A r \in NewestSchema.references : r.parent \in FromDocuments => r.from \in FromDocuments
<1>1. IsFiniteSet(NewestSchema.references)
  BY DocumentsAssumption
<1>2. {"documents"} \subseteq FromDocuments
  BY <1>1, ClosureHas DEF FromDocuments
<1>3. ASSUME NEW r \in NewestSchema.references, r.parent \in FromDocuments
      PROVE  r.from \in FromDocuments
  BY <1>1, <1>3, ClosureIsClosed DEF FromDocuments
<1>4. QED
  BY <1>2, <1>3

\* What goes with the chunks of a document.
FromChunks == FromDocuments \ {"documents", "document_assets"}

LEMMA DeletionsStop ==
    ASSUME ContentInv, Running
    PROVE  /\ Cascaded({"documents"}) \subseteq FromDocuments
           /\ Cascaded({"document_chunks"}) \subseteq FromChunks
           /\ Cascaded({"sources"}) = {"sources"}
<1>1. Cascaded({"documents"}) \subseteq FromDocuments
  <2>1. PICK Z : Z = FromDocuments
    OBVIOUS
  <2>2. {"documents"} \subseteq Z
    BY <2>1, FromDocumentsIsClosed
  <2>3. \A r \in NewestSchema.references : r.rule = "cascade" /\ r.parent \in Z => r.from \in Z
    BY <2>1, FromDocumentsIsClosed
  <2>4. QED
    BY <2>1, <2>2, <2>3, CascadesStay
<1>2. Cascaded({"document_chunks"}) \subseteq FromChunks
  <2>1. PICK Z : Z = FromChunks
    OBVIOUS
  <2>2. {"document_chunks"} \subseteq Z
    BY <2>1, DocumentsAssumption DEF FromChunks
  <2>3. ASSUME NEW r \in NewestSchema.references, r.rule = "cascade", r.parent \in Z
        PROVE  r.from \in Z
    <3>1. r.parent \in FromDocuments /\ r.parent # "documents"
      BY <2>1, <2>3 DEF FromChunks
    <3>2. r.parent # "sources"
      BY <3>1, DocumentsAssumption
    <3>3. r.from \notin {"documents", "document_assets"}
      BY <3>1, <3>2, DocumentsAssumption
    <3>4. QED
      BY <2>1, <3>1, <3>3, FromDocumentsIsClosed DEF FromChunks
  <2>4. QED
    BY <2>1, <2>2, <2>3, CascadesStay
<1>3. Cascaded({"sources"}) = {"sources"}
  <2>1. PICK Z : Z = {"sources"}
    OBVIOUS
  <2>2. \A r \in NewestSchema.references : r.rule = "cascade" /\ r.parent \in Z => r.from \in Z
    BY <2>1, DocumentsAssumption
  <2>3. QED
    BY <2>1, <2>2, CascadesStay, CascadesFollow
<1>4. QED
  BY <1>1, <1>2, <1>3

(* No deletion of a document, and no replacement of its chunks, is refused.*)
LEMMA DeletionsAreAccepted ==
    ASSUME ContentInv, Running
    PROVE  /\ Deletable(rows \ DeletedFirst, {"documents"})
           /\ Deletable(rows, {"document_chunks"})
<1>1. Deletable(rows \ DeletedFirst, {"documents"})
  BY DeletionsStop, ReferencesAreFinite, DocumentsAssumption DEF Deletable
<1>2. Deletable(rows, {"document_chunks"})
  BY DeletionsStop, ReferencesAreFinite, DocumentsAssumption DEF Deletable, FromChunks
<1>3. QED
  BY <1>1, <1>2

(* After an accepted deletion no row that is left refers to one that went. *)
LEMMA NothingDangles ==
    ASSUME ContentInv, Running, NEW there, there \subseteq rows, NEW T, Deletable(there, T),
           Cascaded(T) \subseteq FromDocuments,
           NEW r \in schema.references, r.from \in there \ Cascaded(T), r.parent \in rows
    PROVE  r.parent \notin Cascaded(T)
<1> SUFFICES ASSUME r.parent \in Cascaded(T) PROVE FALSE
  OBVIOUS
<1>1. r \in References
  BY DEF References
<1>2. r.parent \in FromDocuments /\ r \in NewestSchema.references
  BY RunsOnNewest
<1>3. r.rule \in {"cascade", "restrict"}
  BY <1>2, DocumentsAssumption
<1>4. CASE r.rule = "cascade"
  BY <1>1, <1>4, CascadesFollow
<1>5. CASE r.rule = "restrict"
  BY <1>1, <1>5 DEF Deletable
<1>6. QED
  BY <1>3, <1>4, <1>5

\* Rows that refer to each other, and clusters among them that have members.
Whole(left) ==
    /\ left \subseteq rows
    /\ \A r \in schema.references : r.from \in left /\ r.parent \in Stored => r.parent \in left
    /\ "event_clusters" \in left => "event_cluster_members" \in left

LEMMA OrphansGo ==
    ASSUME ContentInv, Running, NEW left, Whole(left)
    PROVE  /\ Whole(WithoutOrphans(left))
           /\ "events" \in WithoutOrphans(left) => "event_evidence" \in WithoutOrphans(left)
           /\ WithoutOrphans(left) \subseteq left
           /\ left \ WithoutOrphans(left)
                \subseteq {"events", "event_clusters", "event_cluster_members"}
<1>1. CASE "events" \in left /\ "event_evidence" \notin left
  <2>1. WithoutOrphans(left) = left \ {"events", "event_cluster_members", "event_clusters"}
    BY <1>1 DEF WithoutOrphans
  <2>2. ASSUME NEW r \in schema.references, r.from \in WithoutOrphans(left), r.parent \in Stored
        PROVE  r.parent \in WithoutOrphans(left)
    <3>1. r \in NewestSchema.references /\ r.parent \in left
      BY <2>1, <2>2, RunsOnNewest DEF Whole
    <3>2. r.parent \notin {"events", "event_cluster_members", "event_clusters"}
      BY <1>1, <2>1, <2>2, <3>1, DocumentsAssumption
    <3>3. QED
      BY <2>1, <3>1, <3>2
  <2>3. QED
    BY <2>1, <2>2 DEF Whole
<1>2. CASE ~("events" \in left /\ "event_evidence" \notin left)
  <2>1. WithoutOrphans(left) = left
    BY <1>2 DEF WithoutOrphans
  <2>2. QED
    BY <1>2, <2>1
<1>3. QED
  BY <1>1, <1>2

--------------------------------------------------------------------------------

LEMMA NewestIs == Newest = 59
  BY DEF Newest, History

LEMMA ContentStarts == ContentInit => ContentInv
<1> SUFFICES ASSUME ContentInit PROVE ContentInv
  OBVIOUS
<1>1. SchemaSound
  <2>1. EmptySchema \in Schemas(0)
    BY RevisionsAssumption
  <2>2. 0 \in 0..Newest
    BY NewestIs
  <2> QED BY <2>1, <2>2 DEF ContentInit, SchemaSound
<1>2. RowsSound /\ OwnedSound /\ RefusalsHaveACause /\ ClustersFollowTheirSource
  BY DEF ContentInit, RowsSound, OwnedSound, RefusalsHaveACause, ClustersFollowTheirSource
<1>3. QED
  BY <1>1, <1>2 DEF ContentInv

LEMMA SchemaUpgradeKeeps == ContentInv /\ Upgrade => ContentInv'
<1> SUFFICES ASSUME ContentInv, Upgrade PROVE ContentInv'
  OBVIOUS
<1>1. PICK n \in 1..Newest : n = applied + 1 /\ n - 1 = applied /\ n \in 0..Newest
                             /\ n - 1 \in 0..Newest
  BY NewestIs DEF ContentInv, SchemaSound, Upgrade
<1>2. PICK done : done = Migrated(schema, History[n].up)
  OBVIOUS
<1>3. schema \in Schemas(n - 1)
  BY <1>1 DEF ContentInv, SchemaSound
<1>4. done.accepted /\ done.schema \in Schemas(n)
  BY <1>2, <1>3, RevisionsAssumption
<1>5. /\ applied' = n /\ schema' = done.schema
      /\ owned' = owned \cup Backfilled(History[n])
      /\ refused' = refused /\ rows' = rows
  BY <1>1, <1>2, <1>4 DEF Upgrade
<1>6. /\ schema.tables = SchemaAt[n - 1].tables /\ schema.columns = SchemaAt[n - 1].columns
      /\ schema.references = SchemaAt[n - 1].references
      /\ schema'.tables = SchemaAt[n].tables /\ schema'.columns = SchemaAt[n].columns
      /\ schema'.references = SchemaAt[n].references
  BY <1>3, <1>4, <1>5, SchemaIs
<1>7. SchemaSound'
  BY <1>1, <1>4, <1>5 DEF SchemaSound
<1>8. RowsSound'
  <2>1. rows \subseteq SchemaAt[n].tables
    BY <1>1, <1>6, SchemasAssumption DEF ContentInv, RowsSound
  <2>2. ASSUME NEW r \in SchemaAt[n].references, r.from \in rows, r.parent \in Stored
        PROVE  r.parent \in rows
    <3>1. r.from \in SchemaAt[n - 1].tables
      BY <1>6, <2>2 DEF ContentInv, RowsSound
    <3>2. r.parent \notin Accounts
      BY <2>2, StoredAssumption
    <3>3. r \in SchemaAt[n - 1].references
      BY <1>1, <2>2, <3>1, <3>2, SchemasAssumption
    <3>4. QED
      BY <1>6, <2>2, <3>3 DEF ContentInv, RowsSound
  <2>3. QED
    BY <1>5, <1>6, <2>1, <2>2 DEF ContentInv, RowsSound
<1>9. PICK own : own = OrganizationOf("event_clusters")
  OBVIOUS
<1>10. /\ Backfilled(History[n]) = {"event_clusters"} =>
            own \in SchemaAt[n].columns \ SchemaAt[n - 1].columns
       /\ Backfilled(History[n]) =
            IF /\ own \in SchemaAt[n].columns \ SchemaAt[n - 1].columns
               /\ "sources" \in owned /\ "event_clusters" \in rows
            THEN {"event_clusters"} ELSE {}
  BY <1>1, <1>9, RevisionsAssumption DEF Backfilled
<1>11. OwnedSound'
  <2>1. SchemaAt[n - 1].columns \subseteq SchemaAt[n].columns
    BY <1>1, SchemasAssumption
  <2>2. "event_clusters" \in rows => "event_clusters" \in Owned
    BY DEF ContentInv, RowsSound, Owned
  <2>3. \A t \in owned : OrganizationOf(t) \in SchemaAt[n].columns
    BY <1>6, <2>1 DEF ContentInv, OwnedSound
  <2>4. \A t \in Backfilled(History[n]) :
           OrganizationOf(t) \in SchemaAt[n].columns /\ t \in rows \cap Owned
    BY <1>9, <1>10, <2>2
  <2>5. QED
    BY <1>5, <1>6, <2>3, <2>4 DEF ContentInv, OwnedSound
<1>12. ClustersFollowTheirSource'
  <2> SUFFICES ASSUME "event_clusters" \in rows, own \in SchemaAt[n].columns
               PROVE  "event_clusters" \in owned' <=> "sources" \in owned'
    BY <1>5, <1>6, <1>9 DEF ClustersFollowTheirSource
  <2>1. CASE own \in SchemaAt[n - 1].columns
    BY <1>5, <1>6, <1>9, <1>10, <2>1 DEF ContentInv, ClustersFollowTheirSource
  <2>2. CASE own \notin SchemaAt[n - 1].columns
    <3>1. "event_clusters" \notin owned
      BY <1>6, <1>9, <2>2 DEF ContentInv, OwnedSound
    <3>2. QED
      BY <1>5, <1>10, <2>2, <3>1
  <2>3. QED
    BY <2>1, <2>2
<1>13. RefusalsHaveACause'
  BY <1>5 DEF ContentInv, RefusalsHaveACause
<1>14. QED
  BY <1>7, <1>8, <1>11, <1>12, <1>13 DEF ContentInv

LEMMA SchemaDowngradeKeeps == ContentInv /\ Downgrade => ContentInv'
<1> SUFFICES ASSUME ContentInv, Downgrade PROVE ContentInv'
  OBVIOUS
<1>1. PICK n \in 1..Newest : n = applied /\ n \in 0..Newest /\ n - 1 \in 0..Newest
  BY NewestIs DEF ContentInv, SchemaSound, Downgrade
<1>2. PICK done : done = Migrated(schema, History[n].down)
  OBVIOUS
<1>3. schema \in Schemas(n)
  BY <1>1 DEF ContentInv, SchemaSound
<1>4. done.accepted /\ done.schema \in Schemas(n - 1)
  BY <1>2, <1>3, RevisionsAssumption
<1>5. CASE Fits(History[n])
  <2>1. /\ applied' = n - 1 /\ schema' = done.schema /\ refused' = refused
        /\ rows' = rows \cap schema'.tables
        /\ owned' = {t \in owned : t \in schema'.tables /\ OrganizationOf(t) \in schema'.columns}
    BY <1>1, <1>2, <1>4, <1>5 DEF Downgrade, Kept
  <2>2. /\ schema.tables = SchemaAt[n].tables /\ schema.columns = SchemaAt[n].columns
        /\ schema.references = SchemaAt[n].references
        /\ schema'.tables = SchemaAt[n - 1].tables /\ schema'.columns = SchemaAt[n - 1].columns
        /\ schema'.references = SchemaAt[n - 1].references
    BY <1>3, <1>4, <2>1, SchemaIs
  <2>3. SchemaSound'
    BY <1>1, <1>4, <2>1 DEF SchemaSound
  <2>4. RowsSound'
    <3>1. ASSUME NEW r \in SchemaAt[n - 1].references, r.from \in rows', r.parent \in Stored
          PROVE  r.parent \in rows'
      <4>1. r \in SchemaAt[n].references /\ r.parent \in SchemaAt[n - 1].tables
        BY <1>1, SchemasAssumption
      <4>2. r.parent \in rows
        BY <2>1, <2>2, <3>1, <4>1 DEF ContentInv, RowsSound
      <4>3. QED
        BY <2>1, <2>2, <4>1, <4>2
    <3>2. /\ "event_clusters" \in rows' => "event_cluster_members" \in rows'
          /\ "events" \in rows' => "event_evidence" \in rows'
      BY <1>1, <2>1, <2>2, SchemasAssumption DEF ContentInv, RowsSound
    <3>3. QED
      BY <2>1, <2>2, <3>1, <3>2 DEF ContentInv, RowsSound
  <2>5. OwnedSound'
    BY <2>1 DEF ContentInv, OwnedSound, RowsSound
  <2>6. ClustersFollowTheirSource'
    <3> SUFFICES ASSUME "event_clusters" \in rows',
                        OrganizationOf("event_clusters") \in SchemaAt[n - 1].columns
                 PROVE  "event_clusters" \in owned' <=> "sources" \in owned'
      BY <2>2 DEF ClustersFollowTheirSource
    <3>1. /\ "sources" \in SchemaAt[n - 1].tables
          /\ OrganizationOf("sources") \in SchemaAt[n - 1].columns
          /\ OrganizationOf("event_clusters") \in SchemaAt[n].columns
      BY <1>1, SchemasAssumption
    <3>2. "event_clusters" \in owned <=> "sources" \in owned
      BY <2>1, <2>2, <3>1 DEF ContentInv, ClustersFollowTheirSource
    <3>3. QED
      BY <2>1, <2>2, <3>1, <3>2
  <2>7. RefusalsHaveACause'
    BY <2>1 DEF ContentInv, RefusalsHaveACause
  <2>8. QED
    BY <2>3, <2>4, <2>5, <2>6, <2>7 DEF ContentInv
<1>6. CASE ~Fits(History[n])
  <2>1. /\ refused' = refused \cup {<<"downgrade", n>>}
        /\ applied' = applied /\ schema' = schema /\ rows' = rows /\ owned' = owned
    BY <1>1, <1>6 DEF Downgrade
  <2>2. History[n] = align_operation_attempt_columns
    BY <1>1, <1>6, RevisionsAssumption DEF Fits
  <2>3. RefusalsHaveACause'
    BY <2>1, <2>2 DEF ContentInv, RefusalsHaveACause
  <2>4. QED
    BY <2>1, <2>3 DEF ContentInv, SchemaSound, RowsSound, OwnedSound, ClustersFollowTheirSource
<1>7. QED
  BY <1>5, <1>6

LEMMA CompanionsAre ==
    /\ Companion("event_evidence") = {"events"}
    /\ Companion("event_cluster_members") = {"event_clusters"}
    /\ \A t : /\ Companion(t) \subseteq {"events", "entities", "claims", "event_clusters"}
              /\ "events" \in Companion(t) => t = "event_evidence"
              /\ "event_clusters" \in Companion(t) => t = "event_cluster_members"
  BY DEF Companion

LEMMA AddKeeps == ASSUME NEW table \in Stored PROVE ContentInv /\ Add(table) => ContentInv'
<1> SUFFICES ASSUME ContentInv, Add(table) PROVE ContentInv'
  OBVIOUS
<1>a. PICK added : added = {table} \cup (Companion(table) \cap Stored)
  OBVIOUS
<1>1. /\ Running /\ table \notin rows /\ table \notin Companions
      /\ \A r \in schema.references :
           r.from = table /\ r.parent \in Stored => r.parent \in rows \cup added
      /\ rows' = rows \cup added
      /\ owned' = IF "sources" \in owned
                  THEN owned \cup ((added \ rows) \cap Owned) ELSE owned
      /\ applied' = applied /\ schema' = schema /\ refused' = refused
  BY <1>a DEF Add
<1>2. /\ schema.tables = NewestSchema.tables /\ schema.columns = NewestSchema.columns
      /\ schema.references = NewestSchema.references
  BY <1>1, RunsOnNewest
<1>3. added \subseteq Stored /\ Stored \subseteq NewestSchema.tables /\ Stored \cap Accounts = {}
  BY <1>a, StoredAssumption
<1>4. ASSUME NEW t, NEW c, t \in NewestSchema.tables, c \in Stored, Companion(t) = {c}
      PROVE  c # table
  <2>1. t \in Stored
    BY <1>4, StoredAssumption
  <2>2. c \in Companions
    BY <1>4, <2>1 DEF Companions
  <2>3. QED
    BY <1>1, <2>2
<1>5. /\ "event_clusters" \in added => "event_cluster_members" \in added
      /\ "events" \in added => "event_evidence" \in added
  <2>1. NewestSchema = SchemaAt[Newest] /\ Newest \in 0..Newest
    BY NewestIs DEF NewestSchema
  <2>2. /\ "event_clusters" \in Stored => "event_cluster_members" \in NewestSchema.tables
        /\ "events" \in Stored => "event_evidence" \in NewestSchema.tables
    BY <1>3, <2>1, SchemasAssumption
  <2>3. table # "event_clusters" /\ table # "events"
    BY <1>4, <2>2, CompanionsAre
  <2>4. QED
    BY <1>a, <2>3, CompanionsAre
<1>6. RowsSound'
  <2>1. ASSUME NEW r \in NewestSchema.references, r.from \in rows \cup added, r.parent \in Stored
        PROVE  r.parent \in rows \cup added
    <3>1. CASE r.from \in rows
      BY <1>2, <2>1, <3>1 DEF ContentInv, RowsSound
    <3>2. CASE r.from = table
      BY <1>1, <1>2, <2>1, <3>2
    <3>3. CASE r.from \in Companion(table)
      <4>1. r.parent \in Accounts
        BY <3>3, CompanionsAre, DocumentsAssumption
      <4>2. QED
        BY <1>3, <2>1, <4>1
    <3>4. QED
      BY <1>a, <2>1, <3>1, <3>2, <3>3
  <2>2. QED
    BY <1>1, <1>2, <1>3, <1>5, <2>1 DEF ContentInv, RowsSound
<1>7. OwnedSound'
  <2>1. \A t \in Owned : OrganizationOf(t) \in NewestSchema.columns
    BY SchemasAssumption DEF Owned
  <2>2. QED
    BY <1>1, <1>2, <2>1 DEF ContentInv, OwnedSound
<1>8. ClustersFollowTheirSource'
  <2>1. "event_clusters" \in Stored => "event_clusters" \in Owned
    BY DEF Owned
  <2>2. OrganizationOf("event_clusters") \in schema.columns
    BY <1>2, SchemasAssumption
  <2>3. CASE "event_clusters" \in rows
    BY <1>1, <2>2, <2>3 DEF ContentInv, ClustersFollowTheirSource, OwnedSound
  <2>4. CASE "event_clusters" \notin rows
    BY <1>1, <1>3, <2>1, <2>4 DEF ContentInv, ClustersFollowTheirSource, OwnedSound
  <2>5. QED
    BY <2>3, <2>4
<1>9. QED
  BY <1>1, <1>6, <1>7, <1>8 DEF ContentInv, SchemaSound, RefusalsHaveACause

(* The rows that a deletion leaves, with the owners they had.              *)
LEMMA OwnersStay ==
    ASSUME ContentInv, Running, schema' = schema, rows' \subseteq rows,
           owned' = owned \cap rows',
           "event_clusters" \in rows' => ("sources" \in rows => "sources" \in rows')
    PROVE  OwnedSound' /\ ClustersFollowTheirSource'
<1>1. OwnedSound'
  BY DEF ContentInv, OwnedSound
<1>2. OrganizationOf("event_clusters") \in schema.columns
  BY RunsOnNewest, SchemasAssumption
<1>3. ClustersFollowTheirSource'
  BY <1>2 DEF ContentInv, OwnedSound, ClustersFollowTheirSource
<1>4. QED
  BY <1>1, <1>3

(* The rows that are left of a document, before its events are looked at.  *)
LEMMA LeftIsWhole ==
    ASSUME ContentInv, Running, NEW first, first \in {{}, DeletedFirst}, NEW T,
           Deletable(rows \ first, T), Cascaded(T) \subseteq FromDocuments
    PROVE  Whole((rows \ first) \ Cascaded(T))
<1>a. PICK left : left = (rows \ first) \ Cascaded(T)
  OBVIOUS
<1>1. ASSUME NEW r \in schema.references, r.from \in left, r.parent \in Stored
      PROVE  r.parent \in left
  <2>1. r.parent \in rows /\ r \in NewestSchema.references
    BY <1>a, <1>1, RunsOnNewest DEF ContentInv, RowsSound
  <2>2. r.parent \notin first
    BY <1>a, <1>1, <2>1, DocumentsAssumption
  <2>3. r.parent \notin Cascaded(T)
    <3>1. PICK there : there = rows \ first
      OBVIOUS
    <3>2. there \subseteq rows /\ Deletable(there, T) /\ r.from \in there \ Cascaded(T)
      BY <1>a, <1>1, <3>1
    <3>3. QED
      BY <1>1, <2>1, <3>2, NothingDangles
  <2>4. QED
    BY <1>a, <2>1, <2>2, <2>3
<1>2. "event_clusters" \in left => "event_cluster_members" \in left
  <2>1. "event_cluster_members" \notin FromDocuments /\ first \subseteq FromDocuments
    BY DocumentsAssumption
  <2>2. QED
    BY <1>a, <2>1 DEF ContentInv, RowsSound
<1>3. QED
  BY <1>a, <1>1, <1>2 DEF Whole

(* What DeleteDocument does.                                               *)
LEMMA DocumentGoes ==
    ASSUME ContentInv, DeleteDocument
    PROVE  \E left :
             /\ left = (rows \ DeletedFirst) \ Cascaded({"documents"})
             /\ Whole(left) /\ rows' = WithoutOrphans(left)
             /\ UNCHANGED <<applied, schema, refused>> /\ owned' = owned \cap rows'
<1>a. PICK left : left = (rows \ DeletedFirst) \ Cascaded({"documents"})
  OBVIOUS
<1>1. Running
  BY DEF DeleteDocument
<1>2. Deletable(rows \ DeletedFirst, {"documents"})
  BY <1>1, DeletionsAreAccepted
<1>3. Cascaded({"documents"}) \subseteq FromDocuments
  BY <1>1, DeletionsStop
<1>4. Whole(left)
  BY <1>a, <1>1, <1>2, <1>3, LeftIsWhole
<1>5. /\ rows' = WithoutOrphans(left)
      /\ UNCHANGED <<applied, schema, refused>> /\ owned' = owned \cap rows'
  BY <1>a, <1>2 DEF DeleteDocument
<1>6. QED
  BY <1>a, <1>4, <1>5

LEMMA DeleteDocumentKeeps == ContentInv /\ DeleteDocument => ContentInv'
<1> SUFFICES ASSUME ContentInv, DeleteDocument PROVE ContentInv'
  OBVIOUS
<1>1. Running
  BY DEF DeleteDocument
<1>2. PICK left :
        /\ left = (rows \ DeletedFirst) \ Cascaded({"documents"})
        /\ Whole(left) /\ rows' = WithoutOrphans(left)
        /\ UNCHANGED <<applied, schema, refused>> /\ owned' = owned \cap rows'
  BY DocumentGoes
<1>3. /\ Whole(rows') /\ ("events" \in rows' => "event_evidence" \in rows')
      /\ rows' \subseteq left
      /\ left \ rows' \subseteq {"events", "event_clusters", "event_cluster_members"}
  BY <1>1, <1>2, OrphansGo
<1>4. RowsSound'
  BY <1>2, <1>3 DEF ContentInv, RowsSound, Whole
<1>5. "sources" \in rows => "sources" \in rows'
  <2>1. "sources" \notin FromDocuments /\ DeletedFirst \subseteq FromDocuments
    BY DocumentsAssumption
  <2>2. Cascaded({"documents"}) \subseteq FromDocuments
    BY <1>1, DeletionsStop
  <2>3. QED
    BY <1>2, <1>3, <2>1, <2>2
<1>6. OwnedSound' /\ ClustersFollowTheirSource'
  <2>1. rows' \subseteq rows
    BY <1>2, <1>3
  <2>2. QED
    BY <1>1, <1>2, <1>5, <2>1, OwnersStay
<1>7. QED
  BY <1>2, <1>4, <1>6 DEF ContentInv, SchemaSound, RefusalsHaveACause

LEMMA ReplaceChunksKeeps == ContentInv /\ ReplaceChunks => ContentInv'
<1> SUFFICES ASSUME ContentInv, ReplaceChunks PROVE ContentInv'
  OBVIOUS
<1>1. Running /\ "document_chunks" \in rows
  BY DEF ReplaceChunks
<1>2. Deletable(rows, {"document_chunks"})
  BY <1>1, DeletionsAreAccepted
<1>3. Cascaded({"document_chunks"}) \subseteq FromChunks /\ FromChunks \subseteq FromDocuments
  BY <1>1, DeletionsStop DEF FromChunks
<1>a. PICK left : left = (rows \ {}) \ Cascaded({"document_chunks"})
  OBVIOUS
<1>4. Whole(left)
  <2>1. PICK first : first = {}
    OBVIOUS
  <2>2. Deletable(rows \ first, {"document_chunks"})
    <3>1. rows \ first = rows
      BY <2>1
    <3>2. QED
      BY <1>2, <3>1
  <2>3. Whole((rows \ first) \ Cascaded({"document_chunks"}))
    BY <1>1, <1>3, <2>1, <2>2, LeftIsWhole
  <2>4. QED
    BY <1>a, <2>1, <2>3
<1>b. PICK whole : whole = WithoutOrphans(left)
  OBVIOUS
<1>5. /\ rows' = {"document_chunks"} \cup whole
      /\ UNCHANGED <<applied, schema, refused>> /\ owned' = owned \cap rows'
  <2>1. left = rows \ Cascaded({"document_chunks"})
    BY <1>a
  <2>2. QED
    BY <1>2, <1>b, <2>1 DEF ReplaceChunks
<1>6. /\ Whole(whole) /\ ("events" \in whole => "event_evidence" \in whole)
      /\ whole \subseteq left
      /\ left \ whole \subseteq {"events", "event_clusters", "event_cluster_members"}
  BY <1>1, <1>4, <1>b, OrphansGo
<1>7. \A t \in {"sources", "documents"} : t \in rows => t \in whole
  <2>1. "sources" \notin FromDocuments /\ "documents" \notin FromChunks
    BY DocumentsAssumption DEF FromChunks
  <2>2. QED
    BY <1>a, <1>3, <1>6, <2>1
<1>8. RowsSound'
  <2>1. ASSUME NEW r \in schema.references, r.from \in rows', r.parent \in Stored
        PROVE  r.parent \in rows'
    <3>1. CASE r.from \in whole
      BY <1>5, <1>6, <2>1, <3>1 DEF Whole
    <3>2. CASE r.from = "document_chunks"
      <4>1. r.parent \in rows /\ r \in NewestSchema.references
        BY <1>1, <2>1, <3>2, RunsOnNewest DEF ContentInv, RowsSound
      <4>2. r.parent \in {"sources", "documents"}
        BY <3>2, <4>1, DocumentsAssumption
      <4>3. QED
        BY <1>5, <1>7, <4>1, <4>2
    <3>3. QED
      BY <1>5, <2>1, <3>1, <3>2
  <2>2. rows' \subseteq rows
    BY <1>1, <1>5, <1>6 DEF Whole
  <2>3. /\ "event_clusters" \in rows' => "event_cluster_members" \in rows'
        /\ "events" \in rows' => "event_evidence" \in rows'
    BY <1>5, <1>6 DEF Whole
  <2>4. QED
    BY <1>5, <2>1, <2>2, <2>3 DEF ContentInv, RowsSound
<1>9. OwnedSound' /\ ClustersFollowTheirSource'
  <2>1. rows' \subseteq rows /\ ("sources" \in rows => "sources" \in rows')
    BY <1>1, <1>5, <1>6, <1>7 DEF Whole
  <2>2. QED
    BY <1>1, <1>5, <2>1, OwnersStay
<1>10. QED
  BY <1>5, <1>8, <1>9 DEF ContentInv, SchemaSound, RefusalsHaveACause

(* A source with a cluster has a document, so that it cannot be deleted.   *)
LEMMA ClustersHaveADocument ==
    ASSUME ContentInv, Running, "event_clusters" \in rows
    PROVE  "documents" \in rows
<1>1. ASSUME NEW f \in rows, NEW p, p \notin Accounts,
             \E r \in NewestSchema.references : <<r.from, r.parent>> = <<f, p>>
      PROVE  p \in rows
  <2>1. PICK r \in NewestSchema.references : r.from = f /\ r.parent = p
    BY <1>1
  <2>2. p \in Stored
    BY <1>1, <2>1, StoredAssumption DEF ContentInv, RowsSound
  <2>3. QED
    BY <1>1, <2>1, <2>2, RunsOnNewest DEF ContentInv, RowsSound
<1>2. "event_cluster_members" \in rows
  BY DEF ContentInv, RowsSound
<1>3. "events" \in rows
  BY <1>1, <1>2, DocumentsAssumption DEF Accounts
<1>4. "event_evidence" \in rows
  BY <1>3 DEF ContentInv, RowsSound
<1>5. "document_chunks" \in rows
  BY <1>1, <1>4, DocumentsAssumption DEF Accounts
<1>6. QED
  BY <1>1, <1>5, DocumentsAssumption DEF Accounts

LEMMA DeleteSourceKeeps == ContentInv /\ DeleteSource => ContentInv'
<1> SUFFICES ASSUME ContentInv, DeleteSource PROVE ContentInv'
  OBVIOUS
<1>1. /\ Running /\ "sources" \in rows /\ Deletable(rows, {"sources"})
      /\ rows' = rows \ Cascaded({"sources"}) /\ owned' = owned \cap rows'
      /\ UNCHANGED <<applied, schema, refused>>
  BY DEF DeleteSource
<1>2. rows' = rows \ {"sources"}
  BY <1>1, DeletionsStop
<1>3. ASSUME NEW r \in NewestSchema.references, r.parent = "sources"
      PROVE  r.from \notin rows
  <2>1. r.rule = "restrict" /\ r.from # "sources"
    BY <1>3, DocumentsAssumption
  <2>2. r.from \in rows => r \in References
    BY <1>1, <1>3, RunsOnNewest DEF References
  <2>3. QED
    BY <1>1, <1>3, <2>1, <2>2, DeletionsStop DEF Deletable
<1>4. RowsSound'
  <2>1. ASSUME NEW r \in schema.references, r.from \in rows', r.parent \in Stored
        PROVE  r.parent \in rows'
    <3>1. r \in NewestSchema.references /\ r.from \in rows /\ r.parent \in rows
      BY <1>1, <1>2, <2>1, RunsOnNewest DEF ContentInv, RowsSound
    <3>2. QED
      BY <1>2, <1>3, <3>1
  <2>2. QED
    BY <1>1, <1>2, <2>1 DEF ContentInv, RowsSound
<1>5. "event_clusters" \notin rows
  <2>1. PICK r \in NewestSchema.references : <<r.from, r.parent>> = <<"documents", "sources">>
    BY DocumentsAssumption
  <2>2. "documents" \notin rows
    BY <1>3, <2>1
  <2>3. QED
    BY <1>1, <2>2, ClustersHaveADocument
<1>6. OwnedSound' /\ ClustersFollowTheirSource'
  BY <1>1, <1>2, <1>5, OwnersStay
<1>7. QED
  BY <1>1, <1>4, <1>6 DEF ContentInv, SchemaSound, RefusalsHaveACause

LEMMA AssignSourceKeeps == ContentInv /\ AssignSource => ContentInv'
<1> SUFFICES ASSUME ContentInv, AssignSource PROVE ContentInv'
  OBVIOUS
<1>1. /\ Running /\ "sources" \in rows /\ "sources" \notin owned
      /\ rows' = rows \ {"event_cluster_members", "event_clusters"}
      /\ owned' = owned \cup ({"sources", "research_sessions"} \cap rows)
      /\ UNCHANGED <<applied, schema, refused>>
  BY DEF AssignSource
<1>2. RowsSound'
  <2>1. ASSUME NEW r \in schema.references, r.from \in rows', r.parent \in Stored
        PROVE  r.parent \in rows'
    <3>1. r \in NewestSchema.references /\ r.from \in rows /\ r.parent \in rows
      BY <1>1, <2>1, RunsOnNewest DEF ContentInv, RowsSound
    <3>2. r.parent \notin {"event_cluster_members", "event_clusters"}
      BY <1>1, <2>1, <3>1, DocumentsAssumption
    <3>3. QED
      BY <1>1, <3>1, <3>2
  <2>2. QED
    BY <1>1, <2>1 DEF ContentInv, RowsSound
<1>3. OrganizationOf("event_clusters") \in schema.columns
  BY <1>1, RunsOnNewest, SchemasAssumption
<1>4. "event_clusters" \notin owned
  BY <1>1, <1>3 DEF ContentInv, ClustersFollowTheirSource, OwnedSound
<1>5. OwnedSound'
  <2>1. \A t \in Owned : OrganizationOf(t) \in schema.columns
    BY <1>1, RunsOnNewest, SchemasAssumption DEF Owned
  <2>2. {"sources", "research_sessions"} \cap rows \subseteq Owned
    BY DEF ContentInv, RowsSound, Owned
  <2>3. "event_cluster_members" \notin Owned
    BY DEF Owned
  <2>4. QED
    BY <1>1, <1>4, <2>1, <2>2, <2>3 DEF ContentInv, OwnedSound
<1>6. ClustersFollowTheirSource'
  BY <1>1 DEF ClustersFollowTheirSource
<1>7. QED
  BY <1>1, <1>2, <1>5, <1>6 DEF ContentInv, SchemaSound, RefusalsHaveACause

LEMMA RowsStepKeeps == ContentInv /\ [ContentStep]_contentVars => ContentInv'
<1> SUFFICES ASSUME ContentInv, [ContentStep]_contentVars PROVE ContentInv'
  OBVIOUS
<1>1. CASE UNCHANGED contentVars
  BY <1>1 DEF contentVars, ContentInv, SchemaSound, RowsSound, OwnedSound, RefusalsHaveACause,
              ClustersFollowTheirSource
<1>2. CASE RecordLongError
  BY <1>2 DEF RecordLongError, ContentInv, SchemaSound, RowsSound, OwnedSound,
              RefusalsHaveACause, ClustersFollowTheirSource
<1>3. CASE \E t \in Stored : Add(t)
  BY <1>3, AddKeeps
<1>4. QED
  BY <1>1, <1>2, <1>3, SchemaUpgradeKeeps, SchemaDowngradeKeeps, DeleteDocumentKeeps,
     ReplaceChunksKeeps, DeleteSourceKeeps, AssignSourceKeeps DEF ContentStep

(* The database has the schema of its revision whatever upgrades and       *)
(* downgrades led to it, nothing that the services mean to delete is       *)
(* refused, and clusters have the organization of their source:            *)
(* MigrationsAreSafe holds whatever tables are followed.                   *)
THEOREM MigrationsStaySafe == ContentSpec => []MigrationsAreSafe
<1>1. ContentInv => MigrationsAreSafe
  BY SchemaIs DEF ContentInv, SchemaSound, MigrationsAreSafe, MigrationsRetrace
<1>2. QED
  BY <1>1, ContentStarts, RowsStepKeeps, PTL DEF ContentSpec

(* A deletion takes what was made from the document and no more.           *)
LEMMA DocumentGoesCompletely ==
    ASSUME ContentInv, DeleteDocument
    PROVE  /\ rows' \cap (FromDocuments \cup {"events", "event_clusters"}) = {}
           /\ rows \ rows' \subseteq
                FromDocuments \cup {"events", "event_clusters", "event_cluster_members"}
<1>1. Running /\ "documents" \in rows
  BY DEF DeleteDocument
<1>2. PICK left :
        /\ left = (rows \ DeletedFirst) \ Cascaded({"documents"})
        /\ Whole(left) /\ rows' = WithoutOrphans(left)
  BY DocumentGoes
<1>3. /\ rows' \subseteq left
      /\ left \ rows' \subseteq {"events", "event_clusters", "event_cluster_members"}
      /\ "events" \in rows' => "event_evidence" \in rows'
      /\ Whole(rows')
  BY <1>1, <1>2, OrphansGo
<1>4. DeletedFirst \subseteq FromDocuments /\ Cascaded({"documents"}) \subseteq FromDocuments
  BY <1>1, DeletionsStop, DocumentsAssumption
<1>5. FromDocuments \cap left = {}
  <2>1. PICK Z : Z = FromDocuments \ left
    OBVIOUS
  <2>2. "documents" \in Z
    BY <1>1, <1>2, <2>1, CascadesFollow, FromDocumentsIsClosed
  <2>3. ASSUME NEW r \in NewestSchema.references, r.parent \in Z
        PROVE  r.from \in Z
    <3>1. r.parent \in FromDocuments /\ r.parent \notin left /\ r.from \in FromDocuments
      BY <2>1, <2>3, FromDocumentsIsClosed
    <3>2. r.from \notin left
      <4> SUFFICES ASSUME r.from \in left PROVE FALSE
        OBVIOUS
      <4>1. r \in schema.references /\ r.from \in rows
        BY <1>1, <1>2, RunsOnNewest
      <4>2. r.parent \in Stored
        <5>1. r.parent \in Stored \cup Accounts
          BY <4>1, StoredAssumption DEF ContentInv, RowsSound
        <5>2. r.parent \notin Accounts
          BY <3>1, DocumentsAssumption
        <5>3. QED
          BY <5>1, <5>2
      <4>3. QED
        BY <1>2, <3>1, <4>1, <4>2 DEF Whole
    <3>3. QED
      BY <2>1, <3>1, <3>2
  <2>4. FromDocuments \subseteq Z
    <3>1. IsFiniteSet(NewestSchema.references) /\ {"documents"} \subseteq Z
      BY <2>2, DocumentsAssumption
    <3>2. QED
      BY <2>3, <3>1, ClosureIsLeast DEF FromDocuments
  <2>5. QED
    BY <2>1, <2>4
<1>6. "event_evidence" \in FromDocuments
  BY DocumentsAssumption
<1>7. "events" \notin rows'
  BY <1>3, <1>5, <1>6
<1>8. "event_clusters" \notin rows'
  <2> SUFFICES ASSUME "event_clusters" \in rows' PROVE FALSE
    OBVIOUS
  <2>1. "event_cluster_members" \in rows'
    BY <1>3 DEF Whole
  <2>2. PICK r \in NewestSchema.references :
            <<r.from, r.parent>> = <<"event_cluster_members", "events">>
    BY DocumentsAssumption
  <2>3. r \in schema.references /\ r.from \in rows' /\ r.parent = "events"
    BY <1>1, <2>1, <2>2, RunsOnNewest
  <2>4. "events" \in Stored
    BY <1>3, <2>2, <2>3, StoredAssumption DEF ContentInv, RowsSound, Whole, Accounts
  <2>5. QED
    BY <1>3, <1>7, <2>3, <2>4 DEF Whole
<1>9. rows' \cap FromDocuments = {}
  BY <1>3, <1>5
<1>10. rows \ rows' \subseteq
         FromDocuments \cup {"events", "event_clusters", "event_cluster_members"}
  BY <1>2, <1>3, <1>4
<1>11. QED
  BY <1>7, <1>8, <1>9, <1>10

(* A deletion of a document that is accepted takes what was made from the  *)
(* document and no more.                                                   *)
THEOREM DocumentsGo == ContentSpec => DocumentsGoCompletely
<1>1. ContentInv /\ [ContentStep]_contentVars =>
        [DeleteDocument /\ "documents" \notin rows' =>
          /\ rows' \cap (FromDocuments \cup {"events", "event_clusters"}) = {}
          /\ rows \ rows' \subseteq
               FromDocuments \cup {"events", "event_clusters", "event_cluster_members"}]_contentVars
  BY DocumentGoesCompletely
<1>2. QED
  BY <1>1, ContentStarts, RowsStepKeeps, PTL DEF ContentSpec, DocumentsGoCompletely

--------------------------------------------------------------------------------

\* The tables with a row in the content that an archive of it holds.
Archivable == {t \in rows : Named(t)}

\* What holds of the content while nothing changed since the start.
ContentIsWhole ==
    /\ rows \subseteq Stored
    /\ \A r \in NewestSchema.references :
           r.from \in rows /\ r.parent \in Stored => r.parent \in rows
    /\ "event_cluster_members" \in rows => "event_evidence" \in rows

\* The archive holds the tables read so far, and the target those restored.
ArchiveIsRead ==
    archive = {t \in Archivable :
                 \E i \in 1..(IF phase = "reading" THEN step ELSE Len(Inventory)) :
                    t = Inventory[i]}

ArchiveIsRestored ==
    /\ phase \in {"reading", "built", "refused"} => restored = {} /\ outside = {}
    /\ phase \in {"restoring", "completed"} =>
           restored = {t \in archive : \E i \in 1..step : t = RestoreOrder[i]}
    /\ phase = "completed" => step = Len(RestoreOrder)

\* The inductive invariant of ArchiveSpec.
ArchiveInv ==
    /\ schema = NewestSchema
    /\ saved \in Savable \cap Stored
    /\ changes \in Nat
    /\ step \in 0..21
    /\ phase \in {"reading", "built", "refused", "restoring", "completed", "failed"}
    /\ Undisturbed =>
           /\ ContentIsWhole
           /\ ArchiveIsRead
           /\ ArchiveIsRestored
           /\ phase # "failed"
           /\ ReferencesFollow

LEMMA OrdersHaveOneLength == Len(Inventory) = 21 /\ Len(RestoreOrder) = 21
  BY DEF Inventory, RestoreOrder

(* Every reference from one table of an archive to another is one of the   *)
(* seventeen, and leads to a table of the archive.                         *)
LEMMA ParentsAreArchived ==
    ASSUME NEW r \in NewestSchema.references, NEW k \in 1..21,
           r.from = Inventory[k], r.parent \in Stored
    PROVE  /\ <<r.from, r.column, r.parent>> \in ArchivedReferences
           /\ \E i \in 1..21 : r.parent = Inventory[i]
<1>1. r.parent \notin Accounts
  BY StoredAssumption
<1>2. r.from \in ToSet(Inventory)
  BY OrdersHaveOneLength DEF ToSet
<1>3. <<r.from, r.column, r.parent>> \in ArchivedReferences
  BY <1>1, <1>2, ReferencesAssumption
<1>4. r.parent \in {"sources", "documents", "document_chunks", "entities", "claims", "events",
                    "event_clusters", "investigations", "research_sessions"}
  BY <1>3 DEF ArchivedReferences
<1>5. /\ Inventory[2] = "sources" /\ Inventory[3] = "documents"
      /\ Inventory[5] = "document_chunks" /\ Inventory[7] = "entities"
      /\ Inventory[9] = "claims" /\ Inventory[11] = "events"
      /\ Inventory[13] = "event_clusters" /\ Inventory[15] = "investigations"
      /\ Inventory[18] = "research_sessions"
  BY DEF Inventory
<1>6. QED
  BY <1>3, <1>4, <1>5

(* The restore looks a reference up, and has restored what it leads to     *)
(* when it comes to the table.                                             *)
LEMMA ParentsComeFirst ==
    ASSUME NEW f, NEW c, NEW p, <<f, c, p>> \in ArchivedReferences,
           NEW k \in 1..21, f = RestoreOrder[k]
    PROVE  c \in Looked(f) /\ \E i \in 1..(k - 1) : p = RestoreOrder[i]
<1>1. c \in Looked(f)
  BY DEF ArchivedReferences, Looked
<1>2. /\ RestoreOrder[1] = "sources" /\ RestoreOrder[2] = "documents"
      /\ RestoreOrder[4] = "document_chunks" /\ RestoreOrder[5] = "entities"
      /\ RestoreOrder[6] = "claims" /\ RestoreOrder[7] = "events"
      /\ RestoreOrder[11] = "event_clusters" /\ RestoreOrder[13] = "investigations"
      /\ RestoreOrder[16] = "research_sessions"
  BY DEF RestoreOrder
<1>3. /\ k = 1 => f = "sources"
      /\ k = 2 => f = "documents"
      /\ k = 3 => f = "document_revisions"
      /\ k = 4 => f = "document_chunks"
      /\ k = 5 => f = "entities"
      /\ k = 6 => f = "claims"
      /\ k = 7 => f = "events"
      /\ k = 8 => f = "entity_mentions"
      /\ k = 9 => f = "claim_evidence"
      /\ k = 10 => f = "event_evidence"
      /\ k = 11 => f = "event_clusters"
      /\ k = 12 => f = "event_cluster_members"
      /\ k = 13 => f = "investigations"
      /\ k = 14 => f = "investigation_items"
      /\ k = 15 => f = "investigation_collaborators"
      /\ k = 16 => f = "research_sessions"
  BY DEF RestoreOrder
<1>4. \/ p = "sources" /\ k \in 2..21 
      \/ p = "documents" /\ k \in 3..21
      \/ p = "document_chunks" /\ k \in 5..21
      \/ p = "entities" /\ k \in 6..21
      \/ p = "claims" /\ k \in 7..21
      \/ p = "events" /\ k \in 8..21
      \/ p = "event_clusters" /\ k \in 12..21
      \/ p = "investigations" /\ k \in 14..21
      \/ p = "research_sessions" /\ k \in 17..21
  BY <1>3 DEF ArchivedReferences
<1>5. \E i \in 1..(k - 1) : p = RestoreOrder[i]
  BY <1>2, <1>4
<1>6. QED
  BY <1>1, <1>5

(* The restore has a step for every table of the inventory. *)
LEMMA EveryTableIsRestored ==
    ASSUME NEW i \in 1..21
    PROVE  \E j \in 1..21 : Inventory[i] = RestoreOrder[j]
<1>1. Inventory[i] \in {
          "organization_memberships", "sources", "documents", "document_revisions",
          "document_chunks", "document_assets", "entities", "entity_mentions", "claims",
          "claim_evidence", "events", "event_evidence", "event_clusters",
          "event_cluster_members", "investigations", "investigation_items",
          "investigation_collaborators", "research_sessions", "research_turns",
          "security_audit_events", "operation_attempts"}
  BY DEF Inventory
<1>2. /\ RestoreOrder[1] = "sources" /\ RestoreOrder[2] = "documents"
      /\ RestoreOrder[3] = "document_revisions" /\ RestoreOrder[4] = "document_chunks"
      /\ RestoreOrder[5] = "entities" /\ RestoreOrder[6] = "claims"
      /\ RestoreOrder[7] = "events" /\ RestoreOrder[8] = "entity_mentions"
      /\ RestoreOrder[9] = "claim_evidence" /\ RestoreOrder[10] = "event_evidence"
      /\ RestoreOrder[11] = "event_clusters" /\ RestoreOrder[12] = "event_cluster_members"
      /\ RestoreOrder[13] = "investigations" /\ RestoreOrder[14] = "investigation_items"
      /\ RestoreOrder[15] = "investigation_collaborators"
      /\ RestoreOrder[16] = "research_sessions" /\ RestoreOrder[17] = "research_turns"
      /\ RestoreOrder[18] = "organization_memberships"
      /\ RestoreOrder[19] = "security_audit_events"
      /\ RestoreOrder[20] = "operation_attempts" /\ RestoreOrder[21] = "document_assets"
  BY DEF RestoreOrder
<1>3. QED
  BY <1>1, <1>2

(* What undisturbed content refers to is there to be archived. *)
LEMMA ParentsAreArchivable ==
    ASSUME schema = NewestSchema, ContentIsWhole,
           NEW r \in NewestSchema.references, NEW k \in 1..21,
           r.from = Inventory[k], r.from \in rows, r.parent \in Stored
    PROVE  r.parent \in Archivable /\ \E i \in 1..21 : r.parent = Inventory[i]
<1>1. r.parent \in rows
  BY DEF ContentIsWhole
<1>2. <<r.from, r.column, r.parent>> \in ArchivedReferences
  BY ParentsAreArchived
<1>3. /\ r.parent = "entities" => r.from = "entity_mentions"
      /\ r.parent = "claims" => r.from = "claim_evidence"
      /\ r.parent = "events" => r.from \in {"event_evidence", "event_cluster_members"}
  BY <1>2 DEF ArchivedReferences
<1>4. Named(r.parent)
  BY <1>3 DEF Named, ContentIsWhole
<1>5. QED
  BY <1>1, <1>4, ParentsAreArchived DEF Archivable

(* The rows an archive starts from are whole. *)
LEMMA ContentStartsWhole == ArchiveInit => ContentIsWhole
<1> SUFFICES ASSUME ArchiveInit PROVE ContentIsWhole
  OBVIOUS
<1>1. PICK some \in SUBSET {"research_sessions", "investigations", "entity_mentions",
                           "event_cluster_members", "document_assets"} :
         rows = Stored \cap (
           ({"sources", "documents", "document_revisions", "document_chunks"} \cup some \cup
            (IF "research_sessions" \in some THEN {"research_turns"} ELSE {}) \cup
            (IF "entity_mentions" \in some THEN {"entities"} ELSE {}) \cup
            (IF "event_cluster_members" \in some
             THEN {"events", "event_evidence", "event_clusters"} ELSE {})) \cup
           (IF "investigations" \in some /\ saved \in
              ({"sources", "documents", "document_revisions", "document_chunks"} \cup some \cup
               (IF "research_sessions" \in some THEN {"research_turns"} ELSE {}) \cup
               (IF "entity_mentions" \in some THEN {"entities"} ELSE {}) \cup
               (IF "event_cluster_members" \in some
                THEN {"events", "event_evidence", "event_clusters"} ELSE {}))
            THEN {"investigation_items"} ELSE {}))
  BY DEF ArchiveInit
<1>2. /\ "claims" \notin rows /\ "claim_evidence" \notin rows
      /\ "investigation_collaborators" \notin rows
      /\ rows \subseteq Stored
      /\ rows \subseteq {"sources", "documents", "document_revisions", "document_chunks",
                         "research_sessions", "investigations", "entity_mentions",
                         "event_cluster_members", "document_assets", "research_turns",
                         "entities", "events", "event_evidence", "event_clusters",
                         "investigation_items"}
  BY <1>1
<1>3. /\ \A t \in {"sources", "documents", "document_revisions", "document_chunks"} \cap Stored :
             t \in rows
      /\ "research_turns" \in rows /\ "research_sessions" \in Stored
             => "research_sessions" \in rows
      /\ "entity_mentions" \in rows /\ "entities" \in Stored => "entities" \in rows
      /\ "investigation_items" \in rows /\ "investigations" \in Stored
             => "investigations" \in rows
  BY <1>1
<1>4. /\ "event_cluster_members" \in rows =>
             \A t \in {"events", "event_evidence", "event_clusters"} \cap Stored : t \in rows
      /\ "event_evidence" \in rows /\ "events" \in Stored => "events" \in rows
  BY <1>1
<1>5. ASSUME NEW r \in NewestSchema.references, r.from \in rows, r.parent \in Stored
      PROVE  r.parent \in rows
  <2>1. \E k \in 1..21 : r.from = Inventory[k]
    <3>1. /\ Inventory[2] = "sources" /\ Inventory[3] = "documents"
          /\ Inventory[4] = "document_revisions" /\ Inventory[5] = "document_chunks"
          /\ Inventory[6] = "document_assets" /\ Inventory[7] = "entities"
          /\ Inventory[8] = "entity_mentions" /\ Inventory[11] = "events"
          /\ Inventory[12] = "event_evidence" /\ Inventory[13] = "event_clusters"
          /\ Inventory[14] = "event_cluster_members" /\ Inventory[15] = "investigations"
          /\ Inventory[16] = "investigation_items" /\ Inventory[18] = "research_sessions"
          /\ Inventory[19] = "research_turns"
      BY DEF Inventory
    <3>2. r.from \in {"sources", "documents", "document_revisions", "document_chunks",
                         "research_sessions", "investigations", "entity_mentions",
                         "event_cluster_members", "document_assets", "research_turns",
                         "entities", "events", "event_evidence", "event_clusters",
                         "investigation_items"}
      BY <1>2, <1>5
    <3> HIDE <1>2, <1>5
    <3>3. PICK f : f = r.from
      OBVIOUS
    <3>4. f \in {Inventory[2], Inventory[3], Inventory[4], Inventory[5], Inventory[6],
                 Inventory[7], Inventory[8], Inventory[11], Inventory[12], Inventory[13],
                 Inventory[14], Inventory[15], Inventory[16], Inventory[18], Inventory[19]}
      BY <3>1, <3>2, <3>3
    <3>5. QED
      BY <3>3, <3>4
  <2>2. <<r.from, r.column, r.parent>> \in ArchivedReferences
    BY <2>1, <1>5, ParentsAreArchived
  <2>3. \/ r.parent \in {"sources", "documents", "document_chunks"}
        \/ r.from = "entity_mentions" /\ r.parent = "entities"
        \/ r.from \in {"event_evidence", "event_cluster_members"} /\ r.parent = "events"
        \/ r.from = "event_cluster_members" /\ r.parent = "event_clusters"
        \/ r.from = "investigation_items" /\ r.parent = "investigations"
        \/ r.from = "research_turns" /\ r.parent = "research_sessions"
        \/ r.from \in {"claim_evidence", "investigation_collaborators"}
    BY <2>2 DEF ArchivedReferences
  <2> HIDE <2>1, <2>2
  <2>4. QED
    BY <2>3, <1>2, <1>3, <1>4, <1>5
<1>6. "event_cluster_members" \in rows => "event_evidence" \in rows
  <2>1. "event_evidence" \in Stored \/ "event_cluster_members" \notin rows
    <3> SUFFICES ASSUME "event_cluster_members" \in rows
                 PROVE  "event_evidence" \in Stored
      OBVIOUS
    <3>1. <<"event_cluster_members", "event_id", "events">> \in ArchivedReferences
      BY DEF ArchivedReferences
    <3>2. PICK r \in NewestSchema.references :
              r.from = "event_cluster_members" /\ r.parent = "events"
      BY <3>1, ReferencesAssumption
    <3>3. "events" \in Stored
      BY <3>2, <1>2, StoredAssumption DEF Accounts
    <3>4. Inventory[12] = "event_evidence"
      BY DEF Inventory
    <3>5. "event_evidence" \in NewestSchema.tables
      BY <3>4, OrdersHaveOneLength, ReferencesAssumption DEF ToSet
    <3>6. Companion("event_evidence") = {"events"}
      BY DEF Companion
    <3>7. QED
      BY <3>3, <3>5, <3>6, StoredAssumption
  <2>2. QED
    BY <2>1, <1>4
<1>7. QED
  BY <1>2, <1>5, <1>6 DEF ContentIsWhole
(* The references of a table of the archive that the restore keeps as they *)
(* are: only that of an item, when it leads out of the archive or to a     *)
(* session.                                                                *)
LEMMA StraysAreItems ==
    ASSUME ArchiveInv, Undisturbed, phase = "restoring", step < 21,
           RestoreOrder[step + 1] \in archive,
           NEW r \in Strays(RestoreOrder[step + 1])
    PROVE  /\ r.rule = "none"
           /\ r.parent \in archive =>
                  r.from = "investigation_items" /\ r.parent = "research_sessions"
<1> DEFINE table == RestoreOrder[step + 1]
<1>1. /\ schema = NewestSchema /\ step \in 0..21 /\ ContentIsWhole
      /\ saved \in Savable
      /\ archive = {t \in Archivable : \E i \in 1..21 : t = Inventory[i]}
      /\ restored = {t \in archive : \E i \in 1..step : t = RestoreOrder[i]}
  BY OrdersHaveOneLength DEF ArchiveInv, ArchiveIsRead, ArchiveIsRestored
<1>2. /\ r \in NewestSchema.references \cup {ItemReference}
      /\ r.from = table /\ r.parent \in Stored
      /\ ~(r.column \in Looked(r.from) /\ r.parent \in restored)
  BY <1>1 DEF Strays, ReferencesOf, Known
<1>3. PICK k \in 1..21 : table = Inventory[k]
  BY <1>1
<1>4. step + 1 \in 1..21 /\ 1..((step + 1) - 1) = 1..step
  BY <1>1
<1>5. CASE r \in NewestSchema.references
  <2>1. r.from \in rows
    BY <1>1, <1>2 DEF Archivable
  <2>2. r.parent \in archive
    BY <1>1, <1>2, <1>3, <1>5, <2>1, ParentsAreArchivable
  <2>3. <<r.from, r.column, r.parent>> \in ArchivedReferences
    BY <1>2, <1>3, <1>5, ParentsAreArchived
  <2>4. r.column \in Looked(r.from) /\ \E i \in 1..step : r.parent = RestoreOrder[i]
    <3>1. PICK j \in 1..21 : j = step + 1
      BY <1>4
    <3>2. r.from = RestoreOrder[j]
      BY <1>2, <3>1
    <3>3. r.column \in Looked(r.from) /\ \E i \in 1..(j - 1) : r.parent = RestoreOrder[i]
      BY <2>3, <3>2, ParentsComeFirst
    <3>4. j - 1 = step
      BY <1>1, <3>1
    <3>5. QED
      BY <3>3, <3>4
  <2>5. QED
    BY <1>1, <1>2, <2>2, <2>4
<1>6. CASE r = ItemReference
  <2>1. /\ r.rule = "none" /\ r.from = "investigation_items"
        /\ r.column = "reference_id" /\ r.parent = saved
    BY <1>6 DEF ItemReference
  <2>2. r.column \in Looked(r.from)
    BY <2>1 DEF Looked
  <2>3. step = 13
    <3>1. table = "investigation_items"
      BY <1>2, <2>1
    <3>2. QED
      BY <1>4, <3>1, <1>1 DEF RestoreOrder
  <2>4. ASSUME r.parent \in archive, r.parent # "research_sessions"
        PROVE  r.parent \in restored
    <3>1. r.parent \in {"sources", "documents", "events", "event_clusters", "entities", "claims"}
      BY <1>1, <2>1, <2>4 DEF Savable
    <3>2. /\ RestoreOrder[1] = "sources" /\ RestoreOrder[2] = "documents"
          /\ RestoreOrder[5] = "entities" /\ RestoreOrder[6] = "claims"
          /\ RestoreOrder[7] = "events" /\ RestoreOrder[11] = "event_clusters"
      BY DEF RestoreOrder
    <3>3. \E i \in 1..step : r.parent = RestoreOrder[i]
      BY <2>3, <3>1, <3>2
    <3>4. QED
      BY <1>1, <2>4, <3>3
  <2>5. QED
    BY <1>2, <2>1, <2>2, <2>4
<1>7. QED
  BY <1>2, <1>5, <1>6

(* Undisturbed, the next table of the restore is accepted. *)
LEMMA RestoresAreAccepted ==
    ASSUME ArchiveInv, Undisturbed, phase = "restoring", step < 21,
           RestoreOrder[step + 1] \in archive
    PROVE  Accepted(RestoreOrder[step + 1])
  BY StraysAreItems DEF Accepted

(* The start has the inductive invariant. *)
LEMMA ArchiveStarts == ArchiveInit => ArchiveInv
<1> SUFFICES ASSUME ArchiveInit PROVE ArchiveInv
  OBVIOUS
<1>1. /\ schema = NewestSchema /\ saved \in Savable \cap Stored /\ changes = 0
      /\ step = 0 /\ phase = "reading" /\ archive = {} /\ restored = {} /\ outside = {}
  BY DEF ArchiveInit
<1>2. ArchiveIsRead
  <2>1. \A i \in 1..step : FALSE
    BY <1>1
  <2>2. QED
    BY <1>1, <2>1 DEF ArchiveIsRead
<1>3. ArchiveIsRestored /\ ReferencesFollow
  BY <1>1 DEF ArchiveIsRestored, ReferencesFollow
<1>4. QED
  BY <1>1, <1>2, <1>3, ContentStartsWhole DEF ArchiveInv

\* What the steps after the inventory leave alone.
ContentStays == UNCHANGED <<schema, rows, saved, changes>>

LEMMA StaysWhole ==
    ASSUME ContentStays, ContentIsWhole
    PROVE  ContentIsWhole'
  BY DEF ContentStays, ContentIsWhole

LEMMA NamedStays ==
    ASSUME ContentStays
    PROVE  Archivable' = Archivable
<1>1. \A t : Named(t)' = Named(t)
  BY DEF ContentStays, Named
<1>2. QED
  BY <1>1 DEF ContentStays, Archivable

LEMMA ReadTableKeeps == ArchiveInv /\ ReadTable => ArchiveInv'
<1> SUFFICES ASSUME ArchiveInv, ReadTable PROVE ArchiveInv'
  OBVIOUS
<1>1. /\ phase = "reading" /\ phase' = phase /\ step < 21 /\ step' = step + 1
      /\ archive' = archive \cup {t \in rows : t = Inventory[step'] /\ Named(t)}
      /\ restored' = restored /\ outside' = outside /\ ContentStays
  BY OrdersHaveOneLength DEF ReadTable, contentVars, ContentStays
<1>2. /\ schema' = NewestSchema /\ saved' \in Savable \cap Stored /\ changes' \in Nat
      /\ step' \in 0..21 /\ phase' = "reading"
  BY <1>1 DEF ArchiveInv, ContentStays
<1>3. ASSUME Undisturbed'
      PROVE  /\ ContentIsWhole' /\ ArchiveIsRead' /\ ArchiveIsRestored'
             /\ ReferencesFollow'
  <2>1. Undisturbed
    BY <1>1, <1>3 DEF Undisturbed, ContentStays
  <2>2. ContentIsWhole'
    BY <1>1, <2>1, StaysWhole DEF ArchiveInv
  <2>3. archive = {t \in Archivable : \E i \in 1..step : t = Inventory[i]}
    BY <1>1, <2>1 DEF ArchiveInv, ArchiveIsRead
  <2>4. step \in 0..21
    BY DEF ArchiveInv
  <2>5. archive' = {t \in Archivable : \E i \in 1..step' : t = Inventory[i]}
    BY <1>1, <2>3, <2>4 DEF Archivable
  <2>6. ArchiveIsRead'
    BY <1>1, <1>2, <2>5, NamedStays DEF ArchiveIsRead
  <2>7. ArchiveIsRestored'
    BY <1>1, <2>1 DEF ArchiveInv, ArchiveIsRestored
  <2>8. ReferencesFollow'
    BY <1>1, <2>1 DEF ArchiveInv, ArchiveIsRestored, ReferencesFollow
  <2>9. QED
    BY <2>2, <2>6, <2>7, <2>8
<1>4. QED
  BY <1>2, <1>3 DEF ArchiveInv

LEMMA ChangeContentKeeps == ArchiveInv /\ ChangeContent => ArchiveInv'
<1> SUFFICES ASSUME ArchiveInv, ChangeContent PROVE ArchiveInv'
  OBVIOUS
<1>1. changes' = changes + 1 /\ changes \in Nat
  BY DEF ArchiveInv, ChangeContent
<1>2. ~Undisturbed'
  BY <1>1 DEF Undisturbed
<1>3. schema' = schema
  BY DEF ChangeContent, Add, DeleteDocument, ReplaceChunks
<1>4. /\ saved' = saved /\ phase' = phase /\ step' = step
  BY DEF ChangeContent
<1>5. QED
  BY <1>1, <1>2, <1>3, <1>4 DEF ArchiveInv

LEMMA BuildKeeps == ArchiveInv /\ Build => ArchiveInv'
<1> SUFFICES ASSUME ArchiveInv, Build PROVE ArchiveInv'
  OBVIOUS
<1>1. /\ phase = "reading" /\ phase' = "built" /\ step = Len(Inventory) /\ step' = step
      /\ archive' = archive /\ restored' = restored /\ outside' = outside /\ ContentStays
  BY DEF Build, contentVars, ContentStays
<1>2. ASSUME Undisturbed'
      PROVE  /\ ContentIsWhole' /\ ArchiveIsRead' /\ ArchiveIsRestored'
             /\ ReferencesFollow'
  <2>1. Undisturbed
    BY <1>1, <1>2 DEF Undisturbed, ContentStays
  <2>2. ContentIsWhole'
    BY <1>1, <2>1, StaysWhole DEF ArchiveInv
  <2>3. archive = {t \in Archivable : \E i \in 1..Len(Inventory) : t = Inventory[i]}
    BY <1>1, <2>1 DEF ArchiveInv, ArchiveIsRead
  <2>4. ArchiveIsRead'
    BY <1>1, <2>3, NamedStays DEF ArchiveIsRead
  <2>5. ArchiveIsRestored'
    BY <1>1, <2>1 DEF ArchiveInv, ArchiveIsRestored
  <2>6. ReferencesFollow'
    BY <1>1, <2>1 DEF ArchiveInv, ArchiveIsRestored, ReferencesFollow
  <2>7. QED
    BY <2>2, <2>4, <2>5, <2>6
<1>3. QED
  BY <1>1, <1>2 DEF ArchiveInv, ContentStays

LEMMA AnalyseKeeps == ArchiveInv /\ Analyse => ArchiveInv'
<1> SUFFICES ASSUME ArchiveInv, Analyse PROVE ArchiveInv'
  OBVIOUS
<1>1. /\ phase = "built" /\ phase' \in {"restoring", "refused"} /\ step' = 0
      /\ archive' = archive /\ restored' = restored /\ outside' = outside /\ ContentStays
  BY DEF Analyse, contentVars, ContentStays
<1>2. ASSUME Undisturbed'
      PROVE  /\ ContentIsWhole' /\ ArchiveIsRead' /\ ArchiveIsRestored'
             /\ ReferencesFollow'
  <2>1. Undisturbed
    BY <1>1, <1>2 DEF Undisturbed, ContentStays
  <2>2. ContentIsWhole'
    BY <1>1, <2>1, StaysWhole DEF ArchiveInv
  <2>3. archive = {t \in Archivable : \E i \in 1..Len(Inventory) : t = Inventory[i]}
    BY <1>1, <2>1 DEF ArchiveInv, ArchiveIsRead
  <2>4. ArchiveIsRead'
    BY <1>1, <2>3, NamedStays DEF ArchiveIsRead
  <2>5. \A i \in 1..step' : FALSE
    BY <1>1
  <2>6. restored = {} /\ outside = {}
    BY <1>1, <2>1 DEF ArchiveInv, ArchiveIsRestored
  <2>7. ArchiveIsRestored' /\ ReferencesFollow'
    BY <1>1, <2>5, <2>6 DEF ArchiveIsRestored, ReferencesFollow
  <2>8. QED
    BY <2>2, <2>4, <2>7
<1>3. QED
  BY <1>1, <1>2 DEF ArchiveInv, ContentStays

LEMMA RestoreTableKeeps == ArchiveInv /\ RestoreTable => ArchiveInv'
<1> SUFFICES ASSUME ArchiveInv, RestoreTable PROVE ArchiveInv'
  OBVIOUS
<1>a. PICK table : table = RestoreOrder[step + 1]
  OBVIOUS
<1>1. /\ phase = "restoring" /\ step \in 0..21 /\ step < 21 /\ archive' = archive /\ ContentStays
      /\ step + 1 \in 1..21
  BY OrdersHaveOneLength DEF ArchiveInv, RestoreTable, contentVars, ContentStays
<1>2. \/ /\ table \notin archive
         /\ step' = step + 1 /\ phase' = phase /\ restored' = restored /\ outside' = outside
      \/ /\ table \in archive /\ Accepted(table)
         /\ step' = step + 1 /\ phase' = phase
         /\ restored' = restored \cup {table}
         /\ outside' = outside \cup {r \in Strays(table) : fresh => r.parent \notin archive}
      \/ /\ table \in archive /\ ~Accepted(table)
         /\ phase' = "failed" /\ step' = step
  BY <1>a DEF RestoreTable
<1>3. ASSUME Undisturbed'
      PROVE  /\ ContentIsWhole' /\ ArchiveIsRead' /\ ArchiveIsRestored'
             /\ ReferencesFollow' /\ phase' = "restoring"
  <2>1. Undisturbed
    BY <1>1, <1>3 DEF Undisturbed, ContentStays
  <2>2. ContentIsWhole'
    BY <1>1, <2>1, StaysWhole DEF ArchiveInv
  <2>3. archive = {t \in Archivable : \E i \in 1..Len(Inventory) : t = Inventory[i]}
    BY <1>1, <2>1 DEF ArchiveInv, ArchiveIsRead
  <2>4. table \in archive => Accepted(table)
    BY <1>a, <1>1, <2>1, RestoresAreAccepted
  <2>5. phase' = "restoring" /\ step' = step + 1
    BY <1>1, <1>2, <2>4
  <2>6. ArchiveIsRead'
    BY <1>1, <2>3, <2>5, NamedStays DEF ArchiveIsRead
  <2>7. restored = {t \in archive : \E i \in 1..step : t = RestoreOrder[i]}
    BY <1>1, <2>1 DEF ArchiveInv, ArchiveIsRestored
  <2>8. restored' = {t \in archive : t \in restored \/ t = table}
    BY <1>2, <2>4, <2>7
  <2>9. \A t : (\E i \in 1..(step + 1) : t = RestoreOrder[i])
                  <=> (\E i \in 1..step : t = RestoreOrder[i]) \/ t = table
    BY <1>a, <1>1
  <2>10. ArchiveIsRestored'
    BY <1>1, <2>5, <2>7, <2>8, <2>9 DEF ArchiveIsRestored
  <2>11. \A r \in outside : r.parent \in archive =>
            r.from = "investigation_items" /\ r.parent = "research_sessions"
    BY <2>1 DEF ArchiveInv, ReferencesFollow
  <2>12. table \in archive => \A r \in Strays(table) : r.parent \in archive =>
            r.from = "investigation_items" /\ r.parent = "research_sessions"
    BY <1>a, <1>1, <2>1, StraysAreItems
  <2>13. ReferencesFollow'
    BY <1>1, <1>2, <2>4, <2>11, <2>12 DEF ReferencesFollow
  <2>14. QED
    BY <2>2, <2>5, <2>6, <2>10, <2>13
<1>4. QED
  BY <1>1, <1>2, <1>3 DEF ArchiveInv, ContentStays

LEMMA CompleteKeeps == ArchiveInv /\ Complete => ArchiveInv'
<1> SUFFICES ASSUME ArchiveInv, Complete PROVE ArchiveInv'
  OBVIOUS
<1>1. /\ phase = "restoring" /\ phase' = "completed" /\ step = Len(RestoreOrder) /\ step' = step
      /\ archive' = archive /\ restored' = restored /\ outside' = outside /\ ContentStays
  BY DEF Complete, contentVars, ContentStays
<1>2. ASSUME Undisturbed'
      PROVE  /\ ContentIsWhole' /\ ArchiveIsRead' /\ ArchiveIsRestored'
             /\ ReferencesFollow'
  <2>1. Undisturbed
    BY <1>1, <1>2 DEF Undisturbed, ContentStays
  <2>2. ContentIsWhole'
    BY <1>1, <2>1, StaysWhole DEF ArchiveInv
  <2>3. archive = {t \in Archivable : \E i \in 1..Len(Inventory) : t = Inventory[i]}
    BY <1>1, <2>1 DEF ArchiveInv, ArchiveIsRead
  <2>4. ArchiveIsRead'
    BY <1>1, <2>3, NamedStays DEF ArchiveIsRead
  <2>5. ArchiveIsRestored'
    BY <1>1, <2>1 DEF ArchiveInv, ArchiveIsRestored
  <2>6. ReferencesFollow'
    BY <1>1, <2>1 DEF ArchiveInv, ReferencesFollow
  <2>7. QED
    BY <2>2, <2>4, <2>5, <2>6
<1>3. QED
  BY <1>1, <1>2 DEF ArchiveInv, ContentStays

(* The invariant is worth its name: it says of an undisturbed archive that *)
(* it is whole, and of a restore of it that it completes.                  *)
LEMMA WholeArchives == ArchiveInv => RestoresAreWhole
<1> SUFFICES ASSUME ArchiveInv PROVE RestoresAreWhole
  OBVIOUS
<1>1. ArchivesAreWhole
  <2> SUFFICES ASSUME Built, Undisturbed, NEW t \in archive, NEW r \in ReferencesOf(t),
                      r.rule # "none"
               PROVE  r.parent \in archive
    BY DEF ArchivesAreWhole
  <2>1. /\ schema = NewestSchema /\ ContentIsWhole
        /\ archive = {a \in Archivable : \E i \in 1..21 : a = Inventory[i]}
    BY OrdersHaveOneLength DEF ArchiveInv, ArchiveIsRead, Built
  <2>2. r \in NewestSchema.references /\ r.from = t /\ r.parent \in Stored
    BY <2>1 DEF ReferencesOf, ItemReference
  <2>3. QED
    BY <2>1, <2>2, ParentsAreArchivable DEF Archivable
<1>2. StartedRestoresComplete
  <2> SUFFICES ASSUME Undisturbed
               PROVE  phase # "failed" /\ (phase = "completed" => restored = archive)
    BY DEF StartedRestoresComplete
  <2>1. phase # "failed"
    BY DEF ArchiveInv
  <2>2. ASSUME phase = "completed" PROVE restored = archive
    <3>1. /\ restored = {t \in archive : \E i \in 1..21 : t = RestoreOrder[i]}
          /\ archive = {a \in Archivable : \E i \in 1..21 : a = Inventory[i]}
      BY <2>2, OrdersHaveOneLength DEF ArchiveInv, ArchiveIsRead, ArchiveIsRestored
    <3>2. QED
      BY <3>1, EveryTableIsRestored
  <2>3. QED
    BY <2>1, <2>2
<1>3. ReferencesFollow
  BY DEF ArchiveInv, ReferencesFollow
<1>4. QED
  BY <1>1, <1>2, <1>3 DEF RestoresAreWhole

(* An archive of undisturbed content is whole, and a restore of it ends    *)
(* with every row of it and with no reference that leads to the original:  *)
(* RestoresAreWhole holds whatever tables are followed.                    *)
THEOREM RestoresStayWhole == ArchiveSpec => []RestoresAreWhole
<1>1. ArchiveInit => ArchiveInv
  BY ArchiveStarts
<1>2. ArchiveInv /\ [ArchiveStep]_<<contentVars, archiveVars>> => ArchiveInv'
  <2> SUFFICES ASSUME ArchiveInv, [ArchiveStep]_<<contentVars, archiveVars>>
               PROVE  ArchiveInv'
    OBVIOUS
  <2>1. CASE ArchiveStep
    BY <2>1, ReadTableKeeps, ChangeContentKeeps, BuildKeeps, AnalyseKeeps, RestoreTableKeeps,
       CompleteKeeps DEF ArchiveStep
  <2>2. CASE UNCHANGED <<contentVars, archiveVars>>
    <3>1. /\ ContentStays /\ step' = step /\ phase' = phase /\ archive' = archive
          /\ restored' = restored /\ outside' = outside
      BY <2>2 DEF contentVars, archiveVars, ContentStays
    <3>2. Archivable' = Archivable
      BY <3>1, NamedStays
    <3>3. ArchiveIsRead => ArchiveIsRead'
      BY <3>1, <3>2 DEF ArchiveIsRead
    <3>4. ArchiveIsRestored => ArchiveIsRestored'
      BY <3>1 DEF ArchiveIsRestored
    <3>5. Undisturbed' => Undisturbed
      BY <3>1 DEF Undisturbed, ContentStays
    <3>6. Undisturbed /\ ReferencesFollow => ReferencesFollow'
      BY <3>1 DEF ReferencesFollow
    <3>7. QED
      BY <3>1, <3>3, <3>4, <3>5, <3>6, StaysWhole DEF ArchiveInv, ContentStays
  <2>3. QED
    BY <2>1, <2>2
<1>3. QED
  BY <1>1, <1>2, WholeArchives, PTL DEF ArchiveSpec

--------------------------------------------------------------------------------

(* What a request knows.  None has been refused.                           *)
Asks == [at: {"read"}, session: Sessions, scope: SUBSET {Organization, Other, Legacy},
         open: BOOLEAN, starts: BOOLEAN]
Searches == [at: {"searched"}, session: Sessions, open: BOOLEAN, starts: BOOLEAN,
             context: SUBSET Nat, evidence: SUBSET Sources]
Saves == [at: {"numbered"}, session: Sessions, open: BOOLEAN, evidence: SUBSET Sources,
          context: SUBSET Nat, number: Nat]
Withdraws == [at: {"failed", "empty"}, session: Sessions]
KnownRequests == {Idle} \cup Asks \cup Searches \cup Saves \cup Withdraws

Turns == [session: Sessions, number: Nat, evidence: SUBSET Sources, context: SUBSET Nat,
          open: BOOLEAN]

SessionRows == {NoSession, Gone} \cup [owner: {Organization, Legacy}, source: Sources \cup {Every}]

ResearchTypeOK ==
    /\ auth \in BOOLEAN
    /\ owner \in [Sources -> {Organization, Other, Legacy}]
    /\ sessions \in [Sessions -> SessionRows]
    /\ turns \subseteq Turns /\ IsFiniteSet(turns)
    /\ requests \in [Requests -> KnownRequests]

(* What a legacy session shows comes from its source, if it has one: when  *)
(* the source is moved, both go.                                           *)
MayShow(session, evidence, open) ==
    ~open =>
        /\ sessions[session].owner = Organization => \A s \in evidence : owner[s] = Organization
        /\ sessions[session].owner = Legacy /\ sessions[session].source # Every =>
             evidence \subseteq {sessions[session].source}

(* A request that read a legacy session, which was moved since, finds      *)
(* nothing any more.                                                       *)
MaySearch(session, scope, open) ==
    ~open =>
        /\ sessions[session].owner = Organization =>
             \/ scope = {Organization}
             \/ /\ scope = {Legacy} /\ sessions[session].source \in Sources
                /\ owner[sessions[session].source] = Organization
        /\ sessions[session].owner = Legacy => scope = {Legacy}

InOrder(s) == Numbers(s) = 1..Cardinality(TurnsOf(s))

RequestSound(r) ==
    /\ r # Idle => sessions[r.session] # NoSession
    /\ r.at = "read" => MaySearch(r.session, r.scope, r.open)
    /\ r.at \in {"searched", "numbered"} =>
         /\ MayShow(r.session, r.evidence, r.open)
         /\ Exists(r.session) => r.context \subseteq Numbers(r.session)
    /\ r.at = "numbered" =>
         Exists(r.session) /\ r.number = Cardinality(TurnsOf(r.session)) + 1
    /\ r.at = "empty" => TurnsOf(r.session) = {} \/ r.session \in raced

(* A session is locked by one request at a time.                           *)
LocksApart ==
    \A p, q \in Requests :
        requests[p].at = "numbered" /\ requests[q].at = "numbered" /\ p # q =>
            requests[p].session # requests[q].session

TurnSound(t) ==
    /\ Exists(t.session)
    /\ MayShow(t.session, t.evidence, t.open)
    /\ \A n \in t.context : n < t.number

ResearchInv ==
    /\ ResearchTypeOK
    /\ \A s \in Sessions : InOrder(s)
    /\ LocksApart
    /\ \A p \in Requests : RequestSound(requests[p])
    /\ \A t \in turns : TurnSound(t)

LEMMA ResearchInvSuffices == ResearchInv => SessionsAreSound
<1> SUFFICES ASSUME ResearchInv PROVE SessionsAreSound
  OBVIOUS
<1>1. ASSUME NEW p \in Requests PROVE requests[p].at # "refused"
  <2>1. requests[p] \in KnownRequests
    BY DEF ResearchInv, ResearchTypeOK
  <2> QED BY <2>1 DEF KnownRequests, Idle, Asks, Searches, Saves, Withdraws
<1>2. TurnsAreInOrder
  BY <1>1 DEF ResearchInv, TurnsAreInOrder, InOrder, TurnSound
<1>3. EvidenceStaysInside
  BY DEF ResearchInv, EvidenceStaysInside, TurnSound, MayShow
<1> QED BY <1>2, <1>3 DEF SessionsAreSound

LEMMA InitResearch == ResearchInit => ResearchInv
<1> SUFFICES ASSUME ResearchInit PROVE ResearchInv
  OBVIOUS
<1>1. ResearchTypeOK
  <2>1. IsFiniteSet(turns)
    BY FS_EmptySet DEF ResearchInit
  <2> QED BY <2>1 DEF ResearchInit, ResearchTypeOK, SessionRows, KnownRequests
<1>2. ASSUME NEW s \in Sessions PROVE InOrder(s)
  <2>1. TurnsOf(s) = {} /\ Numbers(s) = {}
    BY DEF ResearchInit, TurnsOf, Numbers
  <2> QED BY <2>1, FS_EmptySet DEF InOrder
<1>3. LocksApart /\ \A p \in Requests : RequestSound(requests[p])
  BY DEF ResearchInit, RequestSound, LocksApart, Idle
<1> QED BY <1>1, <1>2, <1>3 DEF ResearchInv, ResearchInit

LEMMA KnownFields ==
  ASSUME NEW r \in KnownRequests
  PROVE  /\ r.at \in {"idle", "read", "searched", "numbered", "failed", "empty"}
         /\ r.at = "idle" => r = Idle
         /\ r = Idle => r.at = "idle"
         /\ r # Idle => r.session \in Sessions
         /\ r.at = "read" => r \in Asks
         /\ r.at = "searched" => r \in Searches
         /\ r.at = "numbered" => r \in Saves
         /\ r.at \in {"failed", "empty"} => r \in Withdraws
  BY DEF KnownRequests, Idle, Asks, Searches, Saves, Withdraws

(* The step of request p changes only what it knows.                       *)
LEMMA OwnRequest ==
  ASSUME ResearchTypeOK, NEW p \in Requests, NEW x \in KnownRequests,
         requests' = [requests EXCEPT ![p] = x],
         UNCHANGED <<auth, owner, sessions, turns, raced>>
  PROVE  /\ ResearchTypeOK'
         /\ requests'[p] = x /\ \A q \in Requests \ {p} : requests'[q] = requests[q]
  BY DEF ResearchTypeOK

(* What is right to know rests on the sessions, their turns and sources.   *)
LEMMA SameSessions ==
  ASSUME UNCHANGED <<owner, sessions, turns, raced>>
  PROVE  /\ \A s : InOrder(s)' <=> InOrder(s)
         /\ \A t : TurnSound(t)' <=> TurnSound(t)
         /\ \A r : RequestSound(r)' <=> RequestSound(r)
<1>1. /\ \A s : Exists(s)' <=> Exists(s)
      /\ \A s : TurnsOf(s)' = TurnsOf(s) /\ Numbers(s)' = Numbers(s)
      /\ \A s, e, o : MayShow(s, e, o)' <=> MayShow(s, e, o)
      /\ \A s, c, o : MaySearch(s, c, o)' <=> MaySearch(s, c, o)
  BY DEF Exists, TurnsOf, Numbers, MayShow, MaySearch
<1> QED BY <1>1 DEF InOrder, TurnSound, RequestSound

(* Such a step keeps the invariant if what it comes to know is right.      *)
LEMMA OwnRequestKeeps ==
  ASSUME ResearchInv, NEW p \in Requests, NEW x \in KnownRequests,
         requests' = [requests EXCEPT ![p] = x],
         UNCHANGED <<auth, owner, sessions, turns, raced>>,
         RequestSound(x),
         x.at = "numbered" => ~Locked(x.session)
  PROVE  ResearchInv'
<1>1. /\ ResearchTypeOK'
      /\ requests'[p] = x /\ \A q \in Requests \ {p} : requests'[q] = requests[q]
  BY OwnRequest DEF ResearchInv
<1>2. \A s \in Sessions : InOrder(s)'
  BY SameSessions DEF ResearchInv
<1>3. \A t \in turns' : TurnSound(t)'
  BY SameSessions DEF ResearchInv
<1>4. \A q \in Requests : RequestSound(requests'[q])
  BY <1>1 DEF ResearchInv
<1>5. \A q \in Requests : RequestSound(requests[q])'
  BY <1>4, SameSessions
<1>6. LocksApart'
  BY <1>1 DEF ResearchInv, LocksApart, Locked
<1> QED BY <1>1, <1>2, <1>3, <1>5, <1>6 DEF ResearchInv

LEMMA AskKeeps ==
  ASSUME ResearchInv, NEW p \in Requests, NEW s \in Sessions, Ask(p, s)
  PROVE  ResearchInv'
<1> DEFINE x == Asking(s, sessions[s].owner, FALSE)
<1>1. sessions[s] \in SessionRows /\ sessions[s] # NoSession /\ sessions[s] # Gone
  BY DEF Ask, Exists, ResearchInv, ResearchTypeOK
<1>2. sessions[s].owner \in {Organization, Legacy}
  BY <1>1 DEF SessionRows
<1>3. x \in Asks /\ x.at = "read" /\ x.session = s /\ x.scope = ScopeOf(sessions[s].owner)
      /\ x.open = ~auth
  BY <1>2 DEF Asking, Asks, ScopeOf, ResearchInv, ResearchTypeOK, Organization, Other, Legacy
<1>4. requests' = [requests EXCEPT ![p] = x] /\ UNCHANGED <<auth, owner, sessions, turns, raced>>
  BY DEF Ask
<1> HIDE DEF x
<1>5. x \in KnownRequests /\ x # Idle
  BY <1>3 DEF KnownRequests, Idle
<1>6. RequestSound(x)
  BY <1>1, <1>2, <1>3, <1>5 DEF RequestSound, MaySearch, ScopeOf
<1> QED BY <1>3, <1>4, <1>5, <1>6, OwnRequestKeeps

LEMMA SearchKeeps ==
  ASSUME ResearchInv, NEW p \in Requests, Search(p)
  PROVE  ResearchInv'
<1> DEFINE r == requests[p]
           found == Findable(r.session, r.scope)
           x == [at |-> "searched", session |-> r.session, open |-> r.open,
                 starts |-> r.starts, context |-> Numbers(r.session), evidence |-> found]
<1>1. r \in Asks /\ r # Idle /\ RequestSound(r)
  BY KnownFields DEF Search, ResearchInv, ResearchTypeOK, Idle
<1>2. Numbers(r.session) \subseteq Nat
  BY DEF Numbers, TurnsOf, ResearchInv, ResearchTypeOK, Turns
<1>3. x \in Searches
  BY <1>1, <1>2 DEF Asks, Searches, Findable
<1>4. x \in KnownRequests /\ x # Idle
  BY <1>3 DEF KnownRequests, Idle
<1>5. MayShow(r.session, found, r.open)
  <2> SUFFICES ASSUME ~r.open PROVE MayShow(r.session, found, r.open)
    BY DEF MayShow
  <2>1. MaySearch(r.session, r.scope, r.open) /\ r.at = "read"
    BY <1>1 DEF RequestSound, Asks
  <2>2. CASE sessions[r.session].owner = Organization
    <3>1. \A s \in found : owner[s] = Organization
      BY <2>1, <2>2, ResearchAssumption DEF MaySearch, Findable, Organization, Legacy
    <3> QED BY <2>2, <3>1 DEF MayShow, Organization, Legacy
  <2>3. CASE sessions[r.session].owner = Legacy
    <3>1. sessions[r.session].source # Every => found \subseteq {sessions[r.session].source}
      BY DEF Findable
    <3> QED BY <2>3, <3>1 DEF MayShow, Organization, Legacy
  <2> QED BY <2>2, <2>3 DEF MayShow
<1>6. RequestSound(x)
  BY <1>1, <1>4, <1>5 DEF RequestSound
<1>7. requests' = [requests EXCEPT ![p] = x] /\ UNCHANGED <<auth, owner, sessions, turns, raced>>
  BY DEF Search
<1>8. x.at # "numbered"
  OBVIOUS
<1> HIDE DEF x, found
<1> QED BY <1>4, <1>6, <1>7, <1>8, OwnRequestKeeps

LEMMA IdleIsSound == Idle \in KnownRequests /\ RequestSound(Idle) /\ Idle.at # "numbered"
  BY DEF KnownRequests, RequestSound, Idle

LEMMA FailKeeps ==
  ASSUME ResearchInv, NEW p \in Requests, Fail(p)
  PROVE  ResearchInv'
<1> DEFINE x == [at |-> "failed", session |-> requests[p].session]
<1>1. requests[p] \in KnownRequests /\ RequestSound(requests[p]) /\ requests[p] # Idle
  BY DEF Fail, ResearchInv, ResearchTypeOK, Idle
<1>2. x \in Withdraws /\ x.at = "failed" /\ x.session = requests[p].session
  BY <1>1, KnownFields DEF Withdraws
<1>3. x \in KnownRequests /\ x # Idle
  BY <1>2 DEF KnownRequests, Idle
<1>4. RequestSound(x)
  BY <1>1, <1>2, <1>3 DEF RequestSound
<1>5. /\ requests' = [requests EXCEPT ![p] = x] \/ requests' = [requests EXCEPT ![p] = Idle]
      /\ UNCHANGED <<auth, owner, sessions, turns, raced>>
  BY DEF Fail
<1> HIDE DEF x
<1> QED BY <1>2, <1>3, <1>4, <1>5, OwnRequestKeeps, IdleIsSound

LEMMA CountKeeps ==
  ASSUME ResearchInv, NEW p \in Requests, Count(p)
  PROVE  ResearchInv'
<1> DEFINE x == [at |-> "empty", session |-> requests[p].session]
<1>1. requests[p] \in KnownRequests /\ RequestSound(requests[p]) /\ requests[p] # Idle
  BY DEF Count, ResearchInv, ResearchTypeOK, Idle
<1>2. x \in Withdraws /\ x.at = "empty" /\ x.session = requests[p].session
  BY <1>1, KnownFields DEF Withdraws
<1>3. x \in KnownRequests /\ x # Idle
  BY <1>2 DEF KnownRequests, Idle
<1>4. TurnsOf(x.session) = {} => RequestSound(x)
  BY <1>1, <1>2, <1>3 DEF RequestSound
<1>5. /\ \/ TurnsOf(x.session) = {} /\ requests' = [requests EXCEPT ![p] = x]
         \/ requests' = [requests EXCEPT ![p] = Idle]
      /\ UNCHANGED <<auth, owner, sessions, turns, raced>>
  BY DEF Count
<1> HIDE DEF x
<1> QED BY <1>2, <1>3, <1>4, <1>5, OwnRequestKeeps, IdleIsSound

(* The last number of a session is the number of its turns.                *)
LEMMA LastIsCount ==
  ASSUME NEW s, InOrder(s), IsFiniteSet(TurnsOf(s))
  PROVE  /\ LastNumber(s) = Cardinality(TurnsOf(s))
         /\ Cardinality(TurnsOf(s)) \in Nat
         /\ LastNumber(s) + 1 \notin Numbers(s)
<1> DEFINE n == Cardinality(TurnsOf(s))
<1>1. n \in Nat
  BY FS_CardinalityType
<1> HIDE DEF n
<1>2. Numbers(s) = 1..n
  BY DEF InOrder, n
<1>3. CASE n = 0
  BY <1>1, <1>2, <1>3 DEF LastNumber, n
<1>4. CASE n # 0
  <2>1. n \in 1..n /\ \A m \in 1..n : m <= n
    BY <1>1, <1>4
  <2>2. \A k \in 1..n : (\A m \in 1..n : m <= k) => k = n
    BY <1>1, <1>4
  <2>3. (CHOOSE k \in 1..n : \A m \in 1..n : m <= k) = n
    BY <2>1, <2>2
  <2>4. LastNumber(s) = n
    BY <1>2, <2>1, <2>3 DEF LastNumber
  <2> QED BY <1>1, <1>2, <2>4 DEF n
<1> QED BY <1>3, <1>4

LEMMA NumberKeeps ==
  ASSUME ResearchInv, NEW p \in Requests, Number(p)
  PROVE  ResearchInv'
<1> DEFINE r == requests[p]
           x == [at |-> "numbered", session |-> r.session, open |-> r.open,
                 evidence |-> r.evidence, context |-> r.context,
                 number |-> LastNumber(r.session) + 1]
<1>1. r \in Searches /\ r # Idle /\ RequestSound(r) /\ r.at = "searched"
  BY KnownFields DEF Number, ResearchInv, ResearchTypeOK, Idle
<1>2. IsFiniteSet(TurnsOf(r.session)) /\ r.session \in Sessions
  <2>1. TurnsOf(r.session) \subseteq turns /\ IsFiniteSet(turns)
    BY DEF TurnsOf, ResearchInv, ResearchTypeOK
  <2> QED BY <1>1, <2>1, FS_Subset DEF Searches
<1>3. /\ LastNumber(r.session) = Cardinality(TurnsOf(r.session))
      /\ Cardinality(TurnsOf(r.session)) \in Nat
  BY <1>2, LastIsCount DEF ResearchInv
<1>4. x \in Saves
  BY <1>1, <1>2, <1>3 DEF Searches, Saves
<1>5. x \in KnownRequests /\ x # Idle
  BY <1>4 DEF KnownRequests, Idle
<1>6. Exists(r.session) => RequestSound(x)
  BY <1>1, <1>3, <1>5 DEF RequestSound
<1>7. /\ \/ /\ Exists(r.session) /\ ~Locked(x.session)
            /\ requests' = [requests EXCEPT ![p] = x]
         \/ requests' = [requests EXCEPT ![p] = Idle]
      /\ UNCHANGED <<auth, owner, sessions, turns, raced>>
  BY DEF Number
<1> HIDE DEF x
<1> QED BY <1>5, <1>6, <1>7, OwnRequestKeeps, IdleIsSound

(* The same for one session, while others change.                          *)
LEMMA SameSession ==
  ASSUME NEW s, sessions'[s] = sessions[s], owner' = owner,
         TurnsOf(s)' = TurnsOf(s), raced \subseteq raced'
  PROVE  /\ InOrder(s) => InOrder(s)'
         /\ \A t : t.session = s /\ TurnSound(t) => TurnSound(t)'
         /\ \A r : r.session = s /\ RequestSound(r) => RequestSound(r)'
<1>1. Exists(s)' <=> Exists(s)
  BY DEF Exists
<1>2. Numbers(s)' = Numbers(s)
  BY DEF Numbers
<1>3. /\ \A e, o : MayShow(s, e, o)' <=> MayShow(s, e, o)
      /\ \A c, o : MaySearch(s, c, o)' <=> MaySearch(s, c, o)
  BY DEF MayShow, MaySearch
<1> QED BY <1>1, <1>2, <1>3 DEF InOrder, TurnSound, RequestSound

(* Request p comes to know x, and what the others know stays right.        *)
LEMMA RequestsKept ==
  ASSUME ResearchInv, NEW p \in Requests, NEW x \in KnownRequests,
         requests' = [requests EXCEPT ![p] = x], x.at # "numbered",
         RequestSound(x)',
         \A q \in Requests \ {p} : \A r : r = requests[q] => RequestSound(r)'
  PROVE  /\ requests' \in [Requests -> KnownRequests]
         /\ LocksApart'
         /\ \A q \in Requests : RequestSound(requests[q])'
<1>1. requests'[p] = x /\ \A q \in Requests \ {p} : requests'[q] = requests[q]
  BY DEF ResearchInv, ResearchTypeOK
<1>2. \A q \in Requests : RequestSound(requests[q])'
  <2> SUFFICES ASSUME NEW q \in Requests PROVE RequestSound(requests[q])'
    OBVIOUS
  <2>1. \A r : r = requests'[q] => RequestSound(r)'
    BY <1>1
  <2> QED BY <2>1
<1>3. LocksApart'
  BY <1>1 DEF ResearchInv, LocksApart
<1>4. requests' \in [Requests -> KnownRequests]
  BY DEF ResearchInv, ResearchTypeOK
<1> QED BY <1>2, <1>3, <1>4

LEMMA IdleStaysSound ==
  ASSUME NEW r, r = Idle
  PROVE  RequestSound(r)'
<1>1. r.at = "idle"
  BY DEF Idle
<1> QED BY <1>1 DEF RequestSound

(* What one who asks knows.                                                *)
LEMMA WhoAsks ==
  ASSUME NEW s \in Sessions, NEW o \in {Organization, Legacy}, auth \in BOOLEAN,
         NEW starts \in BOOLEAN, NEW x, x = Asking(s, o, starts)
  PROVE  /\ x \in Asks /\ x \in KnownRequests /\ x.at = "read" /\ x.session = s
         /\ x.scope \subseteq {Organization, Other, Legacy}
         /\ ~x.open => x.scope = {o}
<1>1. ScopeOf(o) \subseteq {Organization, Other, Legacy} /\ (auth => ScopeOf(o) = {o})
  BY DEF ScopeOf
<1>2. x = [at |-> "read", session |-> s, scope |-> ScopeOf(o), open |-> ~auth, starts |-> starts]
  BY DEF Asking
<1> HIDE DEF ScopeOf
<1>3. (~auth) \in BOOLEAN
  OBVIOUS
<1>4. x \in Asks
  BY <1>1, <1>2, <1>3 DEF Asks
<1>5. x.at = "read" /\ x.session = s /\ x.scope = ScopeOf(o)
  BY <1>2
<1>6. ~x.open => auth
  <2>1. CASE auth = TRUE
    BY <2>1
  <2>2. CASE auth = FALSE
    <3>1. (~auth) = TRUE
      BY <2>2
    <3>2. PICK open : open = (~auth)
      OBVIOUS
    <3>3. x = [at |-> "read", session |-> s, scope |-> ScopeOf(o), open |-> open,
               starts |-> starts]
      BY <1>2, <3>2
    <3>4. x.open = open
      BY <3>3
    <3>5. open = TRUE
      BY <3>1, <3>2
    <3> QED BY <3>4, <3>5
  <2> QED BY <2>1, <2>2
<1> QED BY <1>1, <1>4, <1>5, <1>6 DEF KnownRequests

LEMMA CreateKeeps ==
  ASSUME ResearchInv, NEW p \in Requests, NEW s \in Sessions, NEW o \in {Organization, Legacy},
         NEW source \in Sources \cup {Every}, NEW starts \in BOOLEAN,
         Create(p, s, o, source, starts)
  PROVE  ResearchInv'
<1>a. PICK row : row = [owner |-> o, source |-> source]
  OBVIOUS
<1>b. PICK x : x = IF starts THEN Asking(s, o, TRUE) ELSE Idle
  OBVIOUS
<1>1. /\ sessions[s] = NoSession
      /\ sessions' = [sessions EXCEPT ![s] = row]
      /\ requests' = [requests EXCEPT ![p] = x]
      /\ UNCHANGED <<auth, owner, turns, raced>>
  BY <1>a, <1>b DEF Create
<1>2. row \in SessionRows /\ row.owner = o
  BY <1>a DEF SessionRows
<1>3. row # NoSession
  BY <1>2 DEF NoSession, Organization, Legacy
<1>4. \/ x = Idle
      \/ /\ x \in KnownRequests /\ x.at = "read" /\ x.session = s
         /\ ~x.open => x.scope = {o}
  BY <1>b, WhoAsks DEF ResearchInv, ResearchTypeOK
<1>6. x \in KnownRequests /\ x.at # "numbered"
  BY <1>4, IdleIsSound
<1>7. sessions'[s] = row /\ \A b \in Sessions \ {s} : sessions'[b] = sessions[b]
  BY <1>1 DEF ResearchInv, ResearchTypeOK
<1>8. \A b : TurnsOf(b)' = TurnsOf(b) /\ Numbers(b)' = Numbers(b)
  BY <1>1 DEF TurnsOf, Numbers
<1>9. \A b \in Sessions : InOrder(b)'
  BY <1>8 DEF ResearchInv, InOrder
<1>10. ASSUME NEW t \in turns PROVE TurnSound(t)'
  <2>1. TurnSound(t) /\ t.session \in Sessions /\ t.session # s
    BY <1>1 DEF ResearchInv, ResearchTypeOK, Turns, TurnSound, Exists
  <2> QED BY <1>1, <1>7, <1>8, <2>1, SameSession
<1>11. RequestSound(x)'
  <2>1. CASE x = Idle
    BY <2>1, IdleStaysSound
  <2>2. CASE x # Idle
    <3>1. x.at = "read" /\ x.session = s
      BY <1>4, <2>2
    <3>2. MaySearch(s, x.scope, x.open)'
      BY <1>2, <1>4, <1>7, <2>2 DEF MaySearch, Organization, Legacy
    <3> QED BY <1>3, <1>7, <3>1, <3>2 DEF RequestSound
  <2> QED BY <2>1, <2>2
<1>12. ASSUME NEW q \in Requests \ {p}, NEW r, r = requests[q] PROVE RequestSound(r)'
  <2>1. RequestSound(r) /\ r \in KnownRequests
    BY <1>12 DEF ResearchInv, ResearchTypeOK
  <2>2. CASE r = Idle
    BY <2>2, IdleStaysSound
  <2>3. CASE r # Idle
    <3>1. r.session \in Sessions \ {s}
      BY <1>1, <2>1, <2>3, KnownFields DEF RequestSound
    <3> QED BY <1>1, <1>7, <1>8, <2>1, <3>1, SameSession
  <2> QED BY <2>2, <2>3
<1>13. /\ requests' \in [Requests -> KnownRequests] /\ LocksApart'
       /\ \A q \in Requests : RequestSound(requests[q])'
  BY <1>1, <1>6, <1>11, <1>12, RequestsKept
<1>14. ResearchTypeOK'
  BY <1>1, <1>2, <1>13 DEF ResearchInv, ResearchTypeOK
<1> QED BY <1>1, <1>9, <1>10, <1>13, <1>14 DEF ResearchInv

(* Whoever handles another request than p has another session locked.      *)
LEMMA LockedByOne ==
  ASSUME ResearchInv, NEW p \in Requests, NEW q \in Requests \ {p},
         requests[p].at = "numbered", requests[q].at = "numbered"
  PROVE  requests[q].session # requests[p].session
  BY DEF ResearchInv, LocksApart

(* The turn that is saved is the next of its session.                      *)
LEMMA NextTurn ==
  ASSUME ResearchInv, NEW s \in Sessions, NEW t \in Turns, t.session = s,
         t.number = Cardinality(TurnsOf(s)) + 1, turns' = turns \cup {t}
  PROVE  /\ TurnsOf(s)' = TurnsOf(s) \cup {t}
         /\ Numbers(s)' = Numbers(s) \cup {t.number}
         /\ IsFiniteSet(turns')
         /\ InOrder(s)'
         /\ \A b : b # s => TurnsOf(b)' = TurnsOf(b)
         /\ t.number \notin Numbers(s)
<1>1. IsFiniteSet(TurnsOf(s))
  <2>1. TurnsOf(s) \subseteq turns /\ IsFiniteSet(turns)
    BY DEF TurnsOf, ResearchInv, ResearchTypeOK
  <2> QED BY <2>1, FS_Subset
<1>2. Numbers(s) = 1..Cardinality(TurnsOf(s)) /\ Cardinality(TurnsOf(s)) \in Nat
  BY <1>1, FS_CardinalityType DEF ResearchInv, InOrder
<1>3. t.number \notin Numbers(s)
  BY <1>2
<1>4. t \notin TurnsOf(s)
  BY <1>3 DEF Numbers
<1>5. TurnsOf(s)' = TurnsOf(s) \cup {t} /\ \A b : b # s => TurnsOf(b)' = TurnsOf(b)
  BY DEF TurnsOf
<1>6. Numbers(s)' = Numbers(s) \cup {t.number}
  BY <1>5 DEF Numbers
<1>7. IsFiniteSet(turns')
  BY FS_AddElement DEF ResearchInv, ResearchTypeOK
<1>8. Cardinality(TurnsOf(s)') = Cardinality(TurnsOf(s)) + 1
  BY <1>1, <1>4, <1>5, FS_AddElement
<1>9. InOrder(s)'
  BY <1>2, <1>6, <1>8 DEF InOrder
<1> QED BY <1>3, <1>5, <1>6, <1>7, <1>9

LEMMA SaveKeeps ==
  ASSUME ResearchInv, NEW p \in Requests, Save(p)
  PROVE  ResearchInv'
<1>a. PICK r : r = requests[p]
  OBVIOUS
<1>b. PICK t : t = [session |-> r.session, number |-> r.number, evidence |-> r.evidence,
                    context |-> r.context, open |-> r.open]
  OBVIOUS
<1>c. PICK s : s = r.session
  OBVIOUS
<1>1. r \in Saves /\ RequestSound(r) /\ r.at = "numbered" /\ r # Idle
  BY <1>a, KnownFields DEF Save, ResearchInv, ResearchTypeOK, Idle
<1>2. /\ s \in Sessions /\ t \in Turns /\ t.session = s /\ t.number = r.number
      /\ t.evidence = r.evidence /\ t.context = r.context /\ t.open = r.open
  BY <1>1, <1>b, <1>c DEF Saves, Turns
<1>3. /\ Exists(s) /\ t.number = Cardinality(TurnsOf(s)) + 1
      /\ MayShow(s, t.evidence, t.open) /\ t.context \subseteq Numbers(s)
  BY <1>1, <1>2, <1>c DEF RequestSound
<1>4. IsFiniteSet(TurnsOf(s)) /\ r.number \notin Numbers(s)
  <2>1. TurnsOf(s) \subseteq turns /\ IsFiniteSet(turns)
    BY DEF TurnsOf, ResearchInv, ResearchTypeOK
  <2>2. IsFiniteSet(TurnsOf(s))
    BY <2>1, FS_Subset
  <2>3. Numbers(s) = 1..Cardinality(TurnsOf(s)) /\ Cardinality(TurnsOf(s)) \in Nat
    BY <1>2, <2>2, FS_CardinalityType DEF ResearchInv, InOrder
  <2> QED BY <1>2, <1>3, <2>2, <2>3
<1>5. /\ requests' = [requests EXCEPT ![p] = Idle]
      /\ turns' = turns \cup {t}
      /\ raced' = IF TakenBack(s) THEN raced \cup {s} ELSE raced
      /\ UNCHANGED <<auth, owner, sessions>>
  BY <1>4, <1>a, <1>b, <1>c DEF Save
<1>6. /\ TurnsOf(s)' = TurnsOf(s) \cup {t} /\ Numbers(s)' = Numbers(s) \cup {t.number}
      /\ IsFiniteSet(turns') /\ InOrder(s)' /\ \A b : b # s => TurnsOf(b)' = TurnsOf(b)
  BY <1>2, <1>3, <1>5, NextTurn
<1>7. raced \subseteq raced' /\ (TakenBack(s) => s \in raced')
  BY <1>5
<1>8. \A b \in Sessions : InOrder(b)'
  BY <1>5, <1>6, <1>7, SameSession DEF ResearchInv
<1>9. \A b : Exists(b)' <=> Exists(b)
  BY <1>5 DEF Exists
<1>10. /\ \A b, e, o : MayShow(b, e, o)' <=> MayShow(b, e, o)
       /\ \A b, c, o : MaySearch(b, c, o)' <=> MaySearch(b, c, o)
  BY <1>5 DEF MayShow, MaySearch
<1>11. ASSUME NEW u \in turns' PROVE TurnSound(u)'
  <2>1. CASE u = t
    <3>1. \A n \in t.context : n < t.number
      <4>1. Numbers(s) = 1..Cardinality(TurnsOf(s)) /\ Cardinality(TurnsOf(s)) \in Nat
        BY <1>2, <1>4, FS_CardinalityType DEF ResearchInv, InOrder
      <4> QED BY <1>3, <4>1
    <3> QED BY <1>2, <1>3, <1>9, <1>10, <2>1, <3>1 DEF TurnSound
  <2>2. CASE u \in turns
    <3>1. TurnSound(u)
      BY <2>2 DEF ResearchInv
    <3> QED BY <1>9, <1>10, <3>1 DEF TurnSound
  <2> QED BY <1>5, <2>1, <2>2
<1>12. ASSUME NEW q \in Requests \ {p}, NEW k, k = requests[q] PROVE RequestSound(k)'
  <2>1. RequestSound(k) /\ k \in KnownRequests
    BY <1>12 DEF ResearchInv, ResearchTypeOK
  <2>2. CASE k.session # s \/ k = Idle
    <3>1. CASE k = Idle
      BY <3>1, IdleStaysSound
    <3>2. CASE k.session # s
      BY <1>5, <1>6, <1>7, <2>1, <3>2, SameSession
    <3> QED BY <2>2, <3>1, <3>2
  <2>3. CASE k.session = s /\ k # Idle
    <3>1. k.at # "numbered"
      BY <1>12, <1>1, <1>a, <1>c, <2>3, LockedByOne
    <3>2. sessions'[s] # NoSession
      BY <1>5, <2>1, <2>3 DEF RequestSound
    <3>3. k.at = "empty" => s \in raced'
      <4> SUFFICES ASSUME k.at = "empty" PROVE s \in raced'
        OBVIOUS
      <4>1. k \in Withdraws
        BY <2>1, KnownFields
      <4>2. k = [at |-> "empty", session |-> s]
        BY <2>3, <4>1 DEF Withdraws
      <4>3. TakenBack(s)
        BY <1>12, <4>2 DEF TakenBack
      <4> QED BY <1>7, <4>3
    <3>4. k.at = "read" => MaySearch(s, k.scope, k.open)'
      BY <1>10, <2>1, <2>3 DEF RequestSound
    <3>5. k.at = "searched" =>
            MayShow(s, k.evidence, k.open)' /\ (Exists(s)' => k.context \subseteq Numbers(s)')
      BY <1>6, <1>9, <1>10, <2>1, <2>3 DEF RequestSound
    <3> QED BY <2>3, <3>1, <3>2, <3>3, <3>4, <3>5 DEF RequestSound
  <2> QED BY <2>2, <2>3
<1>13. /\ requests' \in [Requests -> KnownRequests] /\ LocksApart'
       /\ \A q \in Requests : RequestSound(requests[q])'
  BY <1>5, <1>12, IdleStaysSound, IdleIsSound, RequestsKept
<1>14. ResearchTypeOK'
  BY <1>2, <1>5, <1>6, <1>13 DEF ResearchInv, ResearchTypeOK
<1> QED BY <1>8, <1>11, <1>13, <1>14 DEF ResearchInv

LEMMA TakeBackKeeps ==
  ASSUME ResearchInv, NEW p \in Requests, TakeBack(p)
  PROVE  ResearchInv'
<1>c. PICK s : s = requests[p].session
  OBVIOUS
<1>1. /\ requests[p].at = "empty" /\ ~Locked(s)
      /\ sessions' = [sessions EXCEPT ![s] = Gone]
      /\ turns' = turns \ TurnsOf(s)
      /\ requests' = [requests EXCEPT ![p] = Idle]
      /\ UNCHANGED <<auth, owner, raced>>
  BY <1>c DEF TakeBack
<1>2. s \in Sessions
  BY <1>1, <1>c, KnownFields DEF ResearchInv, ResearchTypeOK, Withdraws
<1>3. sessions'[s] = Gone /\ \A b \in Sessions \ {s} : sessions'[b] = sessions[b]
  BY <1>1, <1>2 DEF ResearchInv, ResearchTypeOK
<1>4. Gone # NoSession /\ Gone.owner \notin {Organization, Legacy}
  BY DEF Gone, NoSession, Organization, Legacy
<1>5. TurnsOf(s)' = {} /\ \A b : b # s => TurnsOf(b)' = TurnsOf(b)
  BY <1>1 DEF TurnsOf
<1>6. Numbers(s)' = {}
  BY <1>5 DEF Numbers
<1>7. InOrder(s)'
  BY <1>5, <1>6, FS_EmptySet DEF InOrder
<1>8. \A b \in Sessions : InOrder(b)'
  BY <1>1, <1>3, <1>5, <1>7, SameSession DEF ResearchInv
<1>9. ASSUME NEW t \in turns' PROVE TurnSound(t)'
  <2>1. t \in turns /\ t.session \in Sessions \ {s}
    BY <1>1 DEF TurnsOf, ResearchInv, ResearchTypeOK, Turns
  <2>2. TurnSound(t)
    BY <2>1 DEF ResearchInv
  <2> QED BY <1>1, <1>3, <1>5, <2>1, <2>2, SameSession
<1>10. ~Exists(s)'
  BY <1>3 DEF Exists
<1>11. (\A e, o : MayShow(s, e, o)') /\ (\A c, o : MaySearch(s, c, o)')
  BY <1>3, <1>4 DEF MayShow, MaySearch
<1>12. ASSUME NEW q \in Requests \ {p}, NEW k, k = requests[q] PROVE RequestSound(k)'
  <2>1. RequestSound(k) /\ k \in KnownRequests
    BY <1>12 DEF ResearchInv, ResearchTypeOK
  <2>2. CASE k = Idle
    BY <2>2, IdleStaysSound
  <2>3. CASE k # Idle /\ k.session # s
    <3>1. k.session \in Sessions \ {s}
      BY <2>1, <2>3, KnownFields
    <3> QED BY <1>1, <1>3, <1>5, <2>1, <3>1, SameSession
  <2>4. CASE k # Idle /\ k.session = s
    <3>1. k.at # "numbered"
      BY <1>12, <1>1, <2>4 DEF Locked
    <3>2. sessions'[s] # NoSession /\ TurnsOf(s)' = {}
      BY <1>3, <1>4, <1>5
    <3> QED BY <1>10, <1>11, <2>4, <3>1, <3>2 DEF RequestSound
  <2> QED BY <2>2, <2>3, <2>4
<1>13. /\ requests' \in [Requests -> KnownRequests] /\ LocksApart'
       /\ \A q \in Requests : RequestSound(requests[q])'
  BY <1>1, <1>12, IdleStaysSound, IdleIsSound, RequestsKept
<1>14. ResearchTypeOK'
  <2>1. IsFiniteSet(turns')
    BY <1>1, FS_Subset DEF ResearchInv, ResearchTypeOK
  <2> QED BY <1>1, <1>13, <2>1 DEF ResearchInv, ResearchTypeOK, SessionRows
<1> QED BY <1>8, <1>9, <1>13, <1>14 DEF ResearchInv

LEMMA RestartKeeps ==
  ASSUME ResearchInv, Restart
  PROVE  ResearchInv'
<1>1. UNCHANGED <<owner, sessions, turns, raced>> /\ auth' \in BOOLEAN
  BY DEF Restart
<1>2. \A p \in Requests : requests'[p] = Idle
  BY DEF Restart
<1>3. requests' \in [Requests -> KnownRequests]
  BY DEF Restart, KnownRequests
<1>4. ResearchTypeOK'
  BY <1>1, <1>3 DEF ResearchInv, ResearchTypeOK
<1>5. (\A s \in Sessions : InOrder(s)') /\ \A t \in turns' : TurnSound(t)'
  BY <1>1, SameSessions DEF ResearchInv
<1>6. ASSUME NEW p \in Requests PROVE RequestSound(requests[p])'
  <2>1. \A r : r = requests'[p] => RequestSound(r)'
    BY <1>2, IdleStaysSound
  <2> QED BY <2>1
<1>7. LocksApart'
  BY <1>2 DEF LocksApart, Idle
<1> QED BY <1>4, <1>5, <1>6, <1>7 DEF ResearchInv

LEMMA AssignKeeps ==
  ASSUME ResearchInv, NEW source \in Sources, Assign(source)
  PROVE  ResearchInv'
<1>1. /\ owner[source] = Legacy
      /\ \A s \in Moved(source) : ~Locked(s)
      /\ owner' = [owner EXCEPT ![source] = Organization]
      /\ sessions' = [s \in Sessions |->
           IF s \in Moved(source) THEN [sessions[s] EXCEPT !.owner = Organization]
           ELSE sessions[s]]
      /\ UNCHANGED <<auth, turns, requests, raced>>
  BY DEF Assign
<1>2. /\ owner'[source] = Organization
      /\ \A b \in Sources \ {source} : owner'[b] = owner[b]
      /\ owner' \in [Sources -> {Organization, Other, Legacy}]
  BY <1>1 DEF ResearchInv, ResearchTypeOK
<1>3. \A s \in Sessions \ Moved(source) : sessions'[s] = sessions[s]
  BY <1>1
<1>4. ASSUME NEW s \in Moved(source)
      PROVE  /\ s \in Sessions /\ sessions[s].owner = Legacy /\ sessions[s].source = source
             /\ sessions'[s] \in SessionRows /\ sessions'[s] \notin {NoSession, Gone}
             /\ sessions'[s].owner = Organization /\ sessions'[s].source = source
             /\ sessions[s] \notin {NoSession, Gone}
  <2>1. s \in Sessions /\ sessions[s].owner = Legacy /\ sessions[s].source = source
    BY DEF Moved
  <2>2. sessions[s] \in [owner: {Organization, Legacy}, source: Sources \cup {Every}]
    BY <2>1 DEF ResearchInv, ResearchTypeOK, SessionRows, NoSession, Gone, Legacy
  <2>3. sessions'[s] = [sessions[s] EXCEPT !.owner = Organization]
    BY <1>1, <2>1
  <2>4. /\ sessions'[s] \in [owner: {Organization, Legacy}, source: Sources \cup {Every}]
        /\ sessions'[s].owner = Organization /\ sessions'[s].source = source
    BY <2>1, <2>2, <2>3
  <2> QED BY <2>1, <2>4 DEF SessionRows, NoSession, Gone, Organization, Legacy
<1>5. \A s \in Sessions : Exists(s)' <=> Exists(s)
  BY <1>3, <1>4 DEF Exists
<1>6. \A s \in Sessions : sessions'[s] = NoSession => sessions[s] = NoSession
  BY <1>3, <1>4
<1>7. \A s : TurnsOf(s)' = TurnsOf(s) /\ Numbers(s)' = Numbers(s)
  BY <1>1 DEF TurnsOf, Numbers
<1>8. sessions' \in [Sessions -> SessionRows]
  <2>1. \A s \in Sessions : sessions'[s] \in SessionRows
    BY <1>3, <1>4 DEF ResearchInv, ResearchTypeOK
  <2> QED BY <1>1, <2>1
<1>9. ResearchTypeOK'
  BY <1>1, <1>2, <1>8 DEF ResearchInv, ResearchTypeOK
<1>10. ASSUME NEW s \in Sessions, NEW e \in SUBSET Sources, NEW o, MayShow(s, e, o)
       PROVE  MayShow(s, e, o)'
  <2> SUFFICES ASSUME ~o PROVE MayShow(s, e, o)'
    BY DEF MayShow
  <2>1. CASE s \in Moved(source)
    <3>1. e \subseteq {source}
      BY <1>4, <1>10, <2>1, ResearchAssumption DEF MayShow
    <3>2. \A b \in e : owner'[b] = Organization
      BY <1>2, <3>1
    <3> QED BY <1>4, <2>1, <3>2 DEF MayShow, Organization, Legacy
  <2>2. CASE s \notin Moved(source)
    <3>1. sessions'[s] = sessions[s]
      BY <1>3, <2>2
    <3>2. \A b \in Sources : owner[b] = Organization => owner'[b] = Organization
      BY <1>2
    <3> QED BY <1>10, <3>1, <3>2 DEF MayShow
  <2> QED BY <2>1, <2>2
<1>11. ASSUME NEW s \in Sessions, NEW c, NEW o, MaySearch(s, c, o)
       PROVE  MaySearch(s, c, o)'
  <2> SUFFICES ASSUME ~o PROVE MaySearch(s, c, o)'
    BY DEF MaySearch
  <2>1. CASE s \in Moved(source)
    BY <1>2, <1>4, <1>11, <2>1 DEF MaySearch, Organization, Legacy
  <2>2. CASE s \notin Moved(source)
    <3>1. sessions'[s] = sessions[s]
      BY <1>3, <2>2
    <3>2. \A b \in Sources : owner[b] = Organization => owner'[b] = Organization
      BY <1>2
    <3> QED BY <1>11, <3>1, <3>2 DEF MaySearch
  <2> QED BY <2>1, <2>2
<1>12. \A s \in Sessions : InOrder(s)'
  BY <1>7 DEF ResearchInv, InOrder
<1>13. ASSUME NEW t \in turns' PROVE TurnSound(t)'
  <2>1. t \in Turns /\ TurnSound(t)
    BY <1>1 DEF ResearchInv, ResearchTypeOK
  <2> QED BY <1>5, <1>10, <2>1 DEF TurnSound, Turns
<1>14. ASSUME NEW q \in Requests, NEW k, k = requests[q] PROVE RequestSound(k)'
  <2>1. RequestSound(k) /\ k \in KnownRequests
    BY <1>14 DEF ResearchInv, ResearchTypeOK
  <2>2. CASE k = Idle
    BY <2>2, IdleStaysSound
  <2>3. CASE k # Idle
    <3>1. k.session \in Sessions
      BY <2>1, <2>3, KnownFields
    <3>2. k.at \in {"searched", "numbered"} => k.evidence \in SUBSET Sources
      BY <2>1, KnownFields DEF Searches, Saves
    <3>3. sessions'[k.session] # NoSession
      BY <1>6, <2>1, <2>3, <3>1 DEF RequestSound
    <3>4. k.at = "read" => MaySearch(k.session, k.scope, k.open)'
      BY <1>11, <2>1, <3>1 DEF RequestSound
    <3>5. k.at \in {"searched", "numbered"} => MayShow(k.session, k.evidence, k.open)'
      BY <1>10, <2>1, <3>1, <3>2 DEF RequestSound
    <3> QED BY <1>1, <1>5, <1>7, <2>1, <3>1, <3>3, <3>4, <3>5 DEF RequestSound
  <2> QED BY <2>2, <2>3
<1>15. \A q \in Requests : RequestSound(requests[q])'
  <2> SUFFICES ASSUME NEW q \in Requests PROVE RequestSound(requests[q])'
    OBVIOUS
  <2>1. \A k : k = requests'[q] => RequestSound(k)'
    BY <1>1, <1>14
  <2> QED BY <2>1
<1>16. LocksApart'
  BY <1>1 DEF ResearchInv, LocksApart
<1> QED BY <1>9, <1>12, <1>13, <1>15, <1>16 DEF ResearchInv

LEMMA ResearchSame ==
  ASSUME ResearchInv, UNCHANGED researchVars
  PROVE  ResearchInv'
<1>1. UNCHANGED <<auth, owner, sessions, turns, requests, raced>>
  BY DEF researchVars
<1>2. ResearchTypeOK' /\ LocksApart'
  BY <1>1 DEF ResearchInv, ResearchTypeOK, LocksApart
<1>3. (\A s \in Sessions : InOrder(s)') /\ \A t \in turns' : TurnSound(t)'
  BY <1>1, SameSessions DEF ResearchInv
<1>4. ASSUME NEW p \in Requests PROVE RequestSound(requests[p])'
  <2>1. \A r : r = requests'[p] => RequestSound(r)'
    BY <1>1, SameSessions DEF ResearchInv
  <2> QED BY <2>1
<1> QED BY <1>2, <1>3, <1>4 DEF ResearchInv

LEMMA ResearchInvKeeps ==
  ASSUME ResearchInv, [ResearchStep]_researchVars
  PROVE  ResearchInv'
  BY CreateKeeps, AskKeeps, SearchKeeps, FailKeeps, NumberKeeps, SaveKeeps, CountKeeps,
     TakeBackKeeps, RestartKeeps, AssignKeeps, ResearchSame
     DEF ResearchStep

LEMMA ResearchInvHolds == ResearchSpec => []ResearchInv
<1>1. ResearchInv /\ [ResearchStep]_researchVars => ResearchInv'
  BY ResearchInvKeeps
<1> QED BY InitResearch, <1>1, PTL DEF ResearchSpec

(* Sessions are read in order and show what their organization owns.       *)
THEOREM SessionsStaySound == ResearchSpec => []SessionsAreSound
  BY ResearchInvHolds, ResearchInvSuffices, PTL

(* Turns go only with a session that is taken back, and it had none when   *)
(* they were counted.                                                      *)
LEMMA TakenBackEmpty ==
  ASSUME ResearchInv, NEW p \in Requests, TakeBack(p), NEW t \in turns, t \notin turns'
  PROVE  t.session \in raced
<1>1. requests[p] \in KnownRequests /\ RequestSound(requests[p]) /\ requests[p].at = "empty"
  BY DEF TakeBack, ResearchInv, ResearchTypeOK
<1>2. t \in TurnsOf(requests[p].session)
  BY DEF TakeBack
<1> QED BY <1>1, <1>2 DEF RequestSound, TurnsOf

LEMMA TurnsKept ==
  ASSUME ResearchInv, [ResearchStep]_researchVars, NEW t \in turns, t \notin turns'
  PROVE  t.session \in raced
<1>1. turns' # turns
  OBVIOUS
<1>2. ASSUME NEW p \in Requests
      PROVE  ~(Search(p) \/ Fail(p) \/ Number(p) \/ Save(p) \/ Count(p))
  <2>1. ~Search(p) /\ ~Fail(p)
    BY <1>1 DEF Search, Fail
  <2>2. ~Number(p) /\ ~Count(p)
    BY <1>1 DEF Number, Count
  <2>3. ~Save(p)
    BY <1>1 DEF Save
  <2> QED BY <2>1, <2>2, <2>3
<1>3. ASSUME NEW p \in Requests, NEW s \in Sessions
      PROVE  /\ ~Ask(p, s)
             /\ \A o, source, starts : ~Create(p, s, o, source, starts)
  BY <1>1 DEF Ask, Create
<1>4. ~Restart /\ \A source \in Sources : ~Assign(source)
  BY <1>1 DEF Restart, Assign
<1>5. \E p \in Requests : TakeBack(p)
  BY <1>1, <1>2, <1>3, <1>4 DEF ResearchStep, researchVars
<1> QED BY <1>5, TakenBackEmpty

(* An answered turn is lost only with a session whose start failed and had *)
(* counted none of its turns.                                              *)
THEOREM TurnsAreKept == ResearchSpec => TurnsStay
<1>1. ResearchInv /\ [ResearchStep]_researchVars =>
        [\A t \in turns : t \notin turns' => t.session \in raced]_researchVars
  BY TurnsKept
<1> QED BY ResearchInvHolds, <1>1, PTL DEF ResearchSpec, TurnsStay

--------------------------------------------------------------------------------

AllQuestions == {"answer", "policies", "ingestion", "queues", "version", "revisions",
                 "evaluations", "errors", "backup", "evidence", "gates"}

Answers == [question: AllQuestions, good: BOOLEAN, rows: SUBSET Int]

Commands == {"ready", "diagnostics", "preflight", "pilot", "compatibility", "candidate",
             "acceptance"}

Reports == [at: {"none", "asking", "failed", "done"}, command: Commands \cup {"none"},
            organization: Organizations \cup {Nobody}, profile: Profiles \cup {{}},
            validated: BOOLEAN, deployment: DeploymentProfiles \cup {{}},
            answers: Seq(Answers), aborted: BOOLEAN, cut: BOOLEAN, passed: BOOLEAN]

ReportTypeOK ==
    /\ deployed \in 0..Newest
    /\ report \in Reports
    /\ report.at # "none" => report.command \in Commands
    /\ cleared \in BOOLEAN

KnownVersions ==
    \/ versions \in {{deployed}, {Foreign}, {deployed, Foreign}}
    \/ deployed = 0 /\ versions \in {NoTable, {}}

(* What the preflight has seen, and nothing takes back.                    *)
Current == settings = {} /\ deployed = Newest /\ versions = {HeadRevision}

Equipped == Asked("policies") \subseteq SchemaAt[deployed].tables

(* What was answered is still true: a schema is only upgraded, to the      *)
(* newest one.                                                             *)
AnswerTrue(a) ==
    /\ a.question = "version" /\ HeadRevision \in a.rows => HeadRevision \in versions
    /\ a.question = "revisions" /\ a.rows = {HeadRevision} => versions = {HeadRevision}
    /\ a.question = "policies" /\ a.good => Equipped

GoodBefore(answers, i) == \A j \in 1..(i - 1) : answers[j].good
PoliciesBefore(answers, i) == \E j \in 1..(i - 1) : answers[j].question = "policies"

(* A transaction whose connection holds is aborted by a question that      *)
(* fails, and after the policies the queues and the version do not.        *)
FailuresShow(answers) ==
    \A i \in 1..Len(answers) :
        GoodBefore(answers, i) /\ PoliciesBefore(answers, i) =>
            /\ answers[i].question = "queues" => answers[i].good
            /\ answers[i].question = "version" => answers[i].rows # {}

AbortShows(answers) == \E i \in 1..Len(answers) : ~answers[i].good

(* What the questions of a cleared deployment are answered.                *)
AllGood(answers) ==
    \A i \in 1..Len(answers) :
        /\ answers[i].good
        /\ answers[i].question \in {"version", "revisions"} => answers[i].rows = {HeadRevision}

VerdictTrue(command, answers) ==
    /\ command = "ready" => ReadyPassed(answers)
    /\ command = "diagnostics" => DiagnosticsPassed(answers)
    /\ command = "preflight" => PreflightPassed(answers)
    /\ command = "pilot" => PilotPassed(answers)
    /\ command = "compatibility" => CompatibilityPassed(answers)

Checks == {"ready", "diagnostics", "preflight", "pilot", "compatibility"}

ReportSound ==
    /\ \A i \in 1..Len(report.answers) :
         /\ report.answers[i].question = Questions(report)[i]
         /\ AnswerTrue(report.answers[i])
    /\ Len(report.answers) <= Len(Questions(report))
    /\ report.at = "done" => Len(report.answers) = Len(Questions(report))
    /\ ~report.cut => /\ FailuresShow(report.answers)
                      /\ report.aborted => AbortShows(report.answers)
    /\ report.passed => report.at = "done" /\ VerdictTrue(report.command, report.answers)
    /\ cleared /\ ~report.cut =>
         /\ report.at # "failed"
         /\ report.at = "asking" => ~report.aborted /\ AllGood(report.answers)
         /\ report.at = "done" /\ report.command \in Checks => report.passed

ReportsInv ==
    /\ ReportTypeOK
    /\ KnownVersions
    /\ cleared => Current
    /\ report.at # "none" => ReportSound
    /\ report.at = "none" => ~report.passed
    /\ AcceptanceIsBacked

--------------------------------------------------------------------------------

LEMMA Revisions == Newest = 59 /\ HeadRevision = 59 /\ Foreign = 60
  BY DEF Newest, History, HeadRevision, Foreign

LEMMA Joined ==
  ASSUME NEW S, NEW s \in Seq(S), NEW t \in Seq(S)
  PROVE  /\ s \o t \in Seq(S) /\ Len(s \o t) = Len(s) + Len(t)
         /\ \A i \in 1..Len(s) : (s \o t)[i] = s[i]
         /\ \A i \in 1..Len(t) : (s \o t)[Len(s) + i] = t[i]
<1>1. PICK both : both = s \o t
  OBVIOUS
<1>2. /\ both \in Seq(S) /\ Len(both) = Len(s) + Len(t)
      /\ \A i \in 1..Len(s) + Len(t) :
           both[i] = IF i <= Len(s) THEN s[i] ELSE t[i - Len(s)]
  BY <1>1, ConcatProperties, Zenon
<1>3. \A i \in 1..Len(s) : both[i] = s[i]
  BY <1>2
<1>4. ASSUME NEW i \in 1..Len(t) PROVE both[Len(s) + i] = t[i]
  <2>1. /\ Len(s) + i \in 1..Len(s) + Len(t) /\ ~(Len(s) + i <= Len(s))
        /\ (Len(s) + i) - Len(s) = i
    OBVIOUS
  <2> QED BY <1>2, <2>1
<1> QED BY <1>1, <1>2, <1>3, <1>4

LEMMA QuestionLists ==
  /\ Ready \in Seq(AllQuestions) /\ Len(Ready) = 3
  /\ Ready[1] = "answer" /\ Ready[2] = "policies" /\ Ready[3] = "ingestion"
  /\ Diagnostics \in Seq(AllQuestions) /\ Len(Diagnostics) = 5
  /\ \A i \in 1..3 : Diagnostics[i] = Ready[i]
  /\ Diagnostics[4] = "queues" /\ Diagnostics[5] = "version"
  /\ Preflight \in Seq(AllQuestions) /\ Len(Preflight) = 6
  /\ \A i \in 1..5 : Preflight[i] = Diagnostics[i]
  /\ Preflight[6] = "revisions"
  /\ Pilot \in Seq(AllQuestions) /\ Len(Pilot) = 5
  /\ \A i \in 1..3 : Pilot[i] = Ready[i]
  /\ Pilot[4] = "version" /\ Pilot[5] = "evaluations"
  /\ Bundle \in Seq(AllQuestions)
<1>1. /\ Ready \in Seq(AllQuestions) /\ Len(Ready) = 3
      /\ Ready[1] = "answer" /\ Ready[2] = "policies" /\ Ready[3] = "ingestion"
  BY DEF Ready, AllQuestions
<1>2. /\ <<"queues", "version">> \in Seq(AllQuestions) /\ Len(<<"queues", "version">>) = 2
      /\ <<"version", "evaluations">> \in Seq(AllQuestions)
      /\ Len(<<"version", "evaluations">>) = 2
      /\ <<"revisions">> \in Seq(AllQuestions) /\ Len(<<"revisions">>) = 1
      /\ <<"errors">> \in Seq(AllQuestions)
  BY DEF AllQuestions
<1>3. /\ Diagnostics \in Seq(AllQuestions) /\ Len(Diagnostics) = 5
      /\ \A i \in 1..3 : Diagnostics[i] = Ready[i]
      /\ Diagnostics[4] = "queues" /\ Diagnostics[5] = "version"
  <2>1. PICK t : t = <<"queues", "version">>
    OBVIOUS
  <2>2. t \in Seq(AllQuestions) /\ Len(t) = 2 /\ t[1] = "queues" /\ t[2] = "version"
    BY <1>2, <2>1
  <2>c. t \in Seq(AllQuestions)
    BY <2>2
  <2>a. PICK r : r = Ready
    OBVIOUS
  <2>b. r \in Seq(AllQuestions) /\ Len(r) = Len(Ready)
    BY <1>1, <2>a
  <2>3. /\ r \o t \in Seq(AllQuestions) /\ Len(r \o t) = Len(r) + Len(t)
        /\ \A i \in 1..Len(r) : (r \o t)[i] = r[i]
    BY <2>b, <2>c, Joined, Zenon
  <2>d. \A i \in 1..Len(t) : (r \o t)[Len(r) + i] = t[i]
    BY <2>b, <2>c, Joined
  <2>e. PICK u : u = r \o t
    OBVIOUS
  <2>f. /\ u \in Seq(AllQuestions) /\ Len(u) = Len(r) + Len(t)
        /\ \A i \in 1..Len(r) : u[i] = r[i]
        /\ \A i \in 1..Len(t) : u[Len(r) + i] = t[i]
    BY <2>3, <2>d, <2>e, Zenon
  <2>4. /\ u \in Seq(AllQuestions) /\ Len(u) = 5
        /\ \A i \in 1..3 : u[i] = r[i]
        /\ u[4] = "queues" /\ u[5] = "version"
    BY <1>1, <2>2, <2>b, <2>f
  <2>5. u = Diagnostics
    BY <2>1, <2>a, <2>e DEF Diagnostics
  <2> QED BY <2>4, <2>5, <2>a
<1>4. /\ Preflight \in Seq(AllQuestions) /\ Len(Preflight) = 6
      /\ \A i \in 1..5 : Preflight[i] = Diagnostics[i]
      /\ Preflight[6] = "revisions"
  <2>1. PICK t : t = <<"revisions">>
    OBVIOUS
  <2>2. t \in Seq(AllQuestions) /\ Len(t) = 1 /\ t[1] = "revisions"
    BY <1>2, <2>1
  <2>c. t \in Seq(AllQuestions)
    BY <2>2
  <2>a. PICK r : r = Diagnostics
    OBVIOUS
  <2>b. r \in Seq(AllQuestions) /\ Len(r) = Len(Diagnostics)
    BY <1>3, <2>a
  <2>3. /\ r \o t \in Seq(AllQuestions) /\ Len(r \o t) = Len(r) + Len(t)
        /\ \A i \in 1..Len(r) : (r \o t)[i] = r[i]
    BY <2>b, <2>c, Joined, Zenon
  <2>d. \A i \in 1..Len(t) : (r \o t)[Len(r) + i] = t[i]
    BY <2>b, <2>c, Joined
  <2>e. PICK u : u = r \o t
    OBVIOUS
  <2>f. /\ u \in Seq(AllQuestions) /\ Len(u) = Len(r) + Len(t)
        /\ \A i \in 1..Len(r) : u[i] = r[i]
        /\ \A i \in 1..Len(t) : u[Len(r) + i] = t[i]
    BY <2>3, <2>d, <2>e, Zenon
  <2>4. /\ u \in Seq(AllQuestions) /\ Len(u) = 6
        /\ \A i \in 1..5 : u[i] = r[i]
        /\ u[6] = "revisions"
    BY <1>3, <2>2, <2>b, <2>f
  <2>5. u = Preflight
    BY <2>1, <2>a, <2>e DEF Preflight
  <2> QED BY <2>4, <2>5, <2>a
<1>5. /\ Pilot \in Seq(AllQuestions) /\ Len(Pilot) = 5
      /\ \A i \in 1..3 : Pilot[i] = Ready[i]
      /\ Pilot[4] = "version" /\ Pilot[5] = "evaluations"
  <2>1. PICK t : t = <<"version", "evaluations">>
    OBVIOUS
  <2>2. t \in Seq(AllQuestions) /\ Len(t) = 2 /\ t[1] = "version" /\ t[2] = "evaluations"
    BY <1>2, <2>1
  <2>c. t \in Seq(AllQuestions)
    BY <2>2
  <2>a. PICK r : r = Ready
    OBVIOUS
  <2>b. r \in Seq(AllQuestions) /\ Len(r) = Len(Ready)
    BY <1>1, <2>a
  <2>3. /\ r \o t \in Seq(AllQuestions) /\ Len(r \o t) = Len(r) + Len(t)
        /\ \A i \in 1..Len(r) : (r \o t)[i] = r[i]
    BY <2>b, <2>c, Joined, Zenon
  <2>d. \A i \in 1..Len(t) : (r \o t)[Len(r) + i] = t[i]
    BY <2>b, <2>c, Joined
  <2>e. PICK u : u = r \o t
    OBVIOUS
  <2>f. /\ u \in Seq(AllQuestions) /\ Len(u) = Len(r) + Len(t)
        /\ \A i \in 1..Len(r) : u[i] = r[i]
        /\ \A i \in 1..Len(t) : u[Len(r) + i] = t[i]
    BY <2>3, <2>d, <2>e, Zenon
  <2>4. /\ u \in Seq(AllQuestions) /\ Len(u) = 5
        /\ \A i \in 1..3 : u[i] = r[i]
        /\ u[4] = "version" /\ u[5] = "evaluations"
    BY <1>1, <2>2, <2>b, <2>f
  <2>5. u = Pilot
    BY <2>1, <2>a, <2>e DEF Pilot
  <2> QED BY <2>4, <2>5, <2>a
<1>6. Bundle \in Seq(AllQuestions)
  BY <1>2, <1>3, ConcatProperties DEF Bundle
<1> QED BY <1>1, <1>3, <1>4, <1>5, <1>6

LEMMA QuestionsAreKnown ==
  ASSUME NEW r, r.command \in Commands
  PROVE  Questions(r) \in Seq(AllQuestions) /\ Questions(r)' \in Seq(AllQuestions)
<1>1. <<"revisions">> \in Seq(AllQuestions) /\ <<"backup">> \in Seq(AllQuestions)
      /\ <<"evidence">> \in Seq(AllQuestions) /\ <<"gates">> \in Seq(AllQuestions)
      /\ <<>> \in Seq(AllQuestions)
  BY DEF AllQuestions
<1>2. \A s, t \in Seq(AllQuestions) : s \o t \in Seq(AllQuestions)
  OBVIOUS
<1>3. (IF r.organization = Nobody THEN <<>> ELSE <<"evidence">>) \in Seq(AllQuestions)
  BY <1>1
<1>4. Preflight \o <<"backup">> \in Seq(AllQuestions)
  BY <1>1, <1>2, QuestionLists
<1>5. Preflight \o Pilot \o Bundle \o <<"backup">>
      \o (IF r.organization = Nobody THEN <<>> ELSE <<"evidence">>) \o <<"gates">>
      \in Seq(AllQuestions)
  BY <1>1, <1>2, <1>3, QuestionLists
<1> QED BY <1>1, <1>4, <1>5, QuestionLists DEF Questions, Commands

(* On the newest schema every question is answered.                        *)
LEMMA NewestAnswers ==
  ASSUME Current, NEW q \in AllQuestions
  PROVE  Answered(q)
<1>1. Asked(q) \subseteq NewestSchema.tables
  <2>1. CASE q \in {"policies", "errors", "gates", "evidence"}
    BY <2>1, TablesAssumption
  <2>2. CASE q \in {"answer", "version", "revisions"}
    BY <2>2 DEF Asked
  <2>3. CASE q \in {"queues", "ingestion"}
    <3>1. Asked(q) \subseteq Asked("errors")
      BY <2>3 DEF Asked, QueueTables
    <3> QED BY <3>1, TablesAssumption
  <2>4. CASE q \in {"evaluations", "backup"}
    <3>1. Asked(q) \subseteq Asked("gates") \cup Asked("evidence")
      BY <2>4 DEF Asked
    <3> QED BY <3>1, TablesAssumption
  <2> QED BY <2>1, <2>2, <2>3, <2>4 DEF AllQuestions
<1>2. Columns(q) \subseteq NewestSchema.columns
  BY DEF Columns
<1>3. versions # NoTable
  BY Revisions DEF Current, NoTable
<1> QED BY <1>1, <1>2, <1>3 DEF Answered, Current, NewestSchema

LEMMA UpgradedFrom ==
  ASSUME ReportsInv, UpgradeAll
  PROVE  /\ Current => UNCHANGED <<deployed, versions>>
         /\ deployed' = Newest /\ versions' = {HeadRevision}
         /\ Equipped => Equipped'
<1>1. deployed < Newest /\ deployed' = Newest /\ versions' = {HeadRevision}
  BY DEF UpgradeAll
<1>2. ~Current
  BY <1>1, Revisions DEF Current
<1>3. Equipped'
  <2>1. Asked("policies") \subseteq NewestSchema.tables
    BY TablesAssumption
  <2> QED BY <1>1, <2>1 DEF Equipped, NewestSchema
<1> QED BY <1>1, <1>2, <1>3

(* What was answered stays true.                                           *)
LEMMA AnswersStay ==
  ASSUME ReportsInv, [ReportsStep]_reportVars, NEW a, AnswerTrue(a)
  PROVE  AnswerTrue(a)'
<1>1. CASE UpgradeAll
  <2>1. versions' = {HeadRevision} /\ (Equipped => Equipped')
    BY <1>1, UpgradedFrom
  <2> QED BY <2>1 DEF AnswerTrue
<1>2. CASE UNCHANGED <<deployed, versions>>
  BY <1>2 DEF AnswerTrue, Equipped
<1> QED BY <1>1, <1>2 DEF ReportsStep, reportVars, BeginCheck, BeginCandidate, BeginAcceptance,
                          Begin, AskDatabase, LoseConnection, Conclude

(* The verdicts and the questions rest on the settings, the answers and    *)
(* what was asked for.                                                     *)
LEMMA SameVerdicts ==
  ASSUME settings' = settings
  PROVE  /\ \A c, answers : VerdictTrue(c, answers)' <=> VerdictTrue(c, answers)
         /\ \A r, s : r.command = s.command /\ r.organization = s.organization /\
                      r.command \in Commands => Questions(r)' = Questions(s)
<1>1. \A answers, q : /\ Good(answers, q)' <=> Good(answers, q)
                      /\ Rows(answers, q)' = Rows(answers, q)
  BY DEF Good, Rows, To
<1>2. \A answers : /\ ReadyPassed(answers)' <=> ReadyPassed(answers)
                   /\ CompatibilityPassed(answers)' <=> CompatibilityPassed(answers)
                   /\ ValidSettings' <=> ValidSettings
  BY <1>1 DEF ReadyPassed, CompatibilityPassed, ValidSettings
<1>3. \A c, answers : VerdictTrue(c, answers)' <=> VerdictTrue(c, answers)
  BY <1>1, <1>2 DEF VerdictTrue, DiagnosticsPassed, PreflightPassed, PilotPassed
<1>4. ASSUME NEW r, NEW s, r.command = s.command, r.organization = s.organization,
             r.command \in Commands
      PROVE  Questions(r)' = Questions(s)
  BY <1>4 DEF Questions, Commands
<1> QED BY <1>3, <1>4

(* What an acceptance run can find out.                                    *)
LEMMA FoundOut ==
  ASSUME NEW r
  PROVE  DOMAIN Values(r) =
           {"configuration", "migration", "preflight", "authentication", "support_bundle"}
           \cup (IF r.validated THEN {"validation"} ELSE {})
           \cup (IF r.organization # Nobody /\ "no_database" \notin settings
                 THEN Evidence ELSE {})
  BY DEF Values

LEMMA SameManual ==
  ASSUME settings' = settings, NEW r, NEW s,
         r.profile = s.profile, r.validated = s.validated, r.organization = s.organization
  PROVE  Manual(r)' = Manual(s)
<1>1. (DOMAIN Values(r))' =
           {"configuration", "migration", "preflight", "authentication", "support_bundle"}
           \cup (IF r.validated THEN {"validation"} ELSE {})
           \cup (IF r.organization # Nobody /\ "no_database" \notin settings'
                 THEN Evidence ELSE {})
  BY DEF Values
<1> QED BY <1>1, FoundOut DEF Manual

LEMMA ReportsInvStart == ReportsInit => ReportsInv
<1> SUFFICES ASSUME ReportsInit PROVE ReportsInv
  OBVIOUS
<1>1. report.at = "none" /\ report.answers = <<>> /\ report.passed = FALSE
      /\ report.aborted = FALSE /\ report.cut = FALSE /\ cleared = FALSE
  BY DEF ReportsInit, NoReport
<1>2. deployed \in 0..Newest
  BY ReportsAssumption DEF ReportsInit
<1>3. KnownVersions
  BY DEF ReportsInit, KnownVersions
<1>4. <<>> \in Seq(Answers)
  OBVIOUS
<1>5. AcceptanceIsBacked
  BY <1>1 DEF AcceptanceIsBacked, Done
<1>6. report \in Reports
  BY <1>4 DEF ReportsInit, NoReport, Reports
<1> QED BY <1>1, <1>2, <1>3, <1>5, <1>6 DEF ReportsInv, ReportTypeOK

LEMMA BeginKeeps ==
  ASSUME ReportsInv, NEW c \in Commands, NEW o \in Organizations \cup {Nobody},
         NEW profile \in Profiles \cup {{}}, NEW v \in BOOLEAN,
         NEW d \in DeploymentProfiles \cup {{}}, Begin(c, o, profile, v, d)
  PROVE  ReportsInv'
<1>1. /\ report'.at = "asking" /\ report'.command = c /\ report'.answers = <<>>
      /\ report'.aborted = FALSE /\ report'.cut = FALSE /\ report'.passed = FALSE
  BY DEF Begin, NoReport
<1>2. UNCHANGED <<settings, deployed, versions, histories, cleared>>
  BY DEF Begin
<1>3. <<>> \in Seq(Answers) /\ Len(<<>>) = 0
  OBVIOUS
<1>4. ReportTypeOK'
  <2>1. report' \in Reports
    BY <1>3 DEF Begin, NoReport, Reports
  <2> QED BY <1>1, <1>2, <2>1 DEF ReportsInv, ReportTypeOK
<1>5. KnownVersions' /\ (cleared' => Current')
  BY <1>2 DEF ReportsInv, KnownVersions, Current
<1>6. AcceptanceIsBacked'
  BY <1>1 DEF AcceptanceIsBacked, Done
<1>7. (Questions(report) \in Seq(AllQuestions))'
  <2>1. \A r : r = report' => Questions(r)' \in Seq(AllQuestions)
    BY <1>1, QuestionsAreKnown
  <2> QED BY <2>1
<1>8. ReportSound'
  BY <1>1, <1>3, <1>7, LenProperties DEF ReportSound, FailuresShow, AllGood
<1> QED BY <1>1, <1>4, <1>5, <1>6, <1>8 DEF ReportsInv

LEMMA UpgradeKeeps ==
  ASSUME ReportsInv, UpgradeAll
  PROVE  ReportsInv'
<1>1. UNCHANGED <<settings, histories, report, cleared>>
  BY DEF UpgradeAll
<1>2. /\ deployed' = Newest /\ versions' = {HeadRevision}
      /\ Current => UNCHANGED <<deployed, versions>>
  BY UpgradedFrom
<1>3. ReportTypeOK'
  BY <1>1, <1>2, Revisions DEF ReportsInv, ReportTypeOK
<1>4. KnownVersions' /\ (cleared' => Current')
  BY <1>1, <1>2 DEF ReportsInv, KnownVersions, Current, HeadRevision
<1>5. AcceptanceIsBacked'
  <2>1. \A r : r = report' => Manual(r)' = Manual(report)
    BY <1>1, SameManual
  <2>2. Manual(report)' = Manual(report)
    BY <2>1
  <2> QED BY <1>1, <2>2 DEF ReportsInv, AcceptanceIsBacked, Done
<1>6. ASSUME ReportSound, report.at # "none" PROVE ReportSound'
  <2>1. PICK r : r = report
    OBVIOUS
  <2>2. Questions(report)' = Questions(report)
    BY <1>1, <1>6, SameVerdicts DEF ReportsInv, ReportTypeOK
  <2>3. \A c, answers : VerdictTrue(c, answers)' <=> VerdictTrue(c, answers)
    BY <1>1, SameVerdicts
  <2>4. \A a : AnswerTrue(a) => AnswerTrue(a)'
    BY AnswersStay DEF ReportsStep
  <2> QED BY <1>1, <1>6, <2>2, <2>3, <2>4 DEF ReportSound, FailuresShow, AbortShows, AllGood
<1> QED BY <1>1, <1>3, <1>4, <1>5, <1>6 DEF ReportsInv

LEMMA LoseConnectionKeeps ==
  ASSUME ReportsInv, LoseConnection
  PROVE  ReportsInv'
<1>1. UNCHANGED <<settings, deployed, versions, histories, cleared>> /\ report.at = "asking"
  BY DEF LoseConnection
<1>2. report' \in Reports
  BY DEF LoseConnection, ReportsInv, ReportTypeOK, Reports
<1>3. /\ report'.at \in {"asking", "failed"} /\ report'.cut = TRUE
      /\ report'.command = report.command /\ report'.organization = report.organization
      /\ report'.answers = report.answers /\ report'.passed = report.passed
  BY DEF LoseConnection, ReportsInv, ReportTypeOK, Reports
<1>4. ReportTypeOK' /\ KnownVersions' /\ (cleared' => Current')
  BY <1>1, <1>2, <1>3 DEF ReportsInv, ReportTypeOK, KnownVersions, Current
<1>5. AcceptanceIsBacked'
  BY <1>3 DEF AcceptanceIsBacked, Done
<1>6. ReportSound'
  <2>1. ReportSound /\ report.passed = FALSE
    BY <1>1 DEF ReportsInv, ReportSound, ReportTypeOK, Reports
  <2>2. \A r : r = report' => Questions(r)' = Questions(report)
    BY <1>1, <1>3, SameVerdicts DEF ReportsInv, ReportTypeOK
  <2>3. Questions(report)' = Questions(report)
    BY <2>2
  <2>4. \A a : AnswerTrue(a) => AnswerTrue(a)'
    BY AnswersStay DEF ReportsStep
  <2> QED BY <1>3, <2>1, <2>3, <2>4 DEF ReportSound
<1> QED BY <1>3, <1>4, <1>5, <1>6 DEF ReportsInv

(* A question that was answered well is found among the answers.           *)
LEMMA FoundGood ==
  ASSUME NEW answers \in Seq(Answers), NEW i \in 1..Len(answers), AllGood(answers)
  PROVE  /\ Good(answers, answers[i].question)
         /\ answers[i].question \in {"version", "revisions"} =>
              Rows(answers, answers[i].question) = {HeadRevision}
<1>1. answers[i] \in ToSet(answers)
  BY DEF ToSet
<1>2. answers[i].good
  BY DEF AllGood
<1>3. Good(answers, answers[i].question)
  BY <1>1, <1>2 DEF Good, To
<1>4. ASSUME answers[i].question \in {"version", "revisions"}
      PROVE  Rows(answers, answers[i].question) = {HeadRevision}
  <2>1. \A a \in To(answers[i].question, answers) : a.rows = {HeadRevision}
    BY <1>4 DEF To, ToSet, AllGood
  <2>2. answers[i] \in To(answers[i].question, answers)
    BY <1>1 DEF To
  <2> QED BY <2>1, <2>2 DEF Rows
<1> QED BY <1>3, <1>4

(* A cleared deployment passes every check whose questions were answered.  *)
LEMMA ClearedPasses ==
  ASSUME ReportsInv, cleared, ~report.cut, report.at = "asking",
         Len(report.answers) = Len(Questions(report)), report.command \in Checks
  PROVE  Passed(report)
<1> DEFINE answers == report.answers
           list == Questions(report)
<1>1. settings = {}
  BY DEF ReportsInv, Current
<1>2. /\ answers \in Seq(Answers) /\ AllGood(answers) /\ ~report.aborted
      /\ \A i \in 1..Len(list) : answers[i].question = list[i]
  BY DEF ReportsInv, ReportSound, ReportTypeOK, Reports
<1>3. \A i \in 1..Len(list) :
        /\ Good(answers, list[i])
        /\ list[i] \in {"version", "revisions"} => Rows(answers, list[i]) = {HeadRevision}
  BY <1>2, FoundGood
<1>4. list = CASE report.command = "ready" -> Ready
               [] report.command = "diagnostics" -> Diagnostics
               [] report.command = "preflight" -> Preflight
               [] report.command = "pilot" -> Pilot
               [] report.command = "compatibility" -> <<"revisions">>
  BY <1>1 DEF Questions, Checks
<1> HIDE DEF answers, list
<1>5. CASE report.command = "ready"
  <2>1. list = Ready
    BY <1>4, <1>5
  <2>2. ReadyPassed(answers)
    BY <1>1, <1>3, <2>1, QuestionLists DEF ReadyPassed
  <2> QED BY <1>5, <2>2 DEF Passed, answers
<1>6. CASE report.command = "diagnostics"
  <2>1. list = Diagnostics
    BY <1>4, <1>6
  <2>2. \A i \in 1..5 : Good(answers, Diagnostics[i])
    BY <1>3, <2>1, QuestionLists
  <2>3. ReadyPassed(answers)
    BY <1>1, <2>2, QuestionLists DEF ReadyPassed
  <2>4. Rows(answers, "version") = {HeadRevision}
    BY <1>3, <2>1, QuestionLists
  <2>5. DiagnosticsPassed(answers)
    BY <1>1, <2>3, <2>4 DEF DiagnosticsPassed, ValidSettings
  <2> QED BY <1>6, <2>5 DEF Passed, answers
<1>7. CASE report.command = "preflight"
  <2>1. list = Preflight
    BY <1>4, <1>7
  <2>2. \A i \in 1..6 : Good(answers, Preflight[i])
    BY <1>3, <2>1, QuestionLists
  <2>3. Good(answers, "answer") /\ Good(answers, "queues") /\ Good(answers, "revisions")
    BY <2>2, QuestionLists
  <2>4. Rows(answers, "revisions") = {HeadRevision}
    BY <1>3, <2>1, QuestionLists
  <2>5. PreflightPassed(answers)
    BY <1>1, <2>3, <2>4 DEF PreflightPassed, ValidSettings, CompatibilityPassed
  <2> QED BY <1>7, <2>5 DEF Passed, answers
<1>8. CASE report.command = "pilot"
  <2>1. list = Pilot
    BY <1>4, <1>8
  <2>2. \A i \in 1..3 : Good(answers, Ready[i])
    BY <1>3, <2>1, QuestionLists
  <2>3. ReadyPassed(answers)
    BY <1>1, <2>2, QuestionLists DEF ReadyPassed
  <2>4. Rows(answers, "version") = {HeadRevision}
    BY <1>3, <2>1, QuestionLists
  <2>5. PilotPassed(answers)
    BY <1>1, <2>3, <2>4 DEF PilotPassed, ValidSettings
  <2> QED BY <1>8, <2>5 DEF Passed, answers
<1>9. CASE report.command = "compatibility"
  <2>1. Len(list) = 1 /\ list[1] = "revisions"
    BY <1>4, <1>9
  <2>2. CompatibilityPassed(answers)
    BY <1>3, <2>1 DEF CompatibilityPassed
  <2> QED BY <1>9, <2>2 DEF Passed, answers
<1> QED BY <1>5, <1>6, <1>7, <1>8, <1>9 DEF Checks

LEMMA PassedOrNot ==
  ASSUME NEW r, r.command \in Commands
  PROVE  Passed(r) \in BOOLEAN
<1>1. /\ ReadyPassed(r.answers) \in BOOLEAN /\ DiagnosticsPassed(r.answers) \in BOOLEAN
      /\ PreflightPassed(r.answers) \in BOOLEAN /\ PilotPassed(r.answers) \in BOOLEAN
      /\ CompatibilityPassed(r.answers) \in BOOLEAN
  BY DEF ReadyPassed, DiagnosticsPassed, PreflightPassed, PilotPassed, CompatibilityPassed
<1>2. (DeploymentMissed(r.deployment, r.answers) = {}) \in BOOLEAN /\ (Missed(r) = {}) \in BOOLEAN
  OBVIOUS
<1> QED BY <1>1, <1>2 DEF Passed, Commands

(* A preflight that passes has seen the newest schema, and still does.     *)
LEMMA CompatibleNow ==
  ASSUME ReportsInv, report.at # "none", CompatibilityPassed(report.answers)
  PROVE  deployed = Newest /\ versions = {HeadRevision}
<1>1. report.answers \in Seq(Answers) /\ ReportSound
  BY DEF ReportsInv, ReportTypeOK, Reports
<1>2. Rows(report.answers, "revisions") = {HeadRevision}
  BY DEF CompatibilityPassed
<1>3. PICK a \in To("revisions", report.answers) : HeadRevision \in a.rows
  BY <1>2 DEF Rows
<1>4. a.rows = {HeadRevision}
  BY <1>2, <1>3 DEF Rows
<1>5. AnswerTrue(a) /\ a.question = "revisions"
  BY <1>1, <1>3 DEF To, ToSet, ReportSound
<1>6. versions = {HeadRevision}
  BY <1>4, <1>5 DEF AnswerTrue
<1>7. deployed = Newest
  BY <1>6, Revisions DEF ReportsInv, KnownVersions, ReportTypeOK, NoTable
<1> QED BY <1>6, <1>7

LEMMA AcceptanceBacked ==
  ASSUME report.command = "acceptance", Passed(report), Manual(report) = {},
         NEW kind \in report.profile \cap Evidence
  PROVE  /\ report.organization # Nobody
         /\ histories[report.organization][kind] = "fresh"
<1>1. kind \in DOMAIN Values(report) /\ Missed(report) = {}
  BY DEF Manual, Passed
<1>2. kind \notin {"configuration", "migration", "preflight", "authentication",
                   "support_bundle", "validation"}
  BY DEF Evidence
<1>3. report.organization # Nobody
  BY <1>1, <1>2, FoundOut
<1>4. Values(report)[kind]
  BY <1>1 DEF Missed
<1>5. Values(report)[kind] = Fresh(report, kind)
  BY <1>1, <1>2, FoundOut DEF Values
<1> QED BY <1>3, <1>4, <1>5 DEF Fresh

LEMMA ConcludeKeeps ==
  ASSUME ReportsInv, Conclude
  PROVE  ReportsInv'
<1>1. /\ UNCHANGED <<settings, deployed, versions, histories>>
      /\ report.at = "asking" /\ Len(report.answers) = Len(Questions(report))
      /\ cleared' = IF report.command = "preflight" THEN Passed(report) ELSE cleared
  BY DEF Conclude
<1>2. report \in Reports /\ report.command \in Commands /\ ReportSound /\ Passed(report) \in BOOLEAN
  BY <1>1, PassedOrNot DEF ReportsInv, ReportTypeOK
<1>3. /\ report' \in Reports /\ report'.at = "done" /\ report'.passed = Passed(report)
      /\ report'.command = report.command /\ report'.organization = report.organization
      /\ report'.profile = report.profile /\ report'.validated = report.validated
      /\ report'.answers = report.answers /\ report'.cut = report.cut
      /\ report'.aborted = report.aborted
  <2>1. report' = [report EXCEPT !.at = "done", !.passed = Passed(report)]
    BY DEF Conclude
  <2> QED BY <1>2, <2>1 DEF Reports
<1>4. cleared' => Current
  BY <1>1, CompatibleNow DEF ReportsInv, Passed, PreflightPassed, ValidSettings, Current
<1>5. ReportTypeOK' /\ KnownVersions' /\ (cleared' => Current')
  BY <1>1, <1>2, <1>3, <1>4 DEF ReportsInv, ReportTypeOK, KnownVersions, Current
<1>6. AcceptanceIsBacked'
  <2>1. \A r : r = report' => Manual(r)' = Manual(report)
    BY <1>1, <1>3, SameManual
  <2>2. Manual(report)' = Manual(report)
    BY <2>1
  <2> QED BY <1>1, <1>3, <2>2, AcceptanceBacked DEF AcceptanceIsBacked, Done
<1>7. ReportSound'
  <2>1. \A r : r = report' => Questions(r)' = Questions(report)
    BY <1>1, <1>2, <1>3, SameVerdicts
  <2>2. Questions(report)' = Questions(report)
    BY <2>1
  <2>3. \A a : AnswerTrue(a) => AnswerTrue(a)'
    BY AnswersStay DEF ReportsStep
  <2>4. Passed(report) => VerdictTrue(report.command, report.answers)
    BY DEF Passed, VerdictTrue
  <2>5. \A c, answers : VerdictTrue(c, answers)' <=> VerdictTrue(c, answers)
    BY <1>1, SameVerdicts
  <2>6. cleared' /\ ~report.cut /\ report.command \in Checks => Passed(report)
    BY <1>1, ClearedPasses
  <2> QED BY <1>1, <1>2, <1>3, <2>2, <2>3, <2>4, <2>5, <2>6 DEF ReportSound
<1> QED BY <1>3, <1>5, <1>6, <1>7 DEF ReportsInv

(* A schema with the policies is not empty, and has what diagnostics read. *)
LEMMA EquippedAnswers ==
  ASSUME ReportsInv, Equipped
  PROVE  Answered("queues") /\ Answered("version") /\ versions # {}
<1>1. SchemaAt[0].tables = {}
  BY Revisions DEF SchemaAt
<1>2. deployed \in 0..Newest /\ deployed # 0
  BY <1>1 DEF ReportsInv, ReportTypeOK, Equipped, Asked
<1>3. versions # NoTable /\ versions # {}
  BY <1>2, Revisions DEF ReportsInv, KnownVersions, NoTable
<1>4. Answered("queues")
  BY <1>2, TablesAssumption DEF Equipped, Answered
<1>5. Asked("version") = {}
  BY DEF Asked
<1>6. Answered("version")
  BY <1>3, <1>5 DEF Answered, Columns
<1> QED BY <1>3, <1>4, <1>6

(* What the next question is answered.                                     *)
LEMMA NextAnswer ==
  ASSUME ReportsInv, report.at = "asking", NEW q \in AllQuestions, NEW good \in BOOLEAN,
         good <=> (~report.aborted /\ Answered(q)),
         NEW found \in IF good THEN Shown(q) ELSE {{}}
  PROVE  /\ found \in SUBSET Int
         /\ q = "version" /\ HeadRevision \in found => HeadRevision \in versions
         /\ q = "version" /\ good /\ versions # {} => found # {}
         /\ q = "revisions" /\ found = {HeadRevision} => versions = {HeadRevision}
         /\ q = "policies" /\ good => Equipped
         /\ Current /\ good /\ q \in {"version", "revisions"} => found = {HeadRevision}
<1>1. versions \in SUBSET Int
  BY Revisions DEF ReportsInv, KnownVersions, ReportTypeOK, NoTable
<1>2. CASE q = "revisions"
  BY <1>1, <1>2 DEF Shown, Current
<1>3. CASE q = "version"
  <2>1. CASE good /\ versions # {}
    <3>1. PICK row \in versions : found = {row}
      BY <1>3, <2>1 DEF Shown
    <3> QED BY <1>1, <1>3, <2>1, <3>1 DEF Current
  <2>2. CASE ~(good /\ versions # {})
    <3>1. found = {}
      BY <1>3, <2>2 DEF Shown
    <3>2. ~(Current /\ good)
      BY <2>2 DEF Current
    <3> QED BY <1>3, <2>2, <3>1, <3>2
  <2> QED BY <2>1, <2>2
<1>4. CASE q \notin {"revisions", "version"}
  <2>1. found = {}
    BY <1>4 DEF Shown
  <2>2. q = "policies" /\ good => Equipped
    BY DEF Answered, Equipped
  <2> QED BY <1>4, <2>1, <2>2
<1> QED BY <1>2, <1>3, <1>4

LEMMA AskDatabaseKeeps ==
  ASSUME ReportsInv, AskDatabase
  PROVE  ReportsInv'
<1>a. PICK n : n = Len(report.answers)
  OBVIOUS
<1>b. PICK q : q = Questions(report)[n + 1]
  OBVIOUS
<1>c. PICK good \in BOOLEAN : good <=> (~report.aborted /\ Answered(q))
  <2>1. CASE ~report.aborted /\ Answered(q)
    BY <2>1
  <2>2. CASE ~(~report.aborted /\ Answered(q))
    BY <2>2
  <2> QED BY <2>1, <2>2
<1>1. /\ UNCHANGED <<settings, deployed, versions, histories, cleared>>
      /\ report.at = "asking" /\ n < Len(Questions(report))
  BY <1>a DEF AskDatabase
<1>2. /\ report \in Reports /\ report.command \in Commands /\ ReportSound
      /\ report.answers \in Seq(Answers) /\ n \in Nat
  BY <1>1, <1>a DEF ReportsInv, ReportTypeOK, Reports
<1>3. q \in AllQuestions
  BY <1>1, <1>2, <1>b, QuestionsAreKnown, ElementOfSeq
<1>4. Current /\ ~report.aborted => good
  BY <1>3, <1>c, NewestAnswers
<1>5. \A r : r = report' => Questions(r)' = Questions(report) \/ r.command # report.command
                            \/ r.organization # report.organization
  BY <1>1, <1>2, SameVerdicts
<1>6. CASE ~good /\ q \in Unguarded
  <2>1. report' = [report EXCEPT !.at = "failed"]
    BY <1>6, <1>a, <1>b, <1>c DEF AskDatabase, NextQuestion
  <2>2. /\ report' \in Reports /\ report'.at = "failed"
        /\ report'.command = report.command /\ report'.organization = report.organization
        /\ report'.answers = report.answers /\ report'.passed = report.passed
        /\ report'.aborted = report.aborted /\ report'.cut = report.cut
    BY <1>2, <2>1 DEF Reports
  <2>3. ReportTypeOK' /\ KnownVersions' /\ (cleared' => Current')
    BY <1>1, <1>2, <2>2 DEF ReportsInv, ReportTypeOK, KnownVersions, Current
  <2>4. AcceptanceIsBacked'
    BY <2>2 DEF AcceptanceIsBacked, Done
  <2>5. Questions(report)' = Questions(report)
    BY <1>5, <2>2
  <2>6. \A a : AnswerTrue(a) => AnswerTrue(a)'
    BY AnswersStay DEF ReportsStep
  <2>7. cleared => report.cut
    BY <1>1, <1>2, <1>4, <1>6 DEF ReportsInv, ReportSound
  <2>8. report.passed = FALSE
    BY <1>1, <1>2 DEF ReportSound, Reports
  <2>9. ReportSound'
    BY <1>1, <1>2, <2>2, <2>5, <2>6, <2>7, <2>8 DEF ReportSound
  <2> QED BY <2>2, <2>3, <2>4, <2>9 DEF ReportsInv
<1>7. CASE ~(~good /\ q \in Unguarded)
  <2>1. PICK found \in (IF good THEN Shown(q) ELSE {{}}) :
          report' = [report EXCEPT
                !.answers = Append(@, [question |-> q, good |-> good, rows |-> found]),
                !.aborted = ~good]
    BY <1>7, <1>a, <1>b, <1>c DEF AskDatabase, NextQuestion
  <2>2. PICK a : a = [question |-> q, good |-> good, rows |-> found]
    OBVIOUS
  <2>3. /\ found \in SUBSET Int
        /\ q = "version" /\ HeadRevision \in found => HeadRevision \in versions
        /\ q = "version" /\ good /\ versions # {} => found # {}
        /\ q = "revisions" /\ found = {HeadRevision} => versions = {HeadRevision}
        /\ q = "policies" /\ good => Equipped
        /\ Current /\ good /\ q \in {"version", "revisions"} => found = {HeadRevision}
    BY <1>1, <1>3, <1>c, NextAnswer
  <2>4. a \in Answers /\ a.question = q /\ a.good = good /\ a.rows = found
    BY <1>3, <1>c, <2>2, <2>3 DEF Answers
  <2>5. PICK answers : answers = Append(report.answers, a)
    OBVIOUS
  <2>6. /\ answers \in Seq(Answers) /\ Len(answers) = n + 1 /\ answers[n + 1] = a
        /\ \A i \in 1..n : answers[i] = report.answers[i]
    BY <1>2, <1>a, <2>4, <2>5, AppendProperties
  <2>7. PICK aborted \in BOOLEAN : aborted <=> ~good
    <3>1. CASE good
      BY <3>1
    <3>2. CASE ~good
      BY <3>2
    <3> QED BY <3>1, <3>2
  <2>8. report' = [report EXCEPT !.answers = answers, !.aborted = aborted]
    BY <1>c, <2>1, <2>2, <2>5, <2>7
  <2>9. /\ report' \in Reports /\ report'.at = "asking"
        /\ report'.command = report.command /\ report'.organization = report.organization
        /\ report'.answers = answers /\ report'.passed = report.passed
        /\ report'.aborted = aborted /\ report'.cut = report.cut
    BY <1>1, <1>2, <2>6, <2>8 DEF Reports
  <2>10. ReportTypeOK' /\ KnownVersions' /\ (cleared' => Current')
    BY <1>1, <1>2, <2>9 DEF ReportsInv, ReportTypeOK, KnownVersions, Current
  <2>11. AcceptanceIsBacked'
    BY <2>9 DEF AcceptanceIsBacked, Done
  <2>12. Questions(report)' = Questions(report)
    BY <1>5, <2>9
  <2>13. report.passed = FALSE
    BY <1>1, <1>2 DEF ReportSound, Reports
  <2>14. ASSUME NEW i \in 1..Len(answers)
         PROVE  answers[i].question = Questions(report)[i] /\ AnswerTrue(answers[i])
    <3>1. CASE i = n + 1
      BY <1>b, <2>3, <2>4, <2>6, <3>1 DEF AnswerTrue
    <3>2. CASE i \in 1..n
      BY <1>2, <1>a, <2>6, <3>2 DEF ReportSound
    <3> QED BY <1>2, <2>6, <3>1, <3>2
  <2>15. \A k : AnswerTrue(k) => AnswerTrue(k)'
    BY AnswersStay DEF ReportsStep
  <2>16. ~report.cut => FailuresShow(answers) /\ (aborted => AbortShows(answers))
    <3> SUFFICES ASSUME ~report.cut
                 PROVE  FailuresShow(answers) /\ (aborted => AbortShows(answers))
      OBVIOUS
    <3>1. aborted => AbortShows(answers)
      BY <1>2, <2>4, <2>6, <2>7 DEF AbortShows
    <3>2. ASSUME NEW i \in 1..n, GoodBefore(answers, i), PoliciesBefore(answers, i)
          PROVE  /\ answers[i].question = "queues" => answers[i].good
                 /\ answers[i].question = "version" => answers[i].rows # {}
      <4>1. GoodBefore(report.answers, i) /\ PoliciesBefore(report.answers, i)
        BY <1>2, <2>6, <3>2 DEF GoodBefore, PoliciesBefore
      <4>2. FailuresShow(report.answers)
        BY <1>2 DEF ReportSound
      <4> QED BY <1>a, <2>6, <4>1, <4>2 DEF FailuresShow
    <3>3. ASSUME GoodBefore(answers, n + 1), PoliciesBefore(answers, n + 1)
          PROVE  (q = "queues" => good) /\ (q = "version" => found # {})
      <4>1. \A j \in 1..n : answers[j].good
        BY <1>2, <3>3 DEF GoodBefore
      <4>2. ~report.aborted
        BY <1>2, <1>a, <2>6, <4>1 DEF ReportSound, AbortShows
      <4>3. PICK j \in 1..n : answers[j].question = "policies"
        BY <1>2, <3>3 DEF PoliciesBefore
      <4>4. AnswerTrue(answers[j]) /\ answers[j].good
        BY <1>2, <1>a, <2>6, <4>1, <4>3 DEF ReportSound
      <4>5. Equipped
        BY <4>3, <4>4 DEF AnswerTrue
      <4>6. Answered("queues") /\ Answered("version") /\ versions # {}
        BY <4>5, EquippedAnswers
      <4> QED BY <1>c, <2>3, <4>2, <4>6
    <3>4. FailuresShow(answers)
      <4> SUFFICES ASSUME NEW i \in 1..Len(answers),
                          GoodBefore(answers, i), PoliciesBefore(answers, i)
                   PROVE  /\ answers[i].question = "queues" => answers[i].good
                          /\ answers[i].question = "version" => answers[i].rows # {}
        BY DEF FailuresShow
      <4>1. CASE i \in 1..n
        BY <3>2, <4>1
      <4>2. CASE i = n + 1
        BY <2>4, <2>6, <3>3, <4>2
      <4> QED BY <1>2, <2>6, <4>1, <4>2
    <3> QED BY <3>1, <3>4
  <2>17. cleared /\ ~report.cut => ~aborted /\ AllGood(answers)
    <3> SUFFICES ASSUME cleared, ~report.cut PROVE ~aborted /\ AllGood(answers)
      OBVIOUS
    <3>1. Current /\ ~report.aborted /\ AllGood(report.answers)
      BY <1>1, <1>2 DEF ReportsInv, ReportSound
    <3>2. good
      BY <1>4, <3>1
    <3>3. ASSUME NEW i \in 1..Len(answers)
          PROVE  /\ answers[i].good
                 /\ answers[i].question \in {"version", "revisions"} =>
                      answers[i].rows = {HeadRevision}
      <4>1. CASE i = n + 1
        BY <2>3, <2>4, <2>6, <3>1, <3>2, <4>1
      <4>2. CASE i \in 1..n
        BY <1>a, <2>6, <3>1, <4>2 DEF AllGood
      <4> QED BY <1>2, <2>6, <4>1, <4>2
    <3> QED BY <2>7, <3>2, <3>3 DEF AllGood
  <2>18. ReportSound'
    <3>1. ~report'.cut => /\ FailuresShow(report.answers)'
                          /\ report'.aborted => AbortShows(report.answers)'
      BY <2>9, <2>16 DEF FailuresShow, AbortShows, GoodBefore, PoliciesBefore
    <3>2. cleared' /\ ~report'.cut => ~report'.aborted /\ AllGood(report.answers)'
      BY <1>1, <2>9, <2>17 DEF AllGood
    <3>3. Len(report'.answers) <= Len(Questions(report)')
      BY <1>1, <1>2, <2>6, <2>9, <2>12, QuestionsAreKnown, LenProperties
    <3>4. \A i \in 1..Len(report'.answers) :
            /\ report'.answers[i].question = Questions(report)'[i]
            /\ AnswerTrue(report.answers[i])'
      <4> SUFFICES ASSUME NEW i \in 1..Len(answers)
                   PROVE  /\ answers[i].question = Questions(report)'[i]
                          /\ AnswerTrue(report.answers[i])'
        BY <2>9
      <4>1. answers[i].question = Questions(report)'[i]
        BY <2>12, <2>14
      <4>2. \A k : k = report'.answers[i] => AnswerTrue(k)'
        BY <2>9, <2>14, <2>15
      <4> QED BY <4>1, <4>2
    <3>5. report'.passed = FALSE
      BY <2>9, <2>13
    <3> QED BY <2>9, <3>1, <3>2, <3>3, <3>4, <3>5 DEF ReportSound
  <2> QED BY <2>9, <2>10, <2>11, <2>18 DEF ReportsInv
<1> QED BY <1>6, <1>7

LEMMA ReportsInvKeeps ==
  ASSUME ReportsInv, [ReportsStep]_reportVars
  PROVE  ReportsInv'
<1>1. CASE BeginCheck
  <2>1. PICK c \in Checks : Begin(c, Nobody, {}, FALSE, {})
    BY <1>1 DEF BeginCheck, Checks
  <2> QED BY <2>1, BeginKeeps DEF Checks, Commands
<1>2. CASE BeginCandidate
  BY <1>2, BeginKeeps DEF BeginCandidate, Commands
<1>3. CASE BeginAcceptance
  BY <1>3, BeginKeeps DEF BeginAcceptance, Commands
<1>4. CASE UNCHANGED reportVars
  <2>1. UNCHANGED <<settings, deployed, versions, histories, report, cleared>>
    BY <1>4 DEF reportVars
  <2>2. ReportTypeOK' /\ KnownVersions' /\ (cleared' => Current')
    BY <2>1 DEF ReportsInv, ReportTypeOK, KnownVersions, Current
  <2>3. Manual(report)' = Manual(report)
    <3>1. \A r : r = report' => Manual(r)' = Manual(report)
      BY <2>1, SameManual
    <3> QED BY <3>1
  <2>4. AcceptanceIsBacked'
    BY <2>1, <2>3 DEF ReportsInv, AcceptanceIsBacked, Done
  <2>5. ASSUME ReportSound, report.at # "none" PROVE ReportSound'
    <3>1. Questions(report)' = Questions(report)
      BY <2>1, <2>5, SameVerdicts DEF ReportsInv, ReportTypeOK
    <3>2. \A c, answers : VerdictTrue(c, answers)' <=> VerdictTrue(c, answers)
      BY <2>1, SameVerdicts
    <3>3. \A a : AnswerTrue(a) => AnswerTrue(a)'
      BY AnswersStay
    <3> QED BY <2>1, <2>5, <3>1, <3>2, <3>3 DEF ReportSound, FailuresShow, AbortShows, AllGood
  <2> QED BY <2>1, <2>2, <2>4, <2>5 DEF ReportsInv
<1> QED BY <1>1, <1>2, <1>3, <1>4, AskDatabaseKeeps, LoseConnectionKeeps, ConcludeKeeps,
           UpgradeKeeps DEF ReportsStep

LEMMA ReportsInvHolds == ReportsSpec => []ReportsInv
<1>1. ReportsInv /\ [ReportsStep]_reportVars => ReportsInv'
  BY ReportsInvKeeps
<1> QED BY ReportsInvStart, <1>1, PTL DEF ReportsSpec

(* Diagnostics that pass have read the version, unless the connection was  *)
(* lost: what the schema must have for them to pass is enough for that.    *)
LEMMA DiagnosticsRead ==
  ASSUME ReportsInv, report.at = "done", report.command = "diagnostics", ~report.cut,
         DiagnosticsPassed(report.answers)
  PROVE  Rows(report.answers, "version") # {}
<1> DEFINE answers == report.answers
<1>1. settings = {}
  BY DEF DiagnosticsPassed, ValidSettings
<1>2. /\ answers \in Seq(Answers) /\ FailuresShow(answers) /\ Len(answers) = 5
      /\ \A i \in 1..5 : answers[i].question = Diagnostics[i]
  <2>1. Questions(report) = Diagnostics
    BY <1>1 DEF Questions
  <2>2. ReportSound /\ answers \in Seq(Answers)
    BY DEF ReportsInv, ReportTypeOK, Reports
  <2>3. Len(answers) = 5 /\ FailuresShow(answers)
    BY <2>1, <2>2, QuestionLists DEF ReportSound
  <2>4. \A i \in 1..5 : answers[i].question = Diagnostics[i]
    BY <2>1, <2>2, <2>3 DEF ReportSound
  <2> QED BY <2>2, <2>3, <2>4
<1>3. ReadyPassed(answers)
  <2>1. answers # <<>>
    BY <1>2
  <2> QED BY <2>1 DEF DiagnosticsPassed
<1> HIDE DEF answers
<1>4. \A i \in 1..3 : answers[i].good
  <2>1. ASSUME NEW i \in 1..3 PROVE answers[i].good
    <3>1. PICK a \in To(Ready[i], answers) : a.good
      BY <1>3, QuestionLists DEF ReadyPassed, Good
    <3>2. PICK j \in 1..5 : a = answers[j]
      BY <1>2, <3>1 DEF To, ToSet
    <3>3. Diagnostics[j] = Ready[i]
      BY <1>2, <3>1, <3>2 DEF To
    <3>4. j = i
      BY <3>3, QuestionLists
    <3> QED BY <3>1, <3>2, <3>4
  <2> QED BY <2>1
<1>5. answers[2].question = "policies" /\ answers[4].question = "queues"
      /\ answers[5].question = "version"
  BY <1>2, QuestionLists
<1>6. answers[4].good
  <2>1. GoodBefore(answers, 4) /\ PoliciesBefore(answers, 4)
    BY <1>4, <1>5 DEF GoodBefore, PoliciesBefore
  <2> QED BY <1>2, <1>5, <2>1 DEF FailuresShow
<1>7. answers[5].rows # {}
  <2>1. GoodBefore(answers, 5) /\ PoliciesBefore(answers, 5)
    BY <1>4, <1>5, <1>6 DEF GoodBefore, PoliciesBefore
  <2> QED BY <1>2, <1>5, <2>1 DEF FailuresShow
<1>8. answers[5] \in To("version", answers)
  BY <1>2, <1>5 DEF To, ToSet
<1> QED BY <1>7, <1>8 DEF Rows, answers

(* The version that a report has read is still there.                      *)
LEMMA VersionStands ==
  ASSUME ReportsInv, report.at = "done", Rows(report.answers, "version") = {HeadRevision}
  PROVE  HeadRevision \in versions
<1>1. report.answers \in Seq(Answers) /\ ReportSound
  BY DEF ReportsInv, ReportTypeOK, Reports
<1>2. PICK a \in To("version", report.answers) : HeadRevision \in a.rows
  BY DEF Rows
<1> QED BY <1>1, <1>2 DEF To, ToSet, ReportSound, AnswerTrue

LEMMA ReportsInvSuffices == ReportsInv => ReportsAgree
<1> SUFFICES ASSUME ReportsInv PROVE ReportsAgree
  OBVIOUS
<1>1. ClearedDeploymentsPass
  BY DEF ReportsInv, ReportSound, ClearedDeploymentsPass, Done, Checks
<1>2. PassesAreTrue
  <2> SUFFICES ASSUME report.passed PROVE PassesAreTrue
    BY DEF PassesAreTrue
  <2>1. /\ ReportSound /\ report.at = "done" /\ report.command \in Commands
        /\ VerdictTrue(report.command, report.answers) /\ report.answers \in Seq(Answers)
    BY DEF ReportsInv, ReportTypeOK, ReportSound, Reports
  <2>2. CASE report.command = "ready"
    <3>1. ReadyPassed(report.answers)
      BY <2>1, <2>2 DEF VerdictTrue
    <3>2. Good(report.answers, "answer") /\ "no_storage" \notin settings
      BY <3>1 DEF ReadyPassed
    <3>3. Len(report.answers) # 0
      BY <2>1, <3>2 DEF Good, To, ToSet
    <3>4. "no_database" \notin settings
      <4>1. "no_database" \in settings => Questions(report) = <<>>
        BY DEF Questions
      <4>2. Len(<<>>) = 0
        OBVIOUS
      <4> QED BY <2>1, <3>3, <4>1, <4>2 DEF ReportSound
    <3> QED BY <2>2, <3>2, <3>4 DEF PassesAreTrue, Done
  <2>3. CASE report.command = "diagnostics"
    <3>1. DiagnosticsPassed(report.answers)
      BY <2>1, <2>3 DEF VerdictTrue
    <3>2. settings = {} /\ Rows(report.answers, "version") \in {{}, {HeadRevision}}
      BY <3>1 DEF DiagnosticsPassed, ValidSettings
    <3>3. HeadRevision \in versions \/ report.cut
      BY <2>1, <2>3, <3>1, <3>2, DiagnosticsRead, VersionStands
    <3> QED BY <2>3, <3>2, <3>3 DEF PassesAreTrue, Done
  <2>4. CASE report.command = "preflight"
    <3>1. settings = {} /\ CompatibilityPassed(report.answers)
      BY <2>1, <2>4 DEF VerdictTrue, PreflightPassed, ValidSettings
    <3>2. deployed = Newest /\ versions = {HeadRevision}
      BY <2>1, <3>1, CompatibleNow
    <3> QED BY <2>4, <3>1, <3>2 DEF PassesAreTrue, Done
  <2>5. CASE report.command = "pilot"
    <3>1. settings = {} /\ Rows(report.answers, "version") = {HeadRevision}
      BY <2>1, <2>5 DEF VerdictTrue, PilotPassed, ValidSettings
    <3>2. HeadRevision \in versions
      BY <2>1, <3>1, VersionStands
    <3> QED BY <2>5, <3>1, <3>2 DEF PassesAreTrue, Done
  <2>6. CASE report.command = "compatibility"
    <3>1. deployed = Newest /\ versions = {HeadRevision}
      BY <2>1, <2>6, CompatibleNow DEF VerdictTrue
    <3> QED BY <2>6, <3>1 DEF PassesAreTrue, Done
  <2>7. CASE report.command \in {"candidate", "acceptance"}
    BY <2>7 DEF PassesAreTrue, Done
  <2> QED BY <2>1, <2>2, <2>3, <2>4, <2>5, <2>6, <2>7 DEF Commands
<1> QED BY <1>1, <1>2 DEF ReportsInv, ReportsAgree

(* What the reports on a deployment say of it agrees and stays true.       *)
THEOREM ReportsAlwaysAgree == ReportsSpec => []ReportsAgree
  BY ReportsInvHolds, ReportsInvSuffices, PTL

==============================================================================
