---------------------------- MODULE IndexProofs ----------------------------
(***************************************************************************)
(* Proofs of the safety properties of uploads and indexing, for every set  *)
(* of clients and directory runs, every versions and ways to split them,   *)
(* and every number of failures, crashes and cancellations.                *)
(***************************************************************************)
EXTENDS IndexPublish, TLAPS

-----------------------------------------------------------------------------
(* The inductive invariant *)

\* Where a thread holds the source lock; where it has read a version it may yet publish;
\* where the source it works on is marked; where the vectors are still the old ones.
Section == {"mark", "load", "add", "replace", "clean", "clear", "drop_vectors",
            "drop_lexical", "compensate", "rollback"}
Loaded == {"add", "replace", "clean", "clear", "drop_vectors", "drop_lexical"}
Marked == Loaded \cup {"load", "compensate"}
Untouched == {"mark", "load", "add", "drop_vectors", "rollback"}

TypesFit ==
    /\ file \in Versions \cup {None} /\ ready \in Versions \cup {None}
    /\ orphans \subseteq Versions
    /\ lexical \subseteq AllChunks /\ vectors \subseteq AllChunks /\ late \subseteq AllChunks
    /\ stale \in BOOLEAN /\ uncertain \in BOOLEAN
    /\ uploadLock \in Uploads \cup {None} /\ sourceLock \in Actors \cup {None}
    /\ upload \in [Uploads -> Upload]
    /\ thread \in [Actors -> Thread]
    /\ faults \in 0..MaxTroubles /\ cancels \in 0..MaxTroubles

LocksFit ==
    /\ \A u \in Uploads : uploadLock = u <=> upload[u].pc # "idle"
    /\ \A a \in Actors : sourceLock = a <=> thread[a].pc \in Section

\* What thread t, at its step, knows of the indexes.
ThreadFits(t, lex, vec, mark, doubt, n) ==
    /\ t.pc = "late_mark" => n > 0
    /\ t.pc \in Section /\ n = 0 => ~t.wasStale
    /\ t.pc \in Marked => mark
    /\ t.pc \in Untouched /\ ~doubt /\ ~t.wasStale => vec = t.old
    /\ t.pc \in {"replace", "clean"} => t.docs \subseteq vec
    /\ t.pc \in {"clean", "clear"} => lex = t.docs
    /\ t.pc = "clear" /\ ~doubt => vec = t.docs
    /\ t.pc \in {"drop_vectors", "drop_lexical"} => t.docs = {}
    /\ t.pc = "drop_lexical" /\ ~doubt => vec = {}

ThreadsFit ==
    \A a \in Actors : ThreadFits(thread[a], lexical, vectors, stale, uncertain, faults)

\* What upload request r, with thread t, has done to the file f.
UploadFits(r, t, f) ==
    /\ r.pc = "idle" => r.backup = None
    /\ r.pc # "idle" => r.version \in Versions
    /\ r.pc = "backup" => r.backup = None /\ f # None
    /\ r.pc = "save" => f = None
    /\ r.pc \in {"index", "ready"} => f = r.version
    /\ r.pc = "ready" => r.backup = None
    /\ r.pc \in {"backup", "save"} => t.pc = "none"
    /\ r.pc = "index" /\ t.pc \in Loaded => t.docs = Chunks[r.version]

UploadsFit == \A u \in Uploads : UploadFits(upload[u], thread[u], file)

\* The upload is indexed, and not answered yet.
Published(r, t) == r.pc = "ready" \/ (r.pc = "index" /\ t.pc = "success")

\* From then on whatever a thread may publish, or restore, is the version c of the upload.
Keeps(t, c) == t.pc \in Section => t.old = c /\ (t.pc \in Loaded => t.docs = c)

PublishedFit ==
    \A u \in Uploads : Published(upload[u], thread[u]) =>
        /\ lexical = Chunks[upload[u].version]
        /\ \A a \in Actors : Keeps(thread[a], Chunks[upload[u].version])

\* While a new version is indexed, the one answered last is not only at file_path.
Safe(r, f, o, up) ==
    \/ r = None
    \/ r \in o
    \/ \E u \in Uploads : up[u].backup = r
    \/ f = r /\ \A u \in Uploads : up[u].pc # "index"

IndexInv ==
    /\ TypesFit /\ LocksFit /\ ThreadsFit /\ UploadsFit /\ PublishedFit
    /\ Safe(ready, file, orphans, upload)
    /\ IndexesAgree /\ StaleOnlyWhileIndexed

-----------------------------------------------------------------------------
(* Types *)

LEMMA ConstantTypes ==
    /\ MaxTroubles \in Nat
    /\ None \notin Versions /\ None \notin Uploads /\ None \notin Actors
    /\ Uploads \subseteq Actors /\ Directories \subseteq Actors
    /\ Uploads \cap Directories = {}
BY IndexAssumption DEF Actors

LEMMA ChunksType == \A v \in Versions : Chunks[v] \subseteq AllChunks
BY DEF AllChunks

\* The lock invariant in the words of the type invariant.
LEMMA SectionIs ==
    ASSUME NEW t \in Thread
    PROVE  t.pc \in Section <=> t.pc \notin {"none", "enter", "lock", "late_mark"} \cup Outcomes
BY DEF Thread, Section, Outcomes

LEMMA NoThreadShape ==
    /\ NoThread \in Thread /\ NoThread.pc = "none"
    /\ \A o \in Outcomes : /\ [NoThread EXCEPT !.pc = o] \in Thread
                           /\ [NoThread EXCEPT !.pc = o].pc = o
BY DEF NoThread, Thread, Outcomes

LEMMA ThreadShape ==
    ASSUME IndexInv, NEW t \in Actors
    PROVE  /\ thread[t] \in Thread /\ thread[t].docs \subseteq AllChunks
           /\ thread[t].old \subseteq AllChunks /\ thread[t].wasStale \in BOOLEAN
           /\ ThreadFits(thread[t], lexical, vectors, stale, uncertain, faults)
           /\ sourceLock = t <=> thread[t].pc \in Section
BY DEF IndexInv, TypesFit, LocksFit, ThreadsFit, Thread

LEMMA GotoShape ==
    ASSUME NEW t \in Thread,
           NEW pc \in Section \cup {"none", "enter", "lock", "late_mark"} \cup Outcomes
    PROVE  /\ [t EXCEPT !.pc = pc] \in Thread
           /\ [t EXCEPT !.pc = pc].pc = pc /\ [t EXCEPT !.pc = pc].docs = t.docs
           /\ [t EXCEPT !.pc = pc].old = t.old /\ [t EXCEPT !.pc = pc].wasStale = t.wasStale
BY DEF Thread, Section, Outcomes

LEMMA EndThreadShape ==
    ASSUME NEW t, NEW o \in Outcomes, EndThread(t, o)
    PROVE  \E n \in Thread :
              /\ thread' = [thread EXCEPT ![t] = n] /\ n.pc \in {"none", o}
              /\ n.pc = o => t \in Uploads /\ upload[t].pc = "index"
<1> DEFINE n == IF t \in Uploads /\ upload[t].pc = "index"
                  THEN [NoThread EXCEPT !.pc = o] ELSE NoThread
<1>1. thread' = [thread EXCEPT ![t] = n]
  BY DEF EndThread
<1>2. n \in Thread /\ n.pc \in {"none", o}
  BY NoThreadShape
<1>3. n.pc = o => t \in Uploads /\ upload[t].pc = "index"
  BY NoThreadShape DEF Outcomes
<1> HIDE DEF n
<1>4. QED
  BY <1>1, <1>2, <1>3

\* Outside the source section a thread knows nothing.
LEMMA OutFits ==
    ASSUME NEW n, n.pc \notin Section, NEW lex, NEW vec, NEW mark, NEW doubt, NEW k,
           n.pc = "late_mark" => k > 0
    PROVE  ThreadFits(n, lex, vec, mark, doubt, k)
BY DEF ThreadFits, Section, Marked, Loaded, Untouched

LEMMA FaultSteps ==
    ASSUME IndexInv, NoFault \/ Fault
    PROVE  faults' \in 0..MaxTroubles /\ faults' >= faults /\ (Fault => faults' > 0)
BY ConstantTypes DEF IndexInv, TypesFit, Fault, NoFault

-----------------------------------------------------------------------------
(* Steps of the indexing threads *)

\* The types and the files when thread t goes to n.
LEMMA ThreadTypes ==
    ASSUME IndexInv, NEW t \in Actors, NEW n \in Thread, thread' = [thread EXCEPT ![t] = n],
           UNCHANGED fileVars,
           lexical' \subseteq AllChunks, vectors' \subseteq AllChunks, late' \subseteq AllChunks,
           stale' \in BOOLEAN, uncertain' \in BOOLEAN,
           faults' \in 0..MaxTroubles, sourceLock' \in {sourceLock, t, None}
    PROVE  /\ TypesFit' /\ Safe(ready, file, orphans, upload)'
           /\ thread'[t] = n /\ \A a \in Actors : a # t => thread'[a] = thread[a]
<1>1. thread \in [Actors -> Thread]
  BY DEF IndexInv, TypesFit
<1>2. /\ thread' \in [Actors -> Thread] /\ thread'[t] = n
      /\ \A a \in Actors : a # t => thread'[a] = thread[a]
  BY <1>1
<1>3. TypesFit'
  BY <1>2 DEF IndexInv, TypesFit, fileVars
<1>4. Safe(ready, file, orphans, upload)'
  BY DEF IndexInv, Safe, fileVars
<1>5. QED
  BY <1>2, <1>3, <1>4

\* How thread t takes, keeps, leaves or leaves alone the source lock.
LockMoves(t, n) ==
    \/ n.pc \in Section /\ sourceLock \in {t, None} /\ sourceLock' = t
    \/ n.pc \notin Section /\ sourceLock = t /\ sourceLock' = None
    \/ n.pc \notin Section /\ sourceLock # t /\ sourceLock' = sourceLock

LEMMA ThreadStep ==
    ASSUME IndexInv, NEW t \in Actors, NEW n \in Thread, thread' = [thread EXCEPT ![t] = n],
           UNCHANGED fileVars,
           lexical' \subseteq AllChunks, vectors' \subseteq AllChunks, late' \subseteq AllChunks,
           stale' \in BOOLEAN, uncertain' \in BOOLEAN,
           faults' \in 0..MaxTroubles, faults' >= faults,
           thread[t].pc # "none" \/ t \in Directories,
           LockMoves(t, n),
           ThreadFits(n, lexical', vectors', stale', uncertain', faults'),
           \/ sourceLock = t
           \/ UNCHANGED <<lexical, vectors, uncertain>> /\ (stale => stale'),
           \A u \in Uploads : Published(upload[u], thread[u]) =>
               lexical' = Chunks[upload[u].version] /\ Keeps(n, Chunks[upload[u].version]),
           t \in Uploads /\ upload[t].pc = "index" /\ n.pc = "success" =>
               \/ thread[t].pc = "success"
               \/ sourceLock = t /\ lexical' = Chunks[upload[t].version],
           t \in Uploads /\ upload[t].pc = "index" /\ n.pc \in Loaded =>
               n.docs = Chunks[upload[t].version],
           IndexesAgree', StaleOnlyWhileIndexed'
    PROVE  IndexInv'
<1>1. /\ thread'[t] = n /\ \A a \in Actors : a # t => thread'[a] = thread[a]
      /\ upload' = upload /\ file' = file /\ uploadLock' = uploadLock
  BY ThreadTypes DEF LockMoves, fileVars
<1>2. TypesFit' /\ Safe(ready, file, orphans, upload)'
  BY ThreadTypes DEF LockMoves
<1>3. \A a \in Actors : sourceLock = a <=> thread[a].pc \in Section
  BY DEF IndexInv, LocksFit
<1>4. LocksFit'
  <2>1. ASSUME NEW a \in Actors PROVE sourceLock' = a <=> thread'[a].pc \in Section
    <3>1. CASE a = t
      BY <1>1, <3>1, ConstantTypes DEF LockMoves
    <3>2. CASE a # t
      BY <1>1, <1>3, <3>2, ConstantTypes DEF LockMoves
    <3>3. QED
      BY <3>1, <3>2
  <2>2. \A u \in Uploads : uploadLock' = u <=> upload'[u].pc # "idle"
    BY <1>1 DEF IndexInv, LocksFit
  <2>3. QED
    BY <2>1, <2>2 DEF LocksFit
<1>5. ThreadsFit'
  <2>1. ASSUME NEW a \in Actors
        PROVE  ThreadFits(thread'[a], lexical', vectors', stale', uncertain', faults')
    <3>1. CASE a = t
      BY <1>1, <3>1
    <3>2. CASE a # t /\ sourceLock = t
      <4>1. thread'[a] = thread[a] /\ thread[a].pc \notin Section
        BY <1>1, <1>3, <3>2
      <4>2. thread[a].pc = "late_mark" => faults' > 0
        BY ConstantTypes DEF IndexInv, ThreadsFit, ThreadFits, TypesFit
      <4>3. QED
        BY <4>1, <4>2, OutFits
    <3>3. CASE a # t /\ sourceLock # t
      <4>1. thread'[a] = thread[a] /\ ThreadFits(thread[a], lexical, vectors, stale,
                                                 uncertain, faults)
        BY <1>1, <3>3 DEF IndexInv, ThreadsFit
      <4>2. /\ UNCHANGED <<lexical, vectors, uncertain>> /\ (stale => stale')
            /\ faults > 0 => faults' > 0
            /\ faults' = 0 => faults = 0
        BY <3>3, ConstantTypes DEF IndexInv, TypesFit
      <4>3. QED
        BY <4>1, <4>2 DEF ThreadFits
    <3>4. QED
      BY <3>1, <3>2, <3>3
  <2>2. QED
    BY <2>1 DEF ThreadsFit
<1>6. UploadsFit'
  <2>1. ASSUME NEW u \in Uploads PROVE UploadFits(upload[u], thread'[u], file)
    <3>1. UploadFits(upload[u], thread[u], file)
      BY DEF IndexInv, UploadsFit
    <3>2. CASE u = t
      <4>1. thread[t].pc # "none"
        BY <3>2, ConstantTypes
      <4>2. QED
        BY <1>1, <3>1, <3>2, <4>1 DEF UploadFits
    <3>3. CASE u # t
      BY <1>1, <3>1, <3>3, ConstantTypes
    <3>4. QED
      BY <3>2, <3>3
  <2>2. QED
    BY <1>1, <2>1 DEF UploadsFit
<1>7. PublishedFit'
  <2>1. ASSUME NEW u \in Uploads, Published(upload[u], thread'[u])
        PROVE  /\ lexical' = Chunks[upload[u].version]
               /\ \A a \in Actors : Keeps(thread'[a], Chunks[upload[u].version])
    <3>1. CASE Published(upload[u], thread[u])
      <4>1. \A a \in Actors : Keeps(thread[a], Chunks[upload[u].version])
        BY <3>1 DEF IndexInv, PublishedFit
      <4>2. QED
        BY <1>1, <3>1, <4>1
    <3>2. CASE ~Published(upload[u], thread[u])
      <4>1. u = t /\ upload[t].pc = "index" /\ n.pc = "success" /\ thread[t].pc # "success"
        BY <1>1, <2>1, <3>2, ConstantTypes DEF Published
      <4>2. sourceLock = t /\ lexical' = Chunks[upload[t].version]
        BY <4>1
      <4>3. \A a \in Actors : thread'[a].pc \notin Section
        BY <1>1, <1>3, <4>1, <4>2 DEF Section
      <4>4. QED
        BY <4>1, <4>2, <4>3 DEF Keeps
    <3>3. QED
      BY <3>1, <3>2
  <2>2. QED
    BY <1>1, <2>1 DEF PublishedFit
<1>8. QED
  BY <1>2, <1>4, <1>5, <1>6, <1>7 DEF IndexInv

\* Thread t goes on inside its section; what it publishes is what it read.
LEMMA SectionStep ==
    ASSUME IndexInv, NEW t \in Actors, thread[t].pc \in Section,
           NEW pc \in Section, Goto(t, pc),
           UNCHANGED fileVars, UNCHANGED sourceLock,
           lexical' = lexical \/ (thread[t].pc \in Loaded /\ lexical' = thread[t].docs),
           vectors' \subseteq AllChunks, late' \subseteq AllChunks,
           stale' \in BOOLEAN, uncertain' \in BOOLEAN,
           NoFault \/ Fault,
           pc \in Loaded => thread[t].pc \in Loaded,
           ThreadFits([thread[t] EXCEPT !.pc = pc], lexical', vectors', stale',
                      uncertain', faults'),
           IndexesAgree'
    PROVE  IndexInv'
<1> DEFINE n == [thread[t] EXCEPT !.pc = pc]
<1>1. /\ thread[t] \in Thread /\ thread[t].docs \subseteq AllChunks /\ sourceLock = t
  BY ThreadShape
<1>2. n \in Thread /\ n.pc = pc /\ n.docs = thread[t].docs /\ n.old = thread[t].old
  BY <1>1, GotoShape
<1>3. thread' = [thread EXCEPT ![t] = n]
  BY DEF Goto, IndexInv, TypesFit
<1>4. ThreadFits(n, lexical', vectors', stale', uncertain', faults')
  OBVIOUS
<1> HIDE DEF n
<1>5. faults' \in 0..MaxTroubles /\ faults' >= faults
  BY FaultSteps
<1>6. lexical' \subseteq AllChunks
  BY <1>1 DEF IndexInv, TypesFit
<1>7. LockMoves(t, n)
  BY <1>1, <1>2 DEF LockMoves
<1>8. ASSUME NEW u \in Uploads, Published(upload[u], thread[u])
      PROVE  lexical' = Chunks[upload[u].version] /\ Keeps(n, Chunks[upload[u].version])
  <2>1. lexical = Chunks[upload[u].version] /\ Keeps(thread[t], Chunks[upload[u].version])
    BY <1>8 DEF IndexInv, PublishedFit
  <2>2. QED
    BY <2>1, <1>2 DEF Keeps
<1>9. ASSUME t \in Uploads, upload[t].pc = "index", n.pc \in Loaded
      PROVE  n.docs = Chunks[upload[t].version]
  BY <1>2, <1>9 DEF IndexInv, UploadsFit, UploadFits
<1>10. n.pc # "success" /\ thread[t].pc # "none"
  BY <1>2 DEF Section
<1>11. StaleOnlyWhileIndexed'
  BY <1>1, ConstantTypes DEF StaleOnlyWhileIndexed
<1>12. QED
  BY <1>1, <1>2, <1>3, <1>4, <1>5, <1>6, <1>7, <1>8, <1>9, <1>10, <1>11, ThreadStep

\* Thread t leaves its section, with what it read, or what was there, as the lexical chunks.
LEMMA SectionLeft ==
    ASSUME IndexInv, NEW t \in Actors, thread[t].pc \in Section,
           NEW n \in Thread, thread' = [thread EXCEPT ![t] = n],
           UNCHANGED fileVars, UNCHANGED <<vectors, late>>, sourceLock' = None,
           \/ lexical' = lexical
           \/ thread[t].pc \in Loaded /\ lexical' = thread[t].docs
           \/ lexical' = thread[t].old,
           stale' \in BOOLEAN, uncertain' \in BOOLEAN,
           NoFault \/ Fault,
           n.pc \notin Section, n.pc = "late_mark" => faults' > 0,
           n.pc = "success" => thread[t].pc \in Loaded /\ lexical' = thread[t].docs,
           IndexesAgree', StaleOnlyWhileIndexed'
    PROVE  IndexInv'
<1>1. /\ thread[t].docs \subseteq AllChunks /\ thread[t].old \subseteq AllChunks
      /\ sourceLock = t
  BY ThreadShape
<1>2. /\ lexical' \subseteq AllChunks /\ vectors' \subseteq AllChunks /\ late' \subseteq AllChunks
  BY <1>1 DEF IndexInv, TypesFit
<1>3. faults' \in 0..MaxTroubles /\ faults' >= faults
  BY FaultSteps
<1>4. LockMoves(t, n)
  BY <1>1 DEF LockMoves
<1>5. ASSUME NEW u \in Uploads, Published(upload[u], thread[u])
      PROVE  lexical' = Chunks[upload[u].version] /\ Keeps(n, Chunks[upload[u].version])
  <2>1. lexical = Chunks[upload[u].version] /\ Keeps(thread[t], Chunks[upload[u].version])
    BY <1>5 DEF IndexInv, PublishedFit
  <2>2. QED
    BY <2>1 DEF Keeps
<1>6. ASSUME t \in Uploads, upload[t].pc = "index", n.pc = "success"
      PROVE  sourceLock = t /\ lexical' = Chunks[upload[t].version]
  BY <1>1, <1>6 DEF IndexInv, UploadsFit, UploadFits
<1>7. n.pc \notin Loaded /\ thread[t].pc # "none"
  BY DEF Section, Loaded
<1>8. ThreadFits(n, lexical', vectors', stale', uncertain', faults')
  BY OutFits
<1>9. QED
  BY <1>1, <1>2, <1>3, <1>4, <1>5, <1>6, <1>7, <1>8, ThreadStep

\* Thread t takes a step before or after its section.
LEMMA OutsideStep ==
    ASSUME IndexInv, NEW t \in Actors, thread[t].pc \notin Section,
           NEW n \in Thread, thread' = [thread EXCEPT ![t] = n],
           UNCHANGED fileVars, UNCHANGED <<lexical, vectors, late, uncertain, sourceLock>>,
           stale' \in {stale, TRUE}, stale' # stale => faults' > 0,
           NoFault \/ Fault,
           thread[t].pc # "none" \/ t \in Directories,
           n.pc \notin Section, n.pc = "late_mark" => faults' > 0, n.pc # "success"
    PROVE  IndexInv'
<1>1. sourceLock # t
  BY ThreadShape
<1>2. /\ lexical' \subseteq AllChunks /\ vectors' \subseteq AllChunks /\ late' \subseteq AllChunks
      /\ stale' \in BOOLEAN /\ uncertain' \in BOOLEAN /\ (stale => stale')
  BY DEF IndexInv, TypesFit
<1>3. faults' \in 0..MaxTroubles /\ faults' >= faults /\ (faults' = 0 => faults = 0)
  BY FaultSteps, ConstantTypes DEF IndexInv, TypesFit
<1>4. LockMoves(t, n)
  BY <1>1 DEF LockMoves
<1>5. ASSUME NEW u \in Uploads, Published(upload[u], thread[u])
      PROVE  lexical' = Chunks[upload[u].version] /\ Keeps(n, Chunks[upload[u].version])
  BY <1>5 DEF IndexInv, PublishedFit, Keeps
<1>6. n.pc \notin Loaded
  BY DEF Section, Loaded
<1>7. ThreadFits(n, lexical', vectors', stale', uncertain', faults')
  BY OutFits
<1>8. IndexesAgree'
  BY <1>2 DEF IndexInv, IndexesAgree
<1>9. StaleOnlyWhileIndexed'
  <2>1. CASE stale' = stale
    BY <2>1, <1>3 DEF IndexInv, StaleOnlyWhileIndexed
  <2>2. CASE stale' # stale
    BY <2>2, <1>3 DEF StaleOnlyWhileIndexed
  <2>3. QED
    BY <2>1, <2>2
<1>10. QED
  BY <1>1, <1>2, <1>3, <1>4, <1>5, <1>6, <1>7, <1>8, <1>9, ThreadStep

LEMMA EnterIndexingKept ==
    ASSUME IndexInv, NEW t \in Actors, EnterIndexing(t)
    PROVE  IndexInv'
<1>1. /\ thread[t].pc = "enter" /\ faults' = faults /\ NoFault
      /\ UNCHANGED fileVars /\ UNCHANGED <<lexical, vectors, late, uncertain, sourceLock, stale>>
  BY DEF EnterIndexing, At, NoFault, indexVars
<1>2. thread[t].pc \notin Section /\ thread[t].pc # "none"
  BY <1>1 DEF Section
<1>3. CASE EndThread(t, "failed")
  <2>1. PICK n \in Thread : thread' = [thread EXCEPT ![t] = n] /\ n.pc \in {"none", "failed"}
    BY <1>3, EndThreadShape DEF Outcomes
  <2>2. n.pc \notin Section /\ n.pc # "late_mark" /\ n.pc # "success"
    BY <2>1 DEF Section
  <2>3. QED
    BY <1>1, <1>2, <2>1, <2>2, OutsideStep
<1>4. CASE Goto(t, "lock")
  <2> DEFINE n == [thread[t] EXCEPT !.pc = "lock"]
  <2>1. n \in Thread /\ n.pc = "lock"
    BY ThreadShape, GotoShape
  <2>2. thread' = [thread EXCEPT ![t] = n]
    BY <1>4 DEF Goto, IndexInv, TypesFit
  <2> HIDE DEF n
  <2>3. n.pc \notin Section /\ n.pc # "late_mark" /\ n.pc # "success"
    BY <2>1 DEF Section
  <2>4. QED
    BY <1>1, <1>2, <2>1, <2>2, <2>3, OutsideStep
<1>5. QED
  BY <1>3, <1>4 DEF EnterIndexing

LEMMA StartDirectoryKept ==
    ASSUME IndexInv, NEW t \in Actors, StartDirectory(t)
    PROVE  IndexInv'
<1>1. /\ t \in Directories /\ thread[t].pc = "none" /\ Goto(t, "enter") /\ NoFault
      /\ UNCHANGED fileVars /\ UNCHANGED <<lexical, vectors, late, uncertain, sourceLock, stale>>
  BY DEF StartDirectory, At, indexVars
<1> DEFINE n == [thread[t] EXCEPT !.pc = "enter"]
<1>2. n \in Thread /\ n.pc = "enter"
  BY ThreadShape, GotoShape
<1>3. thread' = [thread EXCEPT ![t] = n]
  BY <1>1 DEF Goto, IndexInv, TypesFit
<1> HIDE DEF n
<1>4. thread[t].pc \notin Section /\ n.pc \notin Section /\ n.pc # "late_mark" /\ n.pc # "success"
  BY <1>1, <1>2 DEF Section
<1>5. QED
  BY <1>1, <1>2, <1>3, <1>4, OutsideStep

LEMMA MarkAfterFailureKept ==
    ASSUME IndexInv, NEW t \in Actors, MarkAfterFailure(t)
    PROVE  IndexInv'
<1>1. /\ thread[t].pc = "late_mark" /\ EndThread(t, "failed") /\ (NoFault \/ Fault)
      /\ stale' \in {stale, TRUE}
      /\ UNCHANGED fileVars /\ UNCHANGED <<lexical, vectors, late, uncertain, sourceLock>>
  BY DEF MarkAfterFailure, At
<1>2. thread[t].pc \notin Section /\ thread[t].pc # "none"
  BY <1>1 DEF Section
<1>3. PICK n \in Thread : thread' = [thread EXCEPT ![t] = n] /\ n.pc \in {"none", "failed"}
  BY <1>1, EndThreadShape DEF Outcomes
<1>4. n.pc \notin Section /\ n.pc # "late_mark" /\ n.pc # "success"
  BY <1>3 DEF Section
<1>5. faults > 0
  BY <1>1, ThreadShape DEF ThreadFits
<1>6. faults' > 0
  BY <1>1, <1>5, ConstantTypes DEF IndexInv, TypesFit, NoFault, Fault
<1>7. QED
  BY <1>1, <1>2, <1>3, <1>4, <1>6, OutsideStep

LEMMA SnapshotSourceKept ==
    ASSUME IndexInv, NEW t \in Actors, SnapshotSource(t)
    PROVE  IndexInv'
<1>1. /\ thread[t].pc = "lock" /\ sourceLock = None
      /\ UNCHANGED fileVars /\ UNCHANGED <<lexical, vectors, late, uncertain, stale>>
      /\ lexical \subseteq AllChunks /\ vectors \subseteq AllChunks /\ late \subseteq AllChunks
      /\ stale \in BOOLEAN /\ uncertain \in BOOLEAN /\ faults \in 0..MaxTroubles
      /\ thread \in [Actors -> Thread] /\ thread[t] \in Thread
  BY DEF SnapshotSource, At, source_lock_free, indexVars, IndexInv, TypesFit
<1>2. thread[t].pc \notin Section /\ thread[t].pc # "none"
  BY <1>1 DEF Section
<1>3. CASE Fault /\ Goto(t, "late_mark") /\ UNCHANGED sourceLock
  <2> DEFINE n == [thread[t] EXCEPT !.pc = "late_mark"]
  <2>1. n \in Thread /\ n.pc = "late_mark"
    BY <1>1, GotoShape
  <2>2. thread' = [thread EXCEPT ![t] = n]
    BY <1>1, <1>3 DEF Goto
  <2> HIDE DEF n
  <2>3. n.pc \notin Section /\ n.pc # "success" /\ faults' > 0
    BY <2>1, <1>3, FaultSteps DEF Section
  <2>4. QED
    BY <1>1, <1>2, <1>3, <2>1, <2>2, <2>3, OutsideStep
<1>4. CASE NoFault /\ sourceLock' = t
           /\ thread' = [thread EXCEPT ![t] = [thread[t] EXCEPT !.pc = "mark", !.old = lexical,
                                                               !.wasStale = stale]]
  <2> DEFINE n == [thread[t] EXCEPT !.pc = "mark", !.old = lexical, !.wasStale = stale]
  <2>1. n \in Thread /\ n.pc = "mark" /\ n.old = lexical /\ n.wasStale = stale
    BY <1>1 DEF Thread
  <2>2. thread' = [thread EXCEPT ![t] = n] /\ sourceLock' = t /\ faults' = faults
    BY <1>4 DEF NoFault
  <2> HIDE DEF n
  <2>3. /\ (~stale /\ ~uncertain) => vectors = lexical
        /\ faults = 0 => ~stale
    BY <1>1 DEF IndexInv, IndexesAgree, StaleOnlyWhileIndexed
  <2>4. ThreadFits(n, lexical', vectors', stale', uncertain', faults')
    BY <1>1, <2>1, <2>2, <2>3 DEF ThreadFits, Marked, Loaded
  <2>5. LockMoves(t, n)
    BY <1>1, <2>1, <2>2 DEF LockMoves, Section
  <2>6. ASSUME NEW u \in Uploads, Published(upload[u], thread[u])
        PROVE  lexical' = Chunks[upload[u].version] /\ Keeps(n, Chunks[upload[u].version])
    BY <1>1, <2>1, <2>6 DEF IndexInv, PublishedFit, Keeps, Loaded
  <2>7. IndexesAgree' /\ StaleOnlyWhileIndexed'
    BY <1>1, <2>2, <2>3, ConstantTypes DEF IndexesAgree, StaleOnlyWhileIndexed
  <2>8. n.pc # "success" /\ n.pc \notin Loaded /\ faults' >= faults
    BY <1>1, <2>1, <2>2, ConstantTypes DEF Loaded
  <2>9. QED
    BY <1>1, <1>2, <2>1, <2>2, <2>4, <2>5, <2>6, <2>7, <2>8, ThreadStep
<1>5. QED
  BY <1>3, <1>4 DEF SnapshotSource

LEMMA MarkStaleKept ==
    ASSUME IndexInv, NEW t \in Actors, MarkStale(t)
    PROVE  IndexInv'
<1>1. /\ thread[t].pc = "mark" /\ (NoFault \/ Fault)
      /\ UNCHANGED fileVars /\ UNCHANGED <<lexical, vectors, late, uncertain>>
      /\ UNCHANGED sourceLock
      /\ lexical \subseteq AllChunks /\ vectors \subseteq AllChunks /\ late \subseteq AllChunks
      /\ stale \in BOOLEAN /\ uncertain \in BOOLEAN /\ thread[t] \in Thread
  BY DEF MarkStale, At, IndexInv, TypesFit
<1>2. thread[t].pc \in Section
  BY <1>1 DEF Section
<1>3. ThreadFits(thread[t], lexical, vectors, stale, uncertain, faults)
  BY ThreadShape
<1>4. CASE NoFault /\ Goto(t, "load") /\ stale' = TRUE
  <2> DEFINE n == [thread[t] EXCEPT !.pc = "load"]
  <2>1. n.pc = "load" /\ n.docs = thread[t].docs /\ n.old = thread[t].old
        /\ n.wasStale = thread[t].wasStale
    BY <1>1, GotoShape DEF Section
  <2> HIDE DEF n
  <2>2. ThreadFits(n, lexical', vectors', stale', uncertain', faults')
    BY <1>1, <1>3, <1>4, <2>1 DEF ThreadFits, Marked, Loaded, Untouched, Section, NoFault
  <2>3. ThreadFits([thread[t] EXCEPT !.pc = "load"], lexical', vectors', stale',
                   uncertain', faults')
    BY <2>2 DEF n
  <2>4. IndexesAgree' /\ "load" \in Section /\ "load" \notin Loaded
    BY <1>4 DEF IndexesAgree, Section, Loaded
  <2>5. QED
    BY <1>1, <1>2, <1>4, <2>3, <2>4, SectionStep
<1>5. CASE Fault /\ Goto(t, "rollback") /\ UNCHANGED stale
  <2> DEFINE n == [thread[t] EXCEPT !.pc = "rollback"]
  <2>1. n.pc = "rollback" /\ n.docs = thread[t].docs /\ n.old = thread[t].old
        /\ n.wasStale = thread[t].wasStale
    BY <1>1, GotoShape DEF Section
  <2> HIDE DEF n
  <2>2. faults' > 0
    BY <1>5, FaultSteps
  <2>3. ThreadFits(n, lexical', vectors', stale', uncertain', faults')
    BY <1>1, <1>3, <1>5, <2>1, <2>2 DEF ThreadFits, Marked, Loaded, Untouched, Section
  <2>4. ThreadFits([thread[t] EXCEPT !.pc = "rollback"], lexical', vectors', stale', uncertain',
                   faults')
    BY <2>3 DEF n
  <2>5. IndexesAgree' /\ "rollback" \in Section /\ "rollback" \notin Loaded
    BY <1>1, <1>5 DEF IndexInv, IndexesAgree, Section, Loaded
  <2>6. QED
    BY <1>1, <1>2, <1>5, <2>4, <2>5, SectionStep
<1>6. QED
  BY <1>4, <1>5 DEF MarkStale

\* Any failure before the vectors are touched goes to the rollback and changes nothing else.
LEMMA UntouchedFailure ==
    ASSUME IndexInv, NEW t \in Actors, thread[t].pc = "load", NoFault \/ Fault,
           Goto(t, "rollback"), UNCHANGED <<indexVars, fileVars, sourceLock>>
    PROVE  IndexInv'
<1>1. /\ UNCHANGED fileVars /\ UNCHANGED <<lexical, vectors, late, uncertain, stale>>
      /\ UNCHANGED sourceLock
      /\ lexical \subseteq AllChunks /\ vectors \subseteq AllChunks /\ late \subseteq AllChunks
      /\ stale \in BOOLEAN /\ uncertain \in BOOLEAN /\ thread[t] \in Thread
  BY DEF indexVars, IndexInv, TypesFit
<1>2. thread[t].pc \in Section
  BY DEF Section
<1>3. ThreadFits(thread[t], lexical, vectors, stale, uncertain, faults)
  BY ThreadShape
<1>4. faults' = 0 => faults = 0
  BY FaultSteps, ConstantTypes DEF IndexInv, TypesFit
<1> DEFINE n == [thread[t] EXCEPT !.pc = "rollback"]
<1>5. n.pc = "rollback" /\ n.docs = thread[t].docs /\ n.old = thread[t].old
      /\ n.wasStale = thread[t].wasStale
  BY <1>1, GotoShape DEF Section
<1> HIDE DEF n
<1>6. ThreadFits(n, lexical', vectors', stale', uncertain', faults')
  BY <1>1, <1>3, <1>4, <1>5 DEF ThreadFits, Marked, Loaded, Untouched, Section
<1>7. ThreadFits([thread[t] EXCEPT !.pc = "rollback"], lexical', vectors', stale', uncertain',
                 faults')
  BY <1>6 DEF n
<1>8. IndexesAgree' /\ "rollback" \in Section /\ "rollback" \notin Loaded
  BY <1>1 DEF IndexInv, IndexesAgree, Section, Loaded
<1>9. QED
  BY <1>1, <1>2, <1>7, <1>8, SectionStep

LEMMA LoadSourceKept ==
    ASSUME IndexInv, NEW t \in Actors, LoadSource(t)
    PROVE  IndexInv'
<1>1. /\ thread[t].pc = "load" /\ UNCHANGED <<indexVars, fileVars, sourceLock>>
  BY DEF LoadSource, At
<1>2. CASE Goto(t, "rollback") /\ (NoFault \/ Fault)
  BY <1>1, <1>2, UntouchedFailure
<1>3. CASE NoFault /\ file # None
           /\ thread' = [thread EXCEPT ![t] = [thread[t] EXCEPT !.docs = Chunks[file],
                  !.pc = IF Chunks[file] = {} THEN "drop_vectors" ELSE "add"]]
  <2> DEFINE n == [thread[t] EXCEPT !.docs = Chunks[file],
                      !.pc = IF Chunks[file] = {} THEN "drop_vectors" ELSE "add"]
  <2>1. /\ UNCHANGED fileVars /\ UNCHANGED <<lexical, vectors, late, uncertain, stale>>
        /\ lexical \subseteq AllChunks /\ vectors \subseteq AllChunks /\ late \subseteq AllChunks
        /\ stale \in BOOLEAN /\ uncertain \in BOOLEAN /\ thread[t] \in Thread
        /\ file \in Versions /\ faults \in 0..MaxTroubles /\ faults' = faults
        /\ UNCHANGED sourceLock
    BY <1>1, <1>3 DEF indexVars, IndexInv, TypesFit, NoFault
  <2>2. ThreadFits(thread[t], lexical, vectors, stale, uncertain, faults) /\ sourceLock = t
    BY <1>1, ThreadShape DEF Section
  <2>3. /\ n \in Thread /\ n.docs = Chunks[file] /\ n.old = thread[t].old
        /\ n.wasStale = thread[t].wasStale /\ n.pc \in {"drop_vectors", "add"}
        /\ n.pc = "drop_vectors" => n.docs = {}
    <3>1. Chunks[file] \in SUBSET AllChunks
      BY <2>1, ChunksType
    <3>2. QED
      BY <2>1, <3>1 DEF Thread
  <2>4. thread' = [thread EXCEPT ![t] = n]
    BY <1>3
  <2> HIDE DEF n
  <2>5. ThreadFits(n, lexical', vectors', stale', uncertain', faults')
    BY <1>1, <2>1, <2>2, <2>3 DEF ThreadFits, Marked, Loaded, Untouched, Section
  <2>6. LockMoves(t, n)
    BY <2>1, <2>2, <2>3 DEF LockMoves, Section
  <2>7. ASSUME NEW u \in Uploads, Published(upload[u], thread[u])
        PROVE  lexical' = Chunks[upload[u].version] /\ Keeps(n, Chunks[upload[u].version])
    <3>1. lexical = Chunks[upload[u].version] /\ Keeps(thread[t], Chunks[upload[u].version])
      BY <2>7 DEF IndexInv, PublishedFit
    <3>2. file = upload[u].version
      BY <2>7 DEF IndexInv, UploadsFit, UploadFits, Published
    <3>3. QED
      BY <1>1, <2>1, <2>3, <3>1, <3>2 DEF Keeps, Section
  <2>8. ASSUME t \in Uploads, upload[t].pc = "index", n.pc \in Loaded
        PROVE  n.docs = Chunks[upload[t].version]
    BY <2>3, <2>8 DEF IndexInv, UploadsFit, UploadFits
  <2>9. IndexesAgree' /\ StaleOnlyWhileIndexed'
    BY <2>1, <2>2, ConstantTypes DEF IndexInv, IndexesAgree, StaleOnlyWhileIndexed
  <2>10. n.pc # "success" /\ thread[t].pc # "none" /\ faults' >= faults
    BY <1>1, <2>1, <2>3, ConstantTypes
  <2>11. QED
    BY <2>1, <2>2, <2>3, <2>4, <2>5, <2>6, <2>7, <2>8, <2>9, <2>10, ThreadStep
<1>4. QED
  BY <1>2, <1>3 DEF LoadSource

LEMMA AddVectorsKept ==
    ASSUME IndexInv, NEW t \in Actors, AddVectors(t)
    PROVE  IndexInv'
<1>1. /\ thread[t].pc = "add" /\ UNCHANGED fileVars
      /\ lexical \subseteq AllChunks /\ vectors \subseteq AllChunks /\ late \subseteq AllChunks
      /\ stale \in BOOLEAN /\ uncertain \in BOOLEAN
      /\ thread[t] \in Thread /\ thread[t].docs \subseteq AllChunks
  BY ThreadShape DEF AddVectors, At, IndexInv, TypesFit
<1>2. /\ thread[t].pc \in Section
      /\ ThreadFits(thread[t], lexical, vectors, stale, uncertain, faults)
  BY <1>1, ThreadShape DEF Section
<1>3. CASE NoFault /\ Goto(t, "replace") /\ vectors' = vectors \cup thread[t].docs
           /\ UNCHANGED <<late, uncertain>>
  <2> DEFINE n == [thread[t] EXCEPT !.pc = "replace"]
  <2>1. n.pc = "replace" /\ n.docs = thread[t].docs /\ n.old = thread[t].old
        /\ n.wasStale = thread[t].wasStale
    BY <1>1, GotoShape DEF Section
  <2> HIDE DEF n
  <2>2. /\ NoFault /\ faults' = faults /\ UNCHANGED sourceLock
        /\ lexical' = lexical \/ lexical' = thread[t].docs
        /\ vectors' \subseteq AllChunks /\ late' \subseteq AllChunks
        /\ stale' = stale /\ uncertain' \in BOOLEAN
    BY <1>1, <1>3 DEF AddVectors, NoFault
  <2>3. ThreadFits(n, lexical', vectors', stale', uncertain', faults')
    BY <1>1, <1>2, <1>3, <2>1, <2>2
       DEF AddVectors, ThreadFits, Marked, Loaded, Untouched, Section
  <2>4. ThreadFits([thread[t] EXCEPT !.pc = "replace"], lexical', vectors', stale',
                   uncertain', faults')
    BY <2>3 DEF n
  <2>5. IndexesAgree'
    BY <1>1, <1>2, <2>2 DEF IndexesAgree, ThreadFits, Marked, Loaded
  <2>6. /\ "replace" \in Section /\ ("replace" \in Loaded => thread[t].pc \in Loaded)
        /\ thread[t].pc \in Loaded \/ lexical' = lexical
    BY <1>1, <2>2 DEF Section, Loaded
  <2>7. QED
    BY <1>1, <1>2, <1>3, <2>2, <2>4, <2>5, <2>6, SectionStep
<1>4. CASE /\ Fault /\ Goto(t, "rollback") /\ uncertain' = TRUE
           /\ \/ vectors' = vectors \ thread[t].docs
              \/ \E written \in SUBSET thread[t].docs : vectors' = vectors \cup written
           /\ late' \in {late, late \cup thread[t].docs}
  <2> DEFINE n == [thread[t] EXCEPT !.pc = "rollback"]
  <2>1. n.pc = "rollback" /\ n.docs = thread[t].docs /\ n.old = thread[t].old
        /\ n.wasStale = thread[t].wasStale
    BY <1>1, GotoShape DEF Section
  <2> HIDE DEF n
  <2>2. /\ Fault /\ faults' > 0 /\ UNCHANGED sourceLock /\ lexical' = lexical
        /\ vectors' \subseteq AllChunks /\ late' \subseteq AllChunks
        /\ stale' = stale /\ uncertain' \in BOOLEAN
    BY <1>1, <1>4, FaultSteps DEF AddVectors
  <2>3. ThreadFits(n, lexical', vectors', stale', uncertain', faults')
    BY <1>1, <1>2, <1>4, <2>1, <2>2
       DEF AddVectors, ThreadFits, Marked, Loaded, Untouched, Section
  <2>4. ThreadFits([thread[t] EXCEPT !.pc = "rollback"], lexical', vectors', stale',
                   uncertain', faults')
    BY <2>3 DEF n
  <2>5. IndexesAgree'
    BY <1>1, <1>2, <2>2 DEF IndexesAgree, ThreadFits, Marked, Loaded
  <2>6. /\ "rollback" \in Section /\ ("rollback" \in Loaded => thread[t].pc \in Loaded)
        /\ thread[t].pc \in Loaded \/ lexical' = lexical
    BY <1>1, <2>2 DEF Section, Loaded
  <2>7. QED
    BY <1>1, <1>2, <1>4, <2>2, <2>4, <2>5, <2>6, SectionStep
<1>5. QED
  BY <1>3, <1>4 DEF AddVectors

LEMMA ReplaceLexicalKept ==
    ASSUME IndexInv, NEW t \in Actors, ReplaceLexical(t)
    PROVE  IndexInv'
<1>1. /\ thread[t].pc = "replace" /\ UNCHANGED fileVars
      /\ lexical \subseteq AllChunks /\ vectors \subseteq AllChunks /\ late \subseteq AllChunks
      /\ stale \in BOOLEAN /\ uncertain \in BOOLEAN
      /\ thread[t] \in Thread /\ thread[t].docs \subseteq AllChunks
  BY ThreadShape DEF ReplaceLexical, At, IndexInv, TypesFit
<1>2. /\ thread[t].pc \in Section
      /\ ThreadFits(thread[t], lexical, vectors, stale, uncertain, faults)
  BY <1>1, ThreadShape DEF Section
<1>3. CASE NoFault /\ Goto(t, "clean") /\ upsert_source(thread[t].docs)
  <2> DEFINE n == [thread[t] EXCEPT !.pc = "clean"]
  <2>1. n.pc = "clean" /\ n.docs = thread[t].docs /\ n.old = thread[t].old
        /\ n.wasStale = thread[t].wasStale
    BY <1>1, GotoShape DEF Section
  <2> HIDE DEF n
  <2>2. /\ NoFault /\ faults' = faults /\ UNCHANGED sourceLock
        /\ lexical' = lexical \/ lexical' = thread[t].docs
        /\ vectors' \subseteq AllChunks /\ late' \subseteq AllChunks
        /\ stale' = stale /\ uncertain' \in BOOLEAN
    BY <1>1, <1>3 DEF ReplaceLexical, NoFault, upsert_source
  <2>3. ThreadFits(n, lexical', vectors', stale', uncertain', faults')
    BY <1>1, <1>2, <1>3, <2>1, <2>2
       DEF ReplaceLexical, ThreadFits, Marked, Loaded, Untouched, Section, upsert_source
  <2>4. ThreadFits([thread[t] EXCEPT !.pc = "clean"], lexical', vectors', stale',
                   uncertain', faults')
    BY <2>3 DEF n
  <2>5. IndexesAgree'
    BY <1>1, <1>2, <2>2 DEF IndexesAgree, ThreadFits, Marked, Loaded
  <2>6. /\ "clean" \in Section /\ ("clean" \in Loaded => thread[t].pc \in Loaded)
        /\ thread[t].pc \in Loaded \/ lexical' = lexical
    BY <1>1, <2>2 DEF Section, Loaded
  <2>7. QED
    BY <1>1, <1>2, <1>3, <2>2, <2>4, <2>5, <2>6, SectionStep
<1>4. CASE Fault /\ Goto(t, "compensate") /\ UNCHANGED <<lexical, stale>>
  <2> DEFINE n == [thread[t] EXCEPT !.pc = "compensate"]
  <2>1. n.pc = "compensate" /\ n.docs = thread[t].docs /\ n.old = thread[t].old
        /\ n.wasStale = thread[t].wasStale
    BY <1>1, GotoShape DEF Section
  <2> HIDE DEF n
  <2>2. /\ Fault /\ faults' > 0 /\ UNCHANGED sourceLock /\ lexical' = lexical
        /\ vectors' \subseteq AllChunks /\ late' \subseteq AllChunks
        /\ stale' = stale /\ uncertain' \in BOOLEAN
    BY <1>1, <1>4, FaultSteps DEF ReplaceLexical
  <2>3. ThreadFits(n, lexical', vectors', stale', uncertain', faults')
    BY <1>1, <1>2, <1>4, <2>1, <2>2
       DEF ReplaceLexical, ThreadFits, Marked, Loaded, Untouched, Section, upsert_source
  <2>4. ThreadFits([thread[t] EXCEPT !.pc = "compensate"], lexical', vectors', stale',
                   uncertain', faults')
    BY <2>3 DEF n
  <2>5. IndexesAgree'
    BY <1>1, <1>2, <2>2 DEF IndexesAgree, ThreadFits, Marked, Loaded
  <2>6. /\ "compensate" \in Section /\ ("compensate" \in Loaded => thread[t].pc \in Loaded)
        /\ thread[t].pc \in Loaded \/ lexical' = lexical
    BY <1>1, <2>2 DEF Section, Loaded
  <2>7. QED
    BY <1>1, <1>2, <1>4, <2>2, <2>4, <2>5, <2>6, SectionStep
<1>5. QED
  BY <1>3, <1>4 DEF ReplaceLexical

LEMMA DeleteOtherVectorsKept ==
    ASSUME IndexInv, NEW t \in Actors, DeleteOtherVectors(t)
    PROVE  IndexInv'
<1>1. /\ thread[t].pc = "clean" /\ UNCHANGED fileVars
      /\ lexical \subseteq AllChunks /\ vectors \subseteq AllChunks /\ late \subseteq AllChunks
      /\ stale \in BOOLEAN /\ uncertain \in BOOLEAN
      /\ thread[t] \in Thread /\ thread[t].docs \subseteq AllChunks
  BY ThreadShape DEF DeleteOtherVectors, At, IndexInv, TypesFit
<1>2. /\ thread[t].pc \in Section
      /\ ThreadFits(thread[t], lexical, vectors, stale, uncertain, faults)
  BY <1>1, ThreadShape DEF Section
<1>3. CASE NoFault /\ Goto(t, "clear")
           /\ vectors' = vectors \cap thread[t].docs /\ uncertain' = FALSE
  <2> DEFINE n == [thread[t] EXCEPT !.pc = "clear"]
  <2>1. n.pc = "clear" /\ n.docs = thread[t].docs /\ n.old = thread[t].old
        /\ n.wasStale = thread[t].wasStale
    BY <1>1, GotoShape DEF Section
  <2> HIDE DEF n
  <2>2. /\ NoFault /\ faults' = faults /\ UNCHANGED sourceLock
        /\ lexical' = lexical \/ lexical' = thread[t].docs
        /\ vectors' \subseteq AllChunks /\ late' \subseteq AllChunks
        /\ stale' = stale /\ uncertain' \in BOOLEAN
    BY <1>1, <1>3 DEF DeleteOtherVectors, NoFault, AfterFailedDelete
  <2>3. ThreadFits(n, lexical', vectors', stale', uncertain', faults')
    BY <1>1, <1>2, <1>3, <2>1, <2>2
       DEF DeleteOtherVectors, ThreadFits, Marked, Loaded, Untouched, Section
  <2>4. ThreadFits([thread[t] EXCEPT !.pc = "clear"], lexical', vectors', stale',
                   uncertain', faults')
    BY <2>3 DEF n
  <2>5. IndexesAgree'
    BY <1>1, <1>2, <2>2 DEF IndexesAgree, ThreadFits, Marked, Loaded
  <2>6. /\ "clear" \in Section /\ ("clear" \in Loaded => thread[t].pc \in Loaded)
        /\ thread[t].pc \in Loaded \/ lexical' = lexical
    BY <1>1, <2>2 DEF Section, Loaded
  <2>7. QED
    BY <1>1, <1>2, <1>3, <2>2, <2>4, <2>5, <2>6, SectionStep
<1>4. CASE Fault /\ Goto(t, "compensate")
           /\ AfterFailedDelete(vectors \ thread[t].docs) /\ UNCHANGED uncertain
  <2> DEFINE n == [thread[t] EXCEPT !.pc = "compensate"]
  <2>1. n.pc = "compensate" /\ n.docs = thread[t].docs /\ n.old = thread[t].old
        /\ n.wasStale = thread[t].wasStale
    BY <1>1, GotoShape DEF Section
  <2> HIDE DEF n
  <2>2. /\ Fault /\ faults' > 0 /\ UNCHANGED sourceLock /\ lexical' = lexical
        /\ vectors' \subseteq AllChunks /\ late' \subseteq AllChunks
        /\ stale' = stale /\ uncertain' \in BOOLEAN
    BY <1>1, <1>4, FaultSteps DEF DeleteOtherVectors, AfterFailedDelete
  <2>3. ThreadFits(n, lexical', vectors', stale', uncertain', faults')
    BY <1>1, <1>2, <1>4, <2>1, <2>2
       DEF DeleteOtherVectors, ThreadFits, Marked, Loaded, Untouched, Section
  <2>4. ThreadFits([thread[t] EXCEPT !.pc = "compensate"], lexical', vectors', stale',
                   uncertain', faults')
    BY <2>3 DEF n
  <2>5. IndexesAgree'
    BY <1>1, <1>2, <2>2 DEF IndexesAgree, ThreadFits, Marked, Loaded
  <2>6. /\ "compensate" \in Section /\ ("compensate" \in Loaded => thread[t].pc \in Loaded)
        /\ thread[t].pc \in Loaded \/ lexical' = lexical
    BY <1>1, <2>2 DEF Section, Loaded
  <2>7. QED
    BY <1>1, <1>2, <1>4, <2>2, <2>4, <2>5, <2>6, SectionStep
<1>5. QED
  BY <1>3, <1>4 DEF DeleteOtherVectors

LEMMA DropVectorsKept ==
    ASSUME IndexInv, NEW t \in Actors, DropVectors(t)
    PROVE  IndexInv'
<1>1. /\ thread[t].pc = "drop_vectors" /\ UNCHANGED fileVars
      /\ lexical \subseteq AllChunks /\ vectors \subseteq AllChunks /\ late \subseteq AllChunks
      /\ stale \in BOOLEAN /\ uncertain \in BOOLEAN
      /\ thread[t] \in Thread /\ thread[t].docs \subseteq AllChunks
  BY ThreadShape DEF DropVectors, At, IndexInv, TypesFit
<1>2. /\ thread[t].pc \in Section
      /\ ThreadFits(thread[t], lexical, vectors, stale, uncertain, faults)
  BY <1>1, ThreadShape DEF Section
<1>3. CASE NoFault /\ Goto(t, "drop_lexical") /\ vectors' = {} /\ uncertain' = FALSE
  <2> DEFINE n == [thread[t] EXCEPT !.pc = "drop_lexical"]
  <2>1. n.pc = "drop_lexical" /\ n.docs = thread[t].docs /\ n.old = thread[t].old
        /\ n.wasStale = thread[t].wasStale
    BY <1>1, GotoShape DEF Section
  <2> HIDE DEF n
  <2>2. /\ NoFault /\ faults' = faults /\ UNCHANGED sourceLock
        /\ lexical' = lexical \/ lexical' = thread[t].docs
        /\ vectors' \subseteq AllChunks /\ late' \subseteq AllChunks
        /\ stale' = stale /\ uncertain' \in BOOLEAN
    BY <1>1, <1>3 DEF DropVectors, NoFault, AfterFailedDelete
  <2>3. ThreadFits(n, lexical', vectors', stale', uncertain', faults')
    BY <1>1, <1>2, <1>3, <2>1, <2>2
       DEF DropVectors, ThreadFits, Marked, Loaded, Untouched, Section
  <2>4. ThreadFits([thread[t] EXCEPT !.pc = "drop_lexical"], lexical', vectors', stale',
                   uncertain', faults')
    BY <2>3 DEF n
  <2>5. IndexesAgree'
    BY <1>1, <1>2, <2>2 DEF IndexesAgree, ThreadFits, Marked, Loaded
  <2>6. /\ "drop_lexical" \in Section /\ ("drop_lexical" \in Loaded => thread[t].pc \in Loaded)
        /\ thread[t].pc \in Loaded \/ lexical' = lexical
    BY <1>1, <2>2 DEF Section, Loaded
  <2>7. QED
    BY <1>1, <1>2, <1>3, <2>2, <2>4, <2>5, <2>6, SectionStep
<1>4. CASE Fault /\ Goto(t, "rollback") /\ AfterFailedDelete(vectors) /\ uncertain' = TRUE
  <2> DEFINE n == [thread[t] EXCEPT !.pc = "rollback"]
  <2>1. n.pc = "rollback" /\ n.docs = thread[t].docs /\ n.old = thread[t].old
        /\ n.wasStale = thread[t].wasStale
    BY <1>1, GotoShape DEF Section
  <2> HIDE DEF n
  <2>2. /\ Fault /\ faults' > 0 /\ UNCHANGED sourceLock /\ lexical' = lexical
        /\ vectors' \subseteq AllChunks /\ late' \subseteq AllChunks
        /\ stale' = stale /\ uncertain' \in BOOLEAN
    BY <1>1, <1>4, FaultSteps DEF DropVectors, AfterFailedDelete
  <2>3. ThreadFits(n, lexical', vectors', stale', uncertain', faults')
    BY <1>1, <1>2, <1>4, <2>1, <2>2
       DEF DropVectors, ThreadFits, Marked, Loaded, Untouched, Section
  <2>4. ThreadFits([thread[t] EXCEPT !.pc = "rollback"], lexical', vectors', stale',
                   uncertain', faults')
    BY <2>3 DEF n
  <2>5. IndexesAgree'
    BY <1>1, <1>2, <2>2 DEF IndexesAgree, ThreadFits, Marked, Loaded
  <2>6. /\ "rollback" \in Section /\ ("rollback" \in Loaded => thread[t].pc \in Loaded)
        /\ thread[t].pc \in Loaded \/ lexical' = lexical
    BY <1>1, <2>2 DEF Section, Loaded
  <2>7. QED
    BY <1>1, <1>2, <1>4, <2>2, <2>4, <2>5, <2>6, SectionStep
<1>5. QED
  BY <1>3, <1>4 DEF DropVectors

LEMMA CompensateKept ==
    ASSUME IndexInv, NEW t \in Actors, Compensate(t)
    PROVE  IndexInv'
<1>1. /\ thread[t].pc = "compensate" /\ UNCHANGED fileVars
      /\ lexical \subseteq AllChunks /\ vectors \subseteq AllChunks /\ late \subseteq AllChunks
      /\ stale \in BOOLEAN /\ uncertain \in BOOLEAN
      /\ thread[t] \in Thread /\ thread[t].docs \subseteq AllChunks
  BY ThreadShape DEF Compensate, At, IndexInv, TypesFit
<1>2. /\ thread[t].pc \in Section
      /\ ThreadFits(thread[t], lexical, vectors, stale, uncertain, faults)
  BY <1>1, ThreadShape DEF Section
<1>3. CASE NoFault /\ Goto(t, "rollback") /\ AfterFailedDelete(thread[t].docs)
           /\ uncertain' = TRUE
  <2> DEFINE n == [thread[t] EXCEPT !.pc = "rollback"]
  <2>1. n.pc = "rollback" /\ n.docs = thread[t].docs /\ n.old = thread[t].old
        /\ n.wasStale = thread[t].wasStale
    BY <1>1, GotoShape DEF Section
  <2> HIDE DEF n
  <2>2. /\ NoFault /\ faults' = faults /\ UNCHANGED sourceLock
        /\ lexical' = lexical
        /\ vectors' \subseteq AllChunks /\ late' \subseteq AllChunks
        /\ stale' = stale /\ uncertain' \in BOOLEAN
    BY <1>1, <1>3 DEF Compensate, NoFault, AfterFailedDelete
  <2>3. ThreadFits(n, lexical', vectors', stale', uncertain', faults')
    BY <1>1, <1>2, <1>3, <2>1, <2>2
       DEF Compensate, ThreadFits, Marked, Loaded, Untouched, Section
  <2>4. ThreadFits([thread[t] EXCEPT !.pc = "rollback"], lexical', vectors', stale',
                   uncertain', faults')
    BY <2>3 DEF n
  <2>5. IndexesAgree'
    BY <1>3 DEF IndexesAgree
  <2>6. /\ "rollback" \in Section /\ ("rollback" \in Loaded => thread[t].pc \in Loaded)
        /\ thread[t].pc \in Loaded \/ lexical' = lexical
    BY <1>1, <2>2 DEF Section, Loaded
  <2>7. QED
    BY <1>1, <1>2, <1>3, <2>2, <2>4, <2>5, <2>6, SectionStep
<1>4. QED
  BY <1>3 DEF Compensate

LEMMA ClearStaleKept ==
    ASSUME IndexInv, NEW t \in Actors, ClearStale(t)
    PROVE  IndexInv'
<1>1. /\ thread[t].pc = "clear" /\ UNCHANGED fileVars
      /\ UNCHANGED <<lexical, vectors, late, uncertain>>
      /\ lexical \subseteq AllChunks /\ vectors \subseteq AllChunks /\ late \subseteq AllChunks
      /\ stale \in BOOLEAN /\ uncertain \in BOOLEAN /\ thread[t] \in Thread
  BY DEF ClearStale, At, IndexInv, TypesFit
<1>2. /\ thread[t].pc \in Section /\ thread[t].pc \in Loaded
      /\ ThreadFits(thread[t], lexical, vectors, stale, uncertain, faults)
  BY <1>1, ThreadShape DEF Section, Loaded
<1>3. CASE NoFault /\ EndThread(t, "success") /\ Unlock /\ stale' = FALSE
  <2>1. PICK n \in Thread : thread' = [thread EXCEPT ![t] = n] /\ n.pc \in {"none", "success"}
    BY <1>3, EndThreadShape DEF Outcomes
  <2>2. n.pc \notin Section /\ n.pc # "late_mark"
    BY <2>1 DEF Section
  <2>3. lexical' = thread[t].docs
    BY <1>1, <1>2 DEF ThreadFits
  <2>4. IndexesAgree' /\ StaleOnlyWhileIndexed'
    BY <1>1, <1>2, <1>3 DEF IndexesAgree, StaleOnlyWhileIndexed, ThreadFits
  <2>5. UNCHANGED <<vectors, late>> /\ sourceLock' = None /\ stale' \in BOOLEAN
        /\ uncertain' \in BOOLEAN
    BY <1>1, <1>3 DEF Unlock
  <2>6. QED
    BY <1>1, <1>2, <1>3, <2>1, <2>2, <2>3, <2>4, <2>5, SectionLeft
<1>4. CASE Fault /\ Goto(t, "compensate") /\ UNCHANGED <<stale, sourceLock>>
  <2> DEFINE n == [thread[t] EXCEPT !.pc = "compensate"]
  <2>1. n.pc = "compensate" /\ n.docs = thread[t].docs /\ n.old = thread[t].old
        /\ n.wasStale = thread[t].wasStale
    BY <1>1, GotoShape DEF Section
  <2> HIDE DEF n
  <2>2. Fault /\ faults' > 0 /\ stale' = stale /\ UNCHANGED sourceLock /\ lexical' = lexical
    BY <1>1, <1>4, FaultSteps
  <2>3. ThreadFits(n, lexical', vectors', stale', uncertain', faults')
    BY <1>1, <1>2, <2>1, <2>2 DEF ThreadFits, Marked, Loaded, Untouched, Section
  <2>4. ThreadFits([thread[t] EXCEPT !.pc = "compensate"],
                   lexical', vectors', stale', uncertain', faults')
    BY <2>3 DEF n
  <2>5. IndexesAgree' /\ "compensate" \in Section /\ "compensate" \notin Loaded
    BY <1>1, <2>2 DEF IndexInv, IndexesAgree, Section, Loaded
  <2>6. QED
    BY <1>1, <1>2, <1>4, <2>2, <2>4, <2>5, SectionStep
<1>5. QED
  BY <1>3, <1>4 DEF ClearStale

LEMMA DropLexicalKept ==
    ASSUME IndexInv, NEW t \in Actors, DropLexical(t)
    PROVE  IndexInv'
<1>1. /\ thread[t].pc = "drop_lexical" /\ UNCHANGED fileVars /\ UNCHANGED <<vectors, late>>
      /\ lexical \subseteq AllChunks /\ vectors \subseteq AllChunks /\ late \subseteq AllChunks
      /\ stale \in BOOLEAN /\ uncertain \in BOOLEAN /\ thread[t] \in Thread
  BY DEF DropLexical, At, IndexInv, TypesFit
<1>2. /\ thread[t].pc \in Section /\ thread[t].pc \in Loaded
      /\ ThreadFits(thread[t], lexical, vectors, stale, uncertain, faults)
  BY <1>1, ThreadShape DEF Section, Loaded
<1>3. CASE /\ NoFault /\ EndThread(t, "empty") /\ Unlock
           /\ lexical' = {} /\ stale' = FALSE /\ UNCHANGED uncertain
  <2>1. PICK n \in Thread : thread' = [thread EXCEPT ![t] = n] /\ n.pc \in {"none", "empty"}
    BY <1>3, EndThreadShape DEF Outcomes
  <2>2. n.pc \notin Section /\ n.pc # "late_mark" /\ n.pc # "success"
    BY <2>1 DEF Section
  <2>3. lexical' = thread[t].docs
    BY <1>1, <1>2, <1>3 DEF ThreadFits
  <2>4. IndexesAgree' /\ StaleOnlyWhileIndexed'
    BY <1>1, <1>2, <1>3 DEF IndexesAgree, StaleOnlyWhileIndexed, ThreadFits
  <2>5. UNCHANGED <<vectors, late>> /\ sourceLock' = None /\ stale' \in BOOLEAN
        /\ uncertain' \in BOOLEAN
    BY <1>1, <1>3 DEF Unlock
  <2>6. QED
    BY <1>1, <1>2, <1>3, <2>1, <2>2, <2>3, <2>4, <2>5, SectionLeft
<1>4. CASE /\ Fault /\ Goto(t, "rollback") /\ uncertain' = TRUE
           /\ UNCHANGED <<lexical, stale, sourceLock>>
  <2> DEFINE n == [thread[t] EXCEPT !.pc = "rollback"]
  <2>1. n.pc = "rollback" /\ n.docs = thread[t].docs /\ n.old = thread[t].old
        /\ n.wasStale = thread[t].wasStale
    BY <1>1, GotoShape DEF Section
  <2> HIDE DEF n
  <2>2. /\ Fault /\ faults' > 0 /\ stale' = stale /\ UNCHANGED sourceLock /\ lexical' = lexical
        /\ uncertain' = TRUE
    BY <1>1, <1>4, FaultSteps
  <2>3. ThreadFits(n, lexical', vectors', stale', uncertain', faults')
    BY <1>1, <1>2, <2>1, <2>2 DEF ThreadFits, Marked, Loaded, Untouched, Section
  <2>4. ThreadFits([thread[t] EXCEPT !.pc = "rollback"],
                   lexical', vectors', stale', uncertain', faults')
    BY <2>3 DEF n
  <2>5. IndexesAgree' /\ "rollback" \in Section /\ "rollback" \notin Loaded
    BY <1>1, <2>2 DEF IndexInv, IndexesAgree, Section, Loaded
  <2>6. QED
    BY <1>1, <1>2, <1>4, <2>2, <2>4, <2>5, SectionStep
<1>5. QED
  BY <1>3, <1>4 DEF DropLexical

LEMMA RollbackKept ==
    ASSUME IndexInv, NEW t \in Actors, Rollback(t)
    PROVE  IndexInv'
<1>1. /\ thread[t].pc = "rollback" /\ UNCHANGED fileVars /\ UNCHANGED <<vectors, late, uncertain>>
      /\ sourceLock' = None
      /\ lexical \subseteq AllChunks /\ vectors \subseteq AllChunks /\ late \subseteq AllChunks
      /\ stale \in BOOLEAN /\ uncertain \in BOOLEAN /\ thread[t] \in Thread
      /\ thread[t].wasStale \in BOOLEAN
  BY ThreadShape DEF Rollback, Unlock, At, IndexInv, TypesFit
<1>2. /\ thread[t].pc \in Section
      /\ ThreadFits(thread[t], lexical, vectors, stale, uncertain, faults)
  BY <1>1, ThreadShape DEF Section, Loaded
<1>3. CASE NoFault /\ EndThread(t, "failed") /\ restore_source_state(t)
  <2>1. PICK n \in Thread : thread' = [thread EXCEPT ![t] = n] /\ n.pc \in {"none", "failed"}
    BY <1>3, EndThreadShape DEF Outcomes
  <2>2. n.pc \notin Section /\ n.pc # "late_mark" /\ n.pc # "success"
    BY <2>1 DEF Section
  <2>3. lexical' = thread[t].old /\ stale' = thread[t].wasStale /\ faults' = faults
    BY <1>3 DEF restore_source_state, NoFault
  <2>4. IndexesAgree'
    BY <1>1, <1>2, <2>3 DEF IndexesAgree, ThreadFits, Untouched
  <2>5. StaleOnlyWhileIndexed'
    BY <1>1, <1>2, <2>3 DEF StaleOnlyWhileIndexed, ThreadFits
  <2>6. UNCHANGED <<vectors, late>> /\ stale' \in BOOLEAN /\ uncertain' \in BOOLEAN
    BY <1>1, <2>3
  <2>7. QED
    BY <1>1, <1>2, <1>3, <2>1, <2>2, <2>3, <2>4, <2>5, <2>6, SectionLeft
<1>4. CASE Fault /\ Goto(t, "late_mark") /\ UNCHANGED <<lexical, stale>>
  <2> DEFINE n == [thread[t] EXCEPT !.pc = "late_mark"]
  <2>1. n \in Thread /\ n.pc = "late_mark"
    BY <1>1, GotoShape
  <2>2. thread' = [thread EXCEPT ![t] = n]
    BY <1>4 DEF Goto, IndexInv, TypesFit
  <2> HIDE DEF n
  <2>3. n.pc \notin Section /\ n.pc # "success" /\ faults' > 0
    BY <2>1, <1>4, FaultSteps DEF Section
  <2>4. IndexesAgree' /\ StaleOnlyWhileIndexed'
    BY <1>1, <1>4, <2>3 DEF IndexInv, IndexesAgree, StaleOnlyWhileIndexed
  <2>5. UNCHANGED <<vectors, late>> /\ stale' \in BOOLEAN /\ uncertain' \in BOOLEAN
        /\ lexical' = lexical
    BY <1>1, <1>4
  <2>6. QED
    BY <1>1, <1>2, <1>4, <2>1, <2>2, <2>3, <2>4, <2>5, SectionLeft
<1>5. QED
  BY <1>3, <1>4 DEF Rollback

LEMMA IndexingKept ==
    ASSUME IndexInv, NEW t \in Actors, Indexing(t)
    PROVE  IndexInv'
BY EnterIndexingKept, SnapshotSourceKept, MarkStaleKept, LoadSourceKept, AddVectorsKept,
   ReplaceLexicalKept, DeleteOtherVectorsKept, ClearStaleKept, DropVectorsKept,
   DropLexicalKept, CompensateKept, RollbackKept, MarkAfterFailureKept DEF Indexing

-----------------------------------------------------------------------------
(* Steps of the upload requests *)

LEMMA UploadShape ==
    ASSUME IndexInv, NEW u \in Uploads
    PROVE  /\ upload \in [Uploads -> Upload] /\ upload[u] \in Upload
           /\ upload[u].version \in Versions \cup {None}
           /\ upload[u].backup \in Versions \cup {None} /\ upload[u].cancelled \in BOOLEAN
           /\ thread \in [Actors -> Thread] /\ thread[u] \in Thread
           /\ UploadFits(upload[u], thread[u], file)
           /\ uploadLock = u <=> upload[u].pc # "idle"
BY ConstantTypes DEF IndexInv, TypesFit, LocksFit, UploadsFit, Upload

\* One request at a time is not idle.
LEMMA OthersIdle ==
    ASSUME IndexInv, NEW u \in Uploads, uploadLock \in {u, None}
    PROVE  \A v \in Uploads : v # u => upload[v].pc = "idle" /\ upload[v].backup = None
BY ConstantTypes DEF IndexInv, LocksFit, UploadsFit, UploadFits

LEMMA IdleShape ==
    Idle \in Upload /\ Idle.pc = "idle" /\ Idle.backup = None /\ Idle.version = None
BY DEF Idle, Upload

\* Request u goes to n, its thread to m.
LEMMA UploadStep ==
    ASSUME IndexInv, NEW u \in Uploads, NEW n \in Upload, NEW m \in Thread,
           upload' = [upload EXCEPT ![u] = n], thread' = [thread EXCEPT ![u] = m],
           UNCHANGED indexVars, UNCHANGED sourceLock, UNCHANGED faults,
           file' \in Versions \cup {None}, ready' \in Versions \cup {None},
           orphans' \subseteq Versions, cancels' \in 0..MaxTroubles,
           uploadLock \in {u, None}, uploadLock' = IF n.pc = "idle" THEN None ELSE u,
           \/ m = thread[u]
           \/ thread[u].pc \notin Section /\ m.pc \notin Section /\ m.pc # "late_mark",
           UploadFits(n, m, file'),
           Published(n, m) =>
               Published(upload[u], thread[u]) /\ n.version = upload[u].version,
           Safe(ready', file', orphans', upload')
    PROVE  IndexInv'
<1>1. /\ upload' \in [Uploads -> Upload] /\ upload'[u] = n
      /\ \A v \in Uploads : v # u => upload'[v] = upload[v]
  BY UploadShape
<1>2. /\ thread' \in [Actors -> Thread] /\ thread'[u] = m /\ u \in Actors
      /\ \A a \in Actors : a # u => thread'[a] = thread[a]
  BY UploadShape, ConstantTypes
<1>3. UNCHANGED <<lexical, stale, vectors, late, uncertain>>
  BY DEF indexVars
<1>4. TypesFit'
  <2>1. uploadLock' \in Uploads \cup {None}
    OBVIOUS
  <2>2. QED
    BY <1>1, <1>2, <1>3, <2>1 DEF IndexInv, TypesFit
<1>5. \A v \in Uploads : v # u => upload[v].pc = "idle" /\ upload[v].backup = None
  BY OthersIdle
<1>6. LocksFit'
  <2>1. \A v \in Uploads : uploadLock' = v <=> upload'[v].pc # "idle"
    BY <1>1, <1>5, ConstantTypes
  <2>2. ASSUME NEW a \in Actors PROVE sourceLock' = a <=> thread'[a].pc \in Section
    BY <1>2 DEF IndexInv, LocksFit
  <2>3. QED
    BY <2>1, <2>2 DEF LocksFit
<1>7. ThreadsFit'
  <2>1. ASSUME NEW a \in Actors
        PROVE  ThreadFits(thread'[a], lexical, vectors, stale, uncertain, faults)
    <3>1. ThreadFits(thread[a], lexical, vectors, stale, uncertain, faults)
      BY DEF IndexInv, ThreadsFit
    <3>2. CASE a # u \/ m = thread[u]
      BY <1>2, <3>1, <3>2
    <3>3. CASE a = u /\ m.pc \notin Section /\ m.pc # "late_mark"
      BY <1>2, <3>3, OutFits
    <3>4. QED
      BY <3>2, <3>3
  <2>2. QED
    BY <1>3, <2>1 DEF ThreadsFit
<1>8. UploadsFit'
  <2>1. ASSUME NEW v \in Uploads PROVE UploadFits(upload'[v], thread'[v], file')
    <3>1. CASE v = u
      BY <1>1, <1>2, <3>1
    <3>2. CASE v # u
      BY <1>1, <1>5, <3>2 DEF UploadFits
    <3>3. QED
      BY <3>1, <3>2
  <2>2. QED
    BY <2>1 DEF UploadsFit
<1>9. PublishedFit'
  <2>1. ASSUME NEW v \in Uploads, Published(upload'[v], thread'[v])
        PROVE  /\ lexical = Chunks[upload'[v].version]
               /\ \A a \in Actors : Keeps(thread'[a], Chunks[upload'[v].version])
    <3>1. v = u
      BY <1>1, <1>5, <2>1 DEF Published
    <3>2. Published(upload[u], thread[u]) /\ upload'[u].version = upload[u].version
      BY <1>1, <1>2, <2>1, <3>1
    <3>3. /\ lexical = Chunks[upload[u].version]
          /\ \A a \in Actors : Keeps(thread[a], Chunks[upload[u].version])
      BY <3>2 DEF IndexInv, PublishedFit
    <3>4. Keeps(m, Chunks[upload[u].version])
      BY <1>2, <3>3 DEF Keeps
    <3>5. \A a \in Actors : Keeps(thread'[a], Chunks[upload[u].version])
      BY <1>2, <3>3, <3>4
    <3>6. QED
      BY <3>1, <3>2, <3>3, <3>5
  <2>2. QED
    BY <1>3, <2>1 DEF PublishedFit
<1>10. IndexesAgree' /\ StaleOnlyWhileIndexed'
  BY <1>3 DEF IndexInv, IndexesAgree, StaleOnlyWhileIndexed
<1>11. QED
  BY <1>4, <1>6, <1>7, <1>8, <1>9, <1>10 DEF IndexInv

\* Where the version answered last is, while request u is going on.
LEMMA SafeCases ==
    ASSUME IndexInv, NEW u \in Uploads, uploadLock \in {u, None}
    PROVE  \/ ready = None \/ ready \in orphans
           \/ upload[u].backup = ready
           \/ file = ready /\ upload[u].pc # "index"
BY OthersIdle DEF IndexInv, Safe

\* Request u ends.
LEMMA LeaveStep ==
    ASSUME IndexInv, NEW u \in Uploads, upload[u].pc # "idle", Leave(u), indexUnchanged,
           file' \in Versions \cup {None}, orphans' \subseteq Versions, ready' = ready,
           cancels' \in 0..MaxTroubles,
           ready = None \/ ready \in orphans' \/ file' = ready
    PROVE  IndexInv'
<1> DEFINE m == IF thread[u].pc \in Outcomes THEN NoThread ELSE thread[u]
<1>1. upload' = [upload EXCEPT ![u] = Idle] /\ uploadLock' = None
  BY DEF Leave
<1>2. thread' = [thread EXCEPT ![u] = m]
  BY ConstantTypes, UploadShape DEF Leave
<1>3. m \in Thread
  BY UploadShape, NoThreadShape
<1>4. \/ m = thread[u]
      \/ thread[u].pc \notin Section /\ m.pc \notin Section /\ m.pc # "late_mark"
  BY NoThreadShape DEF Outcomes, Section
<1> HIDE DEF m
<1>5. uploadLock = u
  BY UploadShape
<1>6. UploadFits(Idle, m, file') /\ ~Published(Idle, m)
  BY IdleShape DEF UploadFits, Published
<1>7. Safe(ready', file', orphans', upload')
  <2>1. \A v \in Uploads : upload'[v].pc # "index"
    BY <1>1, <1>5, OthersIdle, UploadShape, IdleShape
  <2>2. QED
    BY <2>1 DEF Safe
<1>8. /\ UNCHANGED indexVars /\ UNCHANGED sourceLock /\ UNCHANGED faults
      /\ ready' \in Versions \cup {None}
  BY DEF indexUnchanged, IndexInv, TypesFit
<1>9. QED
  BY <1>1, <1>2, <1>3, <1>4, <1>5, <1>6, <1>7, <1>8, IdleShape, UploadStep

LEMMA CancelledTypes ==
    ASSUME IndexInv, Cancelled \/ UNCHANGED cancels
    PROVE  cancels' \in 0..MaxTroubles
BY ConstantTypes DEF IndexInv, TypesFit, Cancelled

LEMMA ReceiveUploadKept ==
    ASSUME IndexInv, NEW u \in Uploads, ReceiveUpload(u)
    PROVE  IndexInv'
<1>1. /\ upload[u].pc = "idle" /\ thread[u].pc = "none" /\ uploadLock = None /\ uploadLock' = u
      /\ UNCHANGED <<file, orphans, ready, cancels, thread>>
      /\ UNCHANGED indexVars /\ UNCHANGED sourceLock /\ UNCHANGED faults
  BY DEF ReceiveUpload, Doing, At, indexUnchanged
<1>2. PICK v \in Versions :
         upload' = [upload EXCEPT ![u] = [Idle EXCEPT !.version = v,
                       !.pc = IF file # None THEN "backup" ELSE "save"]]
  BY DEF ReceiveUpload
<1> DEFINE n == [Idle EXCEPT !.version = v, !.pc = IF file # None THEN "backup" ELSE "save"]
<1>3. /\ n \in Upload /\ n.version = v /\ n.backup = None
      /\ n.pc = IF file # None THEN "backup" ELSE "save"
  BY DEF Idle, Upload
<1>4. upload' = [upload EXCEPT ![u] = n]
  BY <1>2
<1> HIDE DEF n
<1>5. thread' = [thread EXCEPT ![u] = thread[u]] /\ thread[u] \in Thread
  BY <1>1, UploadShape
<1>6. UploadFits(n, thread[u], file') /\ ~Published(n, thread[u])
  BY <1>1, <1>3 DEF UploadFits, Published
<1>7. Safe(ready', file', orphans', upload')
  <2>1. \A w \in Uploads : upload'[w].pc # "index"
    BY <1>1, <1>3, <1>4, OthersIdle, UploadShape
  <2>2. upload[u].backup = None
    BY <1>1, UploadShape DEF UploadFits
  <2>3. QED
    BY <1>1, <2>1, <2>2, SafeCases DEF Safe
<1>8. /\ file' \in Versions \cup {None} /\ ready' \in Versions \cup {None}
      /\ orphans' \subseteq Versions /\ cancels' \in 0..MaxTroubles
  BY <1>1 DEF IndexInv, TypesFit
<1>9. uploadLock' = IF n.pc = "idle" THEN None ELSE u
  BY <1>1, <1>3
<1>10. QED
  BY <1>1, <1>3, <1>4, <1>5, <1>6, <1>7, <1>8, <1>9, UploadStep

LEMMA BackupFileKept ==
    ASSUME IndexInv, NEW u \in Uploads, BackupFile(u)
    PROVE  IndexInv'
<1>1. /\ upload[u].pc = "backup" /\ file' = None
      /\ UNCHANGED <<orphans, uploadLock, ready, cancels, thread>>
      /\ UNCHANGED indexVars /\ UNCHANGED sourceLock /\ UNCHANGED faults
      /\ file \in Versions \cup {None} /\ ready \in Versions \cup {None}
      /\ orphans \subseteq Versions /\ cancels \in 0..MaxTroubles
  BY DEF BackupFile, Doing, indexUnchanged, IndexInv, TypesFit
<1> DEFINE n == [upload[u] EXCEPT !.pc = "save", !.backup = file]
<1>2. /\ n \in Upload /\ n.version = upload[u].version /\ n.backup = file /\ n.pc = "save"
  BY <1>1, UploadShape DEF Upload
<1>3. upload' = [upload EXCEPT ![u] = n]
  BY DEF BackupFile
<1> HIDE DEF n
<1>4. thread' = [thread EXCEPT ![u] = thread[u]] /\ thread[u] \in Thread /\ uploadLock = u
  BY <1>1, UploadShape
<1>5. UploadFits(n, thread[u], file') /\ ~Published(n, thread[u]) /\ upload[u].backup = None
  BY <1>1, <1>2, UploadShape DEF UploadFits, Published
<1>6. Safe(ready', file', orphans', upload')
  <2>1. upload'[u].backup = file
    BY <1>2, <1>3, UploadShape
  <2>2. QED
    BY <1>1, <1>4, <1>5, <2>1, SafeCases DEF Safe
<1>7. uploadLock' = IF n.pc = "idle" THEN None ELSE u
  BY <1>1, <1>2, <1>4
<1>8. QED
  BY <1>1, <1>2, <1>3, <1>4, <1>5, <1>6, <1>7, UploadStep

LEMMA CancelBackupKept ==
    ASSUME IndexInv, NEW u \in Uploads, CancelBackup(u)
    PROVE  IndexInv'
<1>1. /\ upload[u].pc = "backup" /\ Leave(u) /\ indexUnchanged /\ ready' = ready /\ Cancelled
      /\ file \in Versions \cup {None} /\ orphans \subseteq Versions
      /\ \/ file' = None /\ orphans' = orphans \cup {file}
         \/ UNCHANGED <<file, orphans>>
  BY DEF CancelBackup, Doing, IndexInv, TypesFit
<1>2. cancels' \in 0..MaxTroubles
  BY <1>1, CancelledTypes
<1>3. file # None /\ upload[u].backup = None /\ uploadLock = u
  BY <1>1, UploadShape DEF UploadFits
<1>4. ready = None \/ ready \in orphans' \/ file' = ready
  BY <1>1, <1>3, SafeCases
<1>5. file' \in Versions \cup {None} /\ orphans' \subseteq Versions /\ upload[u].pc # "idle"
  BY <1>1, <1>3
<1>6. QED
  BY <1>1, <1>2, <1>4, <1>5, LeaveStep

LEMMA SaveFileKept ==
    ASSUME IndexInv, NEW u \in Uploads, SaveFile(u)
    PROVE  IndexInv'
<1>1. /\ upload[u].pc = "save" /\ file' = upload[u].version
      /\ UNCHANGED <<orphans, uploadLock, ready, cancels>>
      /\ UNCHANGED indexVars /\ UNCHANGED sourceLock /\ UNCHANGED faults
      /\ ready \in Versions \cup {None}
      /\ orphans \subseteq Versions /\ cancels \in 0..MaxTroubles
  BY DEF SaveFile, Doing, indexUnchanged, IndexInv, TypesFit
<1> DEFINE n == [upload[u] EXCEPT !.pc = "index"]
           m == [thread[u] EXCEPT !.pc = "enter"]
<1>2. /\ n \in Upload /\ n.version = upload[u].version /\ n.backup = upload[u].backup
      /\ n.pc = "index"
  BY UploadShape DEF Upload
<1>3. m \in Thread /\ m.pc = "enter"
  BY UploadShape DEF Thread
<1>4. upload' = [upload EXCEPT ![u] = n] /\ thread' = [thread EXCEPT ![u] = m]
  BY UploadShape, ConstantTypes DEF SaveFile
<1> HIDE DEF n, m
<1>5. file = None /\ upload[u].version \in Versions /\ thread[u].pc = "none" /\ uploadLock = u
  BY <1>1, UploadShape DEF UploadFits
<1>6. UploadFits(n, m, file') /\ ~Published(n, m)
  BY <1>1, <1>2, <1>3, <1>5 DEF UploadFits, Published, Loaded
<1>7. Safe(ready', file', orphans', upload')
  <2>1. upload'[u].backup = upload[u].backup
    BY <1>2, <1>4, UploadShape
  <2>2. QED
    BY <1>1, <1>5, <2>1, SafeCases DEF Safe
<1>8. /\ uploadLock' = IF n.pc = "idle" THEN None ELSE u
      /\ thread[u].pc \notin Section /\ m.pc \notin Section /\ m.pc # "late_mark"
      /\ file' \in Versions \cup {None}
  BY <1>1, <1>2, <1>3, <1>5 DEF Section
<1>9. QED
  BY <1>1, <1>2, <1>3, <1>4, <1>5, <1>6, <1>7, <1>8, UploadStep

LEMMA RejectFileKept ==
    ASSUME IndexInv, NEW u \in Uploads, RejectFile(u)
    PROVE  IndexInv'
<1>1. /\ upload[u].pc = "save" /\ Leave(u) /\ indexUnchanged /\ ready' = ready
      /\ orphans' = orphans /\ file' = upload[u].backup /\ UNCHANGED cancels
      /\ orphans \subseteq Versions
  BY DEF RejectFile, Doing, restored, IndexInv, TypesFit
<1>2. cancels' \in 0..MaxTroubles
  BY <1>1, CancelledTypes
<1>3. file = None /\ uploadLock = u /\ file' \in Versions \cup {None} /\ upload[u].pc # "idle"
  BY <1>1, UploadShape DEF UploadFits
<1>4. ready = None \/ ready \in orphans' \/ file' = ready
  BY <1>1, <1>3, SafeCases
<1>5. QED
  BY <1>1, <1>2, <1>3, <1>4, LeaveStep

LEMMA CancelSaveKept ==
    ASSUME IndexInv, NEW u \in Uploads, CancelSave(u)
    PROVE  IndexInv'
<1>1. /\ upload[u].pc = "save" /\ Leave(u) /\ indexUnchanged /\ ready' = ready
      /\ orphans' = orphans /\ Cancelled
      /\ \/ file' = upload[u].backup
         \/ upload[u].backup = None /\ file' = upload[u].version
      /\ orphans \subseteq Versions
  BY DEF CancelSave, Doing, restored, IndexInv, TypesFit
<1>2. cancels' \in 0..MaxTroubles
  BY <1>1, CancelledTypes
<1>3. file = None /\ uploadLock = u /\ file' \in Versions \cup {None} /\ upload[u].pc # "idle"
  BY <1>1, UploadShape DEF UploadFits
<1>4. ready = None \/ ready \in orphans' \/ file' = ready
  BY <1>1, <1>3, SafeCases
<1>5. QED
  BY <1>1, <1>2, <1>3, <1>4, LeaveStep

LEMMA UploadReadyKept ==
    ASSUME IndexInv, NEW u \in Uploads, UploadReady(u)
    PROVE  IndexInv'
<1>1. /\ upload[u].pc = "index" /\ thread[u].pc = "success"
      /\ ready' = upload[u].version
      /\ UNCHANGED <<file, orphans, uploadLock, cancels, thread>>
      /\ UNCHANGED indexVars /\ UNCHANGED sourceLock /\ UNCHANGED faults
      /\ file \in Versions \cup {None}
      /\ orphans \subseteq Versions /\ cancels \in 0..MaxTroubles
  BY DEF UploadReady, Doing, At, indexUnchanged, IndexInv, TypesFit
<1> DEFINE n == [upload[u] EXCEPT !.pc = "ready", !.backup = None]
<1>2. /\ n \in Upload /\ n.version = upload[u].version /\ n.backup = None /\ n.pc = "ready"
  BY UploadShape DEF Upload
<1>3. upload' = [upload EXCEPT ![u] = n]
  BY DEF UploadReady
<1> HIDE DEF n
<1>4. /\ thread' = [thread EXCEPT ![u] = thread[u]] /\ thread[u] \in Thread /\ uploadLock = u
      /\ upload[u].version \in Versions /\ file = upload[u].version
  BY <1>1, UploadShape DEF UploadFits
<1>5. UploadFits(n, thread[u], file') /\ Published(upload[u], thread[u])
  BY <1>1, <1>2, <1>4 DEF UploadFits, Published
<1>6. Safe(ready', file', orphans', upload')
  <2>1. \A v \in Uploads : upload'[v].pc # "index"
    BY <1>2, <1>3, <1>4, OthersIdle, UploadShape
  <2>2. QED
    BY <1>1, <1>4, <2>1 DEF Safe
<1>7. uploadLock' = IF n.pc = "idle" THEN None ELSE u
  BY <1>1, <1>2, <1>4
<1>8. QED
  BY <1>1, <1>2, <1>3, <1>4, <1>5, <1>6, <1>7, UploadStep

LEMMA AnswerReadyKept ==
    ASSUME IndexInv, NEW u \in Uploads, AnswerReady(u)
    PROVE  IndexInv'
<1>1. /\ upload[u].pc = "ready" /\ Leave(u) /\ indexUnchanged /\ ready' = ready
      /\ orphans' = orphans /\ file' = file /\ UNCHANGED cancels
      /\ orphans \subseteq Versions /\ file \in Versions \cup {None}
  BY DEF AnswerReady, Doing, IndexInv, TypesFit
<1>2. cancels' \in 0..MaxTroubles
  BY <1>1, CancelledTypes
<1>3. upload[u].backup = None /\ uploadLock = u /\ upload[u].pc # "idle"
  BY <1>1, UploadShape DEF UploadFits
<1>4. ready = None \/ ready \in orphans' \/ file' = ready
  BY <1>1, <1>3, SafeCases
<1>5. QED
  BY <1>1, <1>2, <1>3, <1>4, LeaveStep

LEMMA AnswerPartialKept ==
    ASSUME IndexInv, NEW u \in Uploads, AnswerPartial(u)
    PROVE  IndexInv'
<1>1. /\ upload[u].pc = "index" /\ Leave(u) /\ indexUnchanged /\ ready' = ready
      /\ orphans' = orphans /\ UNCHANGED cancels
      /\ file' = IF upload[u].backup # None THEN upload[u].backup ELSE file
      /\ orphans \subseteq Versions /\ file \in Versions \cup {None}
  BY DEF AnswerPartial, Doing, restored, IndexInv, TypesFit
<1>2. cancels' \in 0..MaxTroubles
  BY <1>1, CancelledTypes
<1>3. uploadLock = u /\ file' \in Versions \cup {None} /\ upload[u].pc # "idle"
  BY <1>1, UploadShape
<1>4. ready = None \/ ready \in orphans' \/ file' = ready
  BY <1>1, <1>3, SafeCases
<1>5. QED
  BY <1>1, <1>2, <1>3, <1>4, LeaveStep

LEMMA CancelIndexKept ==
    ASSUME IndexInv, NEW u \in Uploads, CancelIndex(u)
    PROVE  IndexInv'
<1>1. /\ upload[u].pc = "index" /\ Cancelled
      /\ UNCHANGED <<file, orphans, uploadLock, ready, thread>>
      /\ UNCHANGED indexVars /\ UNCHANGED sourceLock /\ UNCHANGED faults
      /\ file \in Versions \cup {None} /\ ready \in Versions \cup {None}
      /\ orphans \subseteq Versions
  BY DEF CancelIndex, Doing, indexUnchanged, IndexInv, TypesFit
<1>2. cancels' \in 0..MaxTroubles
  BY <1>1, CancelledTypes
<1> DEFINE n == [upload[u] EXCEPT !.cancelled = TRUE]
<1>3. /\ n \in Upload /\ n.version = upload[u].version /\ n.backup = upload[u].backup
      /\ n.pc = upload[u].pc
  BY UploadShape DEF Upload
<1>4. upload' = [upload EXCEPT ![u] = n]
  BY UploadShape DEF CancelIndex
<1> HIDE DEF n
<1>5. thread' = [thread EXCEPT ![u] = thread[u]] /\ thread[u] \in Thread /\ uploadLock = u
  BY <1>1, UploadShape
<1>6. /\ UploadFits(n, thread[u], file')
      /\ Published(n, thread[u]) => Published(upload[u], thread[u])
  BY <1>1, <1>3, UploadShape DEF UploadFits, Published
<1>7. Safe(ready', file', orphans', upload')
  <2>1. \A v \in Uploads : upload'[v].backup = upload[v].backup /\ upload'[v].pc = upload[v].pc
    BY <1>3, <1>4, UploadShape
  <2>2. QED
    BY <1>1, <2>1 DEF IndexInv, Safe
<1>8. uploadLock' = IF n.pc = "idle" THEN None ELSE u
  BY <1>1, <1>3, <1>5
<1>9. QED
  BY <1>1, <1>2, <1>3, <1>4, <1>5, <1>6, <1>7, <1>8, UploadStep

LEMMA UndoUploadKept ==
    ASSUME IndexInv, NEW u \in Uploads, UndoUpload(u)
    PROVE  IndexInv'
<1>1. /\ upload[u].pc = "index" /\ Leave(u) /\ indexUnchanged /\ ready' = ready
      /\ orphans' = orphans /\ (Cancelled \/ UNCHANGED cancels)
      /\ file' = upload[u].backup
      /\ orphans \subseteq Versions
  BY DEF UndoUpload, Doing, restored, IndexInv, TypesFit
<1>2. cancels' \in 0..MaxTroubles
  BY <1>1, CancelledTypes
<1>3. uploadLock = u /\ file' \in Versions \cup {None} /\ upload[u].pc # "idle"
  BY <1>1, UploadShape
<1>4. ready = None \/ ready \in orphans' \/ file' = ready
  BY <1>1, <1>3, SafeCases
<1>5. QED
  BY <1>1, <1>2, <1>3, <1>4, LeaveStep

-----------------------------------------------------------------------------
(* Crashes, late vectors, and the theorems *)

\* A process that dies leaves what it had not finished to the backups and the stale mark.
LEMMA CrashKept ==
    ASSUME IndexInv, NEW a \in Actors, Crash(a)
    PROVE  IndexInv'
<1>1. /\ Fault /\ thread' = [thread EXCEPT ![a] = NoThread]
      /\ sourceLock' = IF sourceLock = a THEN None ELSE sourceLock
      /\ uploadLock' = IF uploadLock = a THEN None ELSE uploadLock
      /\ UNCHANGED <<lexical, stale, vectors, late, uncertain>>
      /\ UNCHANGED <<file, ready, cancels>>
  BY DEF Crash, indexVars
<1>2. /\ thread \in [Actors -> Thread] /\ upload \in [Uploads -> Upload]
      /\ orphans \subseteq Versions
  BY DEF IndexInv, TypesFit
<1>3. faults' \in 0..MaxTroubles /\ faults' > 0
  BY <1>1, FaultSteps
<1>4. /\ thread' \in [Actors -> Thread] /\ thread'[a] = NoThread
      /\ \A b \in Actors : b # a => thread'[b] = thread[b]
  BY <1>1, <1>2, NoThreadShape
<1>5. /\ upload' \in [Uploads -> Upload]
      /\ \A v \in Uploads : v # a => upload'[v] = upload[v]
      /\ a \in Uploads => upload'[a] = Idle
  <2>1. CASE a \in Uploads
    BY <1>2, <2>1, IdleShape DEF Crash
  <2>2. CASE a \notin Uploads
    BY <1>2, <2>2 DEF Crash
  <2>3. QED
    BY <2>1, <2>2
<1>6. /\ orphans' \subseteq Versions /\ orphans \subseteq orphans'
      /\ a \in Uploads /\ upload[a].backup # None => upload[a].backup \in orphans'
  <2>1. CASE a \in Uploads
    <3>1. upload[a].backup \in Versions \cup {None}
      BY <2>1, UploadShape
    <3>2. orphans' = orphans \cup ({upload[a].backup} \ {None})
      BY <2>1 DEF Crash, Leaves
    <3>3. QED
      BY <1>2, <3>1, <3>2
  <2>2. CASE a \notin Uploads
    BY <1>2, <2>2 DEF Crash
  <2>3. QED
    BY <2>1, <2>2
<1>7. TypesFit'
  BY <1>1, <1>3, <1>4, <1>5, <1>6 DEF IndexInv, TypesFit
<1>8. LocksFit'
  <2>1. ASSUME NEW v \in Uploads PROVE uploadLock' = v <=> upload'[v].pc # "idle"
    <3>1. uploadLock = v <=> upload[v].pc # "idle"
      BY UploadShape
    <3>2. CASE v = a
      BY <1>1, <1>5, <3>2, IdleShape, ConstantTypes
    <3>3. CASE v # a
      BY <1>1, <1>5, <3>1, <3>3, ConstantTypes
    <3>4. QED
      BY <3>2, <3>3
  <2>2. ASSUME NEW b \in Actors PROVE sourceLock' = b <=> thread'[b].pc \in Section
    <3>1. sourceLock = b <=> thread[b].pc \in Section
      BY ThreadShape
    <3>2. CASE b = a
      BY <1>1, <1>4, <3>2, NoThreadShape, ConstantTypes DEF Section
    <3>3. CASE b # a
      BY <1>1, <1>4, <3>1, <3>3, ConstantTypes
    <3>4. QED
      BY <3>2, <3>3
  <2>3. QED
    BY <2>1, <2>2 DEF LocksFit
<1>9. ThreadsFit'
  <2>1. ASSUME NEW b \in Actors
        PROVE  ThreadFits(thread'[b], lexical, vectors, stale, uncertain, faults')
    <3>1. CASE b = a
      BY <1>4, <3>1, NoThreadShape, OutFits DEF Section
    <3>2. CASE b # a
      <4>1. /\ thread'[b] = thread[b]
            /\ ThreadFits(thread[b], lexical, vectors, stale, uncertain, faults)
        BY <1>4, <3>2, ThreadShape
      <4>2. QED
        BY <1>3, <4>1 DEF ThreadFits
    <3>3. QED
      BY <3>1, <3>2
  <2>2. QED
    BY <1>1, <2>1 DEF ThreadsFit
<1>10. UploadsFit'
  <2>1. ASSUME NEW v \in Uploads PROVE UploadFits(upload'[v], thread'[v], file)
    <3>1. CASE v = a
      BY <1>5, <3>1, IdleShape DEF UploadFits
    <3>2. CASE v # a
      BY <1>4, <1>5, <3>2, UploadShape, ConstantTypes
    <3>3. QED
      BY <3>1, <3>2
  <2>2. QED
    BY <1>1, <2>1 DEF UploadsFit
<1>11. PublishedFit'
  <2>1. ASSUME NEW v \in Uploads, Published(upload'[v], thread'[v])
        PROVE  /\ lexical = Chunks[upload'[v].version]
               /\ \A b \in Actors : Keeps(thread'[b], Chunks[upload'[v].version])
    <3>1. v # a
      BY <1>5, <2>1, IdleShape DEF Published
    <3>2. upload'[v] = upload[v] /\ thread'[v] = thread[v]
      BY <1>4, <1>5, <3>1, ConstantTypes
    <3>3. /\ lexical = Chunks[upload[v].version]
          /\ \A b \in Actors : Keeps(thread[b], Chunks[upload[v].version])
      BY <2>1, <3>2 DEF IndexInv, PublishedFit
    <3>4. Keeps(NoThread, Chunks[upload[v].version])
      BY NoThreadShape DEF Keeps, Section
    <3>5. QED
      BY <1>4, <3>2, <3>3, <3>4
  <2>2. QED
    BY <1>1, <2>1 DEF PublishedFit
<1>12. Safe(ready', file', orphans', upload')
  <2>1. CASE ready = None \/ ready \in orphans
    BY <1>1, <1>6, <2>1 DEF Safe
  <2>2. CASE ready # None /\ \E v \in Uploads : upload[v].backup = ready
    BY <1>1, <1>5, <1>6, <2>2 DEF Safe
  <2>3. CASE file = ready /\ \A v \in Uploads : upload[v].pc # "index"
    <3>1. \A v \in Uploads : upload'[v].pc # "index"
      BY <1>5, <2>3, IdleShape
    <3>2. QED
      BY <1>1, <2>3, <3>1 DEF Safe
  <2>4. QED
    BY <2>1, <2>2, <2>3 DEF IndexInv, Safe
<1>13. IndexesAgree' /\ StaleOnlyWhileIndexed'
  BY <1>1, <1>3 DEF IndexInv, IndexesAgree, StaleOnlyWhileIndexed
<1>14. QED
  BY <1>7, <1>8, <1>9, <1>10, <1>11, <1>12, <1>13 DEF IndexInv

LEMMA LateVectorsKept ==
    ASSUME IndexInv, LateVectors
    PROVE  IndexInv'
<1>1. /\ vectors' = vectors \cup late /\ late' = {} /\ uncertain' = TRUE
      /\ UNCHANGED <<lexical, stale, sourceLock, thread, faults>>
      /\ UNCHANGED <<file, orphans, uploadLock, upload, ready, cancels>>
  BY DEF LateVectors, fileVars
<1>2. TypesFit' /\ LocksFit' /\ UploadsFit' /\ PublishedFit'
  BY <1>1 DEF IndexInv, TypesFit, LocksFit, UploadsFit, PublishedFit
<1>3. Safe(ready', file', orphans', upload')
  BY <1>1 DEF IndexInv, Safe
<1>4. ThreadsFit'
  BY <1>1 DEF IndexInv, ThreadsFit, ThreadFits
<1>5. IndexesAgree' /\ StaleOnlyWhileIndexed'
  BY <1>1 DEF IndexInv, IndexesAgree, StaleOnlyWhileIndexed
<1>6. QED
  BY <1>2, <1>3, <1>4, <1>5 DEF IndexInv

LEMMA IndexInvInit == Init => IndexInv
<1>1. SUFFICES ASSUME Init PROVE IndexInv
  OBVIOUS
<1>2. /\ \A u \in Uploads : upload[u] = Idle
      /\ \A a \in Actors : thread[a] = NoThread
  BY <1>1, ConstantTypes DEF Init
<1>3. TypesFit
  <2>1. upload \in [Uploads -> Upload] /\ thread \in [Actors -> Thread]
    BY <1>1, IdleShape, NoThreadShape DEF Init
  <2>2. faults \in 0..MaxTroubles /\ cancels \in 0..MaxTroubles
    BY <1>1, ConstantTypes DEF Init
  <2>3. QED
    BY <1>1, <2>1, <2>2 DEF Init, TypesFit
<1>4. LocksFit
  BY <1>1, <1>2, ConstantTypes, IdleShape, NoThreadShape DEF Init, LocksFit, Section
<1>5. ThreadsFit
  BY <1>2, NoThreadShape, OutFits DEF ThreadsFit, Section
<1>6. UploadsFit /\ PublishedFit
  BY <1>2, IdleShape DEF UploadsFit, UploadFits, PublishedFit, Published
<1>7. Safe(ready, file, orphans, upload) /\ IndexesAgree /\ StaleOnlyWhileIndexed
  BY <1>1 DEF Init, Safe, IndexesAgree, StaleOnlyWhileIndexed
<1>8. QED
  BY <1>3, <1>4, <1>5, <1>6, <1>7 DEF IndexInv

LEMMA IndexInvStep == IndexInv /\ [Next]_publishVars => IndexInv'
<1>1. SUFFICES ASSUME IndexInv, [Next]_publishVars PROVE IndexInv'
  OBVIOUS
<1>2. CASE UNCHANGED publishVars
  BY <1>1, <1>2 DEF publishVars, IndexInv, TypesFit, LocksFit, ThreadsFit, UploadsFit,
     PublishedFit, IndexesAgree, StaleOnlyWhileIndexed
<1>3. ASSUME NEW a \in Actors, Indexing(a) \/ StartDirectory(a) \/ Crash(a) PROVE IndexInv'
  BY <1>1, <1>3, IndexingKept, StartDirectoryKept, CrashKept
<1>4. ASSUME NEW u \in Uploads,
             \/ ReceiveUpload(u) \/ BackupFile(u) \/ CancelBackup(u)
             \/ SaveFile(u) \/ RejectFile(u) \/ CancelSave(u)
             \/ UploadReady(u) \/ AnswerReady(u) \/ AnswerPartial(u)
             \/ CancelIndex(u) \/ UndoUpload(u)
      PROVE  IndexInv'
  BY <1>1, <1>4, ReceiveUploadKept, BackupFileKept, CancelBackupKept, SaveFileKept,
     RejectFileKept, CancelSaveKept, UploadReadyKept, AnswerReadyKept, AnswerPartialKept,
     CancelIndexKept, UndoUploadKept
<1>5. CASE LateVectors
  BY <1>1, <1>5, LateVectorsKept
<1>6. QED
  BY <1>1, <1>2, <1>3, <1>4, <1>5 DEF Next

LEMMA IndexInvHolds == PublishSpec => []IndexInv
BY IndexInvInit, IndexInvStep, PTL DEF PublishSpec

\* A source that retrieval may use has the same chunks in both indexes, unless a step failed
\* after the vectors were touched and nothing was published since (the stale mark).
THEOREM IndexesAgreeHolds == PublishSpec => []IndexesAgree
<1>1. IndexInv => IndexesAgree
  BY DEF IndexInv
<1>2. QED
  BY <1>1, IndexInvHolds, PTL

\* An upload that is about to be answered as ready is what the directory and the lexical
\* index hold (the upload lock, the source lock); the types and the locks with it.
THEOREM ReadyIsIndexedHolds == PublishSpec => []ReadyIsIndexed
<1>1. ASSUME IndexInv PROVE ReadyIsIndexed
  <2>1. ASSUME NEW u \in Uploads, Doing(u, "ready")
        PROVE  file = upload[u].version /\ lexical = Chunks[upload[u].version]
    BY <1>1, <2>1, UploadShape DEF Doing, UploadFits, IndexInv, PublishedFit, Published
  <2>2. \A u \in Uploads : uploadLock = u <=> ~Doing(u, "idle")
    BY <1>1 DEF IndexInv, LocksFit, Doing
  <2>3. \A a \in Actors :
           sourceLock = a
               <=> thread[a].pc \notin {"none", "enter", "lock", "late_mark"} \cup Outcomes
    BY <1>1, ThreadShape, SectionIs
  <2>4. PublishTypeOK
    BY <1>1, <2>2, <2>3 DEF IndexInv, TypesFit, PublishTypeOK
  <2>5. QED
    BY <2>1, <2>4 DEF ReadyIsIndexed
<1>2. QED
  BY <1>1, IndexInvHolds, PTL

\* The version last answered as ready is never lost: it is the file, or a backup of it is in
\* the directory (the backup beside the file, _restore_upload_backup).
THEOREM ReadyVersionKeptHolds == PublishSpec => []ReadyVersionKept
<1>1. IndexInv => ReadyVersionKept
  BY DEF IndexInv, Safe, ReadyVersionKept
<1>2. QED
  BY <1>1, IndexInvHolds, PTL

\* Without a failure the source is marked stale only while it is indexed
\* (restore_source_state, clear_source_stale).
THEOREM StaleOnlyWhileIndexedHolds == PublishSpec => []StaleOnlyWhileIndexed
<1>1. IndexInv => StaleOnlyWhileIndexed
  BY DEF IndexInv
<1>2. QED
  BY <1>1, IndexInvHolds, PTL
=============================================================================
