----------------------------- MODULE CoresProofs -----------------------------
(***************************************************************************)
(* The safety of Cores, for any batches and any calls of get(), and the    *)
(* types of Fetch, which goes on from it.                                  *)
(*                                                                         *)
(* As long as the drive is open, nobody is hurt by closing because every   *)
(* closer only reaches what is its own: a timer reaches sessions of get(), *)
(* a flush the session its batch has under _blobs.  The end of the drive   *)
(* closes everything.  The parts of the invariant say who may be where.    *)
(***************************************************************************)
EXTENDS Fetch, TLAPS

Own == {"writable", "getBlobs"} \X Objects
Got == {"get"} \X Gets

\* Where each session may be found.
Placed ==
    /\ writable \in BOOLEAN
    /\ life \in [Objects -> {"none", "opening", "open", "flushed", "closed"}]
    /\ blobs \in [Objects -> CoreSessions \cup {None}]
    /\ open \subseteq CoreSessions
    /\ fetching \in [Gets -> Sources \cup {"none"}]
    /\ creating \subseteq Own /\ (life[Main] = "open" => creating \subseteq open)
    /\ pool \in [Sources -> [session : Own \cup Got, timed : BOOLEAN] \cup {None}]

\* The pool times out what get() opened, and nothing else.
PoolTimes ==
    \A s \in Sources :
        pool[s] # None => (pool[s].timed <=> pool[s].session \in Got)

\* An object's blobs were opened for that object, and for good.
BlobsAreOwn ==
    \A o \in Objects :
        blobs[o] # None => /\ blobs[o] \in {"writable", "getBlobs", "open"} \X {o}
                           /\ blobs[o] \notin creating

\* What the pool has is no longer being created.
PoolIsCreated == \A s \in Sources : pool[s] # None => pool[s].session \notin creating

\* getBlobs() opens one session of an object, ever.
AskedOnce ==
    \A o \in Objects :
        LET c == <<"getBlobs", o>>
            pooled == \E s \in Sources : pool[s] # None /\ pool[s].session = c
        IN  /\ c \in creating \/ pooled => life[o] \notin {"none", "opening"}
            /\ pooled => blobs[o] # None

\* The writable handler runs once.
HandledOnce ==
    ~writable =>
        \A o \in Objects :
            LET c == <<"writable", o>>
            IN  c \notin open \cup creating /\ \A s \in Sources : pool[s] # None => pool[s].session # c

\* The main drive is never opened again, and never was unopened.
MainIsOpen == life[Main] \in {"open", "closed"}

CoresInv ==
    /\ Placed /\ PoolTimes /\ BlobsAreOwn /\ PoolIsCreated
    /\ AskedOnce /\ HandledOnce /\ MainIsOpen
    /\ MainBlobsStayOpen /\ BatchKeepsItsBlobs

-----------------------------------------------------------------------------
(***************************************************************************)
(* Every action, one conjunct at a time.                                   *)
(***************************************************************************)
LEMMA TimeOutInv ==
    ASSUME CoresInv, NEW s \in Sources, TimeOut(s)
    PROVE  CoresInv'
<1>1. Placed'
  <2>1. creating \subseteq Own /\ pool[s].session \in Got
    BY DEF CoresInv, Placed, PoolTimes, TimeOut
  <2>2. pool[s].session \notin creating
    BY <2>1 DEF Own, Got
  <2> QED
    BY <2>2 DEF CoresInv, Placed, TimeOut
<1>2. PoolTimes'
  BY DEF CoresInv, PoolTimes, TimeOut
<1>3. BlobsAreOwn'
  BY DEF CoresInv, BlobsAreOwn, TimeOut
<1>4. PoolIsCreated'
  BY DEF CoresInv, PoolIsCreated, TimeOut
<1>5. AskedOnce'
  BY DEF CoresInv, AskedOnce, Placed, TimeOut
<1>6. HandledOnce'
  BY DEF CoresInv, HandledOnce, Placed, TimeOut
<1>7. MainIsOpen'
  BY DEF CoresInv, MainIsOpen, TimeOut
<1>8. MainBlobsStayOpen'
  BY DEF CoresInv, MainBlobsStayOpen, Got, Objects, BlobsAreOwn, PoolTimes,
         TimeOut, Usable
<1>9. BatchKeepsItsBlobs'
  BY DEF CoresInv, BatchKeepsItsBlobs, Got, Objects, BlobsAreOwn, PoolTimes,
         TimeOut, Usable
<1> QED
  BY <1>1, <1>2, <1>3, <1>4, <1>5, <1>6, <1>7, <1>8, <1>9 DEF CoresInv

LEMMA GetCoreInv ==
    ASSUME CoresInv, NEW g \in Gets, NEW s \in Sources, GetCore(g, s)
    PROVE  CoresInv'
<1>1. Placed'
  BY DEF CoresInv, Placed, CoreSessions, GetCore, Session
<1>2. PoolTimes'
  BY DEF CoresInv, PoolTimes, GetCore
<1>3. BlobsAreOwn'
  BY DEF CoresInv, BlobsAreOwn, GetCore
<1>4. PoolIsCreated'
  BY DEF CoresInv, PoolIsCreated, GetCore
<1>5. AskedOnce'
  BY DEF CoresInv, AskedOnce, GetCore
<1>6. HandledOnce'
  BY DEF CoresInv, HandledOnce, GetCore, Session
<1>7. MainIsOpen'
  BY DEF CoresInv, MainIsOpen, GetCore
<1>8. MainBlobsStayOpen'
  BY DEF CoresInv, MainBlobsStayOpen, GetCore, Usable
<1>9. BatchKeepsItsBlobs'
  BY DEF CoresInv, BatchKeepsItsBlobs, GetCore, Usable
<1> QED
  BY <1>1, <1>2, <1>3, <1>4, <1>5, <1>6, <1>7, <1>8, <1>9 DEF CoresInv

LEMMA GotCoreInv ==
    ASSUME CoresInv, NEW g \in Gets, GotCore(g)
    PROVE  CoresInv'
<1>0. fetching[g] \in Sources
  BY DEF CoresInv, Placed, GotCore
<1>1. Placed'
  BY <1>0 DEF CoresInv, Placed, Got, GotCore, Linger, Session
<1>2. PoolTimes'
  BY <1>0 DEF CoresInv, PoolTimes, Placed, Got, GotCore, Linger, Session
<1>3. BlobsAreOwn'
  BY DEF CoresInv, BlobsAreOwn, GotCore
<1>4. PoolIsCreated'
  BY <1>0 DEF CoresInv, PoolIsCreated, Placed, Own, GotCore, Linger, Session
<1>5. AskedOnce'
  BY <1>0 DEF CoresInv, AskedOnce, Placed, GotCore, Linger, Session
<1>6. HandledOnce'
  BY <1>0 DEF CoresInv, HandledOnce, Placed, GotCore, Linger, Session
<1>7. MainIsOpen'
  BY DEF CoresInv, MainIsOpen, GotCore
<1>8. MainBlobsStayOpen'
  BY DEF CoresInv, MainBlobsStayOpen, GotCore, Usable
<1>9. BatchKeepsItsBlobs'
  BY DEF CoresInv, BatchKeepsItsBlobs, GotCore, Usable
<1> QED
  BY <1>1, <1>2, <1>3, <1>4, <1>5, <1>6, <1>7, <1>8, <1>9 DEF CoresInv

\* What fails with the end of the drive leaves nothing behind.
LEMMA LostInv ==
    ASSUME CoresInv,
           (\E g \in Gets : LostCore(g)) \/ (\E c \in CoreSessions : NotCreated(c))
    PROVE  CoresInv'
<1>1. /\ creating' \subseteq creating
      /\ UNCHANGED <<writable, life, blobs, open, pool>>
      /\ fetching' \in [Gets -> Sources \cup {"none"}]
  BY DEF CoresInv, Placed, LostCore, NotCreated
<1>2. Placed' /\ PoolTimes' /\ BlobsAreOwn' /\ PoolIsCreated'
  BY <1>1 DEF CoresInv, Placed, PoolTimes, BlobsAreOwn, PoolIsCreated
<1>3. AskedOnce'
  BY <1>1 DEF CoresInv, AskedOnce
<1>4. HandledOnce' /\ MainIsOpen' /\ MainBlobsStayOpen' /\ BatchKeepsItsBlobs'
  BY <1>1 DEF CoresInv, HandledOnce, MainIsOpen, MainBlobsStayOpen, BatchKeepsItsBlobs, Usable
<1> QED
  BY <1>2, <1>3, <1>4 DEF CoresInv

LEMMA BecomeWritableInv ==
    ASSUME CoresInv, BecomeWritable
    PROVE  CoresInv'
<1>1. Placed'
  BY DEF CoresInv, Placed, Own, CoreSessions, BecomeWritable, Create
<1>2. PoolTimes'
  BY DEF CoresInv, PoolTimes, BecomeWritable
<1>3. BlobsAreOwn'
  BY DEF CoresInv, BlobsAreOwn, BecomeWritable, Create
<1>4. PoolIsCreated'
  BY DEF CoresInv, PoolIsCreated, BecomeWritable, Create, HandledOnce
<1>5. AskedOnce'
  BY DEF CoresInv, AskedOnce, BecomeWritable, Create
<1>6. HandledOnce'
  BY DEF CoresInv, HandledOnce, BecomeWritable
<1>7. MainIsOpen'
  BY DEF CoresInv, MainIsOpen, BecomeWritable
<1>8. MainBlobsStayOpen'
  BY DEF CoresInv, MainBlobsStayOpen, BecomeWritable, Create, Usable
<1>9. BatchKeepsItsBlobs'
  BY DEF CoresInv, BatchKeepsItsBlobs, BecomeWritable, Create, Usable
<1> QED
  BY <1>1, <1>2, <1>3, <1>4, <1>5, <1>6, <1>7, <1>8, <1>9 DEF CoresInv

LEMMA GetBlobsInv ==
    ASSUME CoresInv, NEW o \in Objects, GetBlobs(o)
    PROVE  CoresInv'
<1>1. Placed'
  BY DEF CoresInv, Placed, Own, CoreSessions, Create, GetBlobs
<1>2. PoolTimes'
  BY DEF CoresInv, PoolTimes, GetBlobs
<1>3. BlobsAreOwn'
  BY DEF CoresInv, BlobsAreOwn, Create, GetBlobs
<1>4. PoolIsCreated'
  BY DEF CoresInv, PoolIsCreated, AskedOnce, Create, GetBlobs
<1>5. AskedOnce'
  BY DEF CoresInv, AskedOnce, Create, GetBlobs
<1>6. HandledOnce'
  BY DEF CoresInv, HandledOnce, Create, GetBlobs
<1>7. MainIsOpen'
  BY DEF CoresInv, MainIsOpen, GetBlobs
<1>8. MainBlobsStayOpen'
  BY DEF CoresInv, MainBlobsStayOpen, Create, GetBlobs, Usable
<1>9. BatchKeepsItsBlobs'
  BY DEF CoresInv, BatchKeepsItsBlobs, Create, GetBlobs, Usable
<1> QED
  BY <1>1, <1>2, <1>3, <1>4, <1>5, <1>6, <1>7, <1>8, <1>9 DEF CoresInv

LEMMA CreatedInv ==
    ASSUME CoresInv, NEW c \in CoreSessions, Created(c)
    PROVE  CoresInv'
<1>1. Placed'
  BY DEF CoresInv, Placed, Created, Linger
<1>2. PoolTimes'
  BY DEF CoresInv, PoolTimes, Got, Own, Placed, Created, Linger
<1>3. BlobsAreOwn'
  BY DEF CoresInv, BlobsAreOwn, Own, Placed, Created
<1>4. PoolIsCreated'
  BY DEF CoresInv, PoolIsCreated, Created, Linger
<1>5. AskedOnce'
  <2> SUFFICES ASSUME NEW o \in Objects
               PROVE  LET a == <<"getBlobs", o>>
                          pooled == \E s \in Sources : pool'[s] # None /\ pool'[s].session = a
                      IN  /\ a \in creating' \/ pooled => life'[o] \notin {"none", "opening"}
                          /\ pooled => blobs'[o] # None
    BY DEF AskedOnce
  <2> DEFINE a == <<"getBlobs", o>>
  <2>1. a \in creating => life[o] \notin {"none", "opening"}
    BY DEF CoresInv, AskedOnce
  <2>2. \A s \in Sources : pool[s] # None /\ pool[s].session = a =>
            life[o] \notin {"none", "opening"} /\ blobs[o] # None
    BY DEF CoresInv, AskedOnce
  <2>3. life' = life /\ creating' \subseteq creating /\ c \in creating
    BY DEF Created
  <2>4. \A s \in Sources : pool'[s] # None /\ pool'[s].session = a =>
            (pool[s] # None /\ pool[s].session = a) \/ c = a
    BY DEF CoresInv, Placed, Created, Linger, Sources
  <2>5. blobs[o] # None \/ c = a => blobs'[o] # None
    BY DEF CoresInv, Placed, Created, CoreSessions, Own, Objects, None
  <2> QED
    BY <2>1, <2>2, <2>3, <2>4, <2>5
<1>6. HandledOnce'
  BY DEF CoresInv, HandledOnce, Placed, Created, Linger
<1>7. MainIsOpen'
  BY DEF CoresInv, MainIsOpen, Created
<1>8. MainBlobsStayOpen'
  BY DEF CoresInv, MainBlobsStayOpen, Placed, Created, Usable
<1>9. BatchKeepsItsBlobs'
  BY DEF CoresInv, BatchKeepsItsBlobs, None, Placed, Created, OwnSession,
         Usable
<1> QED
  BY <1>1, <1>2, <1>3, <1>4, <1>5, <1>6, <1>7, <1>8, <1>9 DEF CoresInv

LEMMA BatchInv ==
    ASSUME CoresInv, NEW b \in Batches, Batch(b)
    PROVE  CoresInv'
<1>1. Placed'
  BY DEF CoresInv, Placed, Batch
<1>2. PoolTimes'
  BY DEF CoresInv, PoolTimes, Batch
<1>3. BlobsAreOwn'
  BY DEF CoresInv, BlobsAreOwn, Batch
<1>4. PoolIsCreated'
  BY DEF CoresInv, PoolIsCreated, Batch
<1>5. AskedOnce'
  BY DEF CoresInv, AskedOnce, Placed, Batch
<1>6. HandledOnce'
  BY DEF CoresInv, HandledOnce, Batch
<1>7. MainIsOpen'
  BY DEF CoresInv, MainIsOpen, Batch
<1>8. MainBlobsStayOpen'
  BY DEF CoresInv, MainBlobsStayOpen, Batch, Usable
<1>9. BatchKeepsItsBlobs'
  BY DEF CoresInv, BatchKeepsItsBlobs, Batch, Usable
<1> QED
  BY <1>1, <1>2, <1>3, <1>4, <1>5, <1>6, <1>7, <1>8, <1>9 DEF CoresInv

LEMMA OpenInv ==
    ASSUME CoresInv, NEW b \in Batches, Open(b)
    PROVE  CoresInv'
<1>0. b # Main /\ b \in Objects /\ life'[Main] = life[Main] /\ OwnSession(b) \in CoreSessions
  BY BatchesAssumption DEF CoresInv, Placed, Open, Objects, OwnSession, CoreSessions
<1>1. Placed'
  BY <1>0 DEF CoresInv, Placed, Open
<1>2. PoolTimes'
  BY DEF CoresInv, PoolTimes, Open
<1>3. BlobsAreOwn'
  BY DEF CoresInv, BlobsAreOwn, Own, Placed, Open, OwnSession
<1>4. PoolIsCreated'
  BY DEF CoresInv, PoolIsCreated, Open
<1>5. AskedOnce'
  BY DEF CoresInv, AskedOnce, Placed, Open
<1>6. HandledOnce'
  BY DEF CoresInv, HandledOnce, Open, OwnSession
<1>7. MainIsOpen'
  BY DEF CoresInv, MainIsOpen, Open
<1>8. MainBlobsStayOpen'
  BY DEF CoresInv, MainBlobsStayOpen, Placed, Open, Usable
<1>9. BatchKeepsItsBlobs'
  <2> SUFFICES ASSUME life'[Main] = "open", NEW x \in Batches,
                      life'[x] = "open", blobs'[x] # None
               PROVE  blobs'[x] \in open'
    BY DEF BatchKeepsItsBlobs, Usable
  <2>1. CASE x = b
    BY <2>1, <1>0 DEF CoresInv, Placed, Open
  <2>2. CASE x # b
    <3>1. life'[x] = life[x] /\ blobs'[x] = blobs[x] /\ open \subseteq open'
      BY <2>2 DEF CoresInv, Placed, Open, Objects
    <3> QED
      BY <1>0, <3>1 DEF CoresInv, BatchKeepsItsBlobs, Usable
  <2> QED
    BY <2>1, <2>2
<1> QED
  BY <1>1, <1>2, <1>3, <1>4, <1>5, <1>6, <1>7, <1>8, <1>9 DEF CoresInv

LEMMA FlushInv ==
    ASSUME CoresInv, NEW b \in Batches, Flush(b)
    PROVE  CoresInv'
<1>1. Placed'
  <2>1. life'[Main] = life[Main] /\ blobs[b] \notin creating
    BY BatchesAssumption DEF CoresInv, Placed, BlobsAreOwn, Flush, Objects, Own, None
  <2> QED
    BY <2>1 DEF CoresInv, Placed, Flush
<1>2. PoolTimes'
  BY DEF CoresInv, PoolTimes, Flush
<1>3. BlobsAreOwn'
  BY DEF CoresInv, BlobsAreOwn, Flush
<1>4. PoolIsCreated'
  BY DEF CoresInv, PoolIsCreated, Flush
<1>5. AskedOnce'
  BY DEF CoresInv, AskedOnce, Placed, Flush
<1>6. HandledOnce'
  BY DEF CoresInv, HandledOnce, Flush
<1>7. MainIsOpen'
  BY BatchesAssumption DEF CoresInv, MainIsOpen, Flush
<1>8. MainBlobsStayOpen'
  BY DEF CoresInv, MainBlobsStayOpen, Objects, Placed, BlobsAreOwn, Flush,
         Usable
<1>9. BatchKeepsItsBlobs'
  BY DEF CoresInv, BatchKeepsItsBlobs, Objects, Placed, BlobsAreOwn, Flush,
         Usable
<1> QED
  BY <1>1, <1>2, <1>3, <1>4, <1>5, <1>6, <1>7, <1>8, <1>9 DEF CoresInv

LEMMA CloseBatchInv ==
    ASSUME CoresInv, NEW b \in Batches, CloseBatch(b)
    PROVE  CoresInv'
<1>1. Placed'
  <2>1. life'[Main] = life[Main]
    BY BatchesAssumption DEF CoresInv, Placed, CloseBatch
  <2> QED
    BY <2>1 DEF CoresInv, Placed, CloseBatch
<1>2. PoolTimes'
  BY DEF CoresInv, PoolTimes, CloseBatch
<1>3. BlobsAreOwn'
  BY DEF CoresInv, BlobsAreOwn, CloseBatch
<1>4. PoolIsCreated'
  BY DEF CoresInv, PoolIsCreated, CloseBatch
<1>5. AskedOnce'
  BY DEF CoresInv, AskedOnce, Placed, CloseBatch
<1>6. HandledOnce'
  BY DEF CoresInv, HandledOnce, CloseBatch
<1>7. MainIsOpen'
  BY DEF CoresInv, MainIsOpen, CloseBatch
<1>8. MainBlobsStayOpen'
  BY DEF CoresInv, MainBlobsStayOpen, CloseBatch, Usable
<1>9. BatchKeepsItsBlobs'
  BY DEF CoresInv, BatchKeepsItsBlobs, CloseBatch, Usable
<1> QED
  BY <1>1, <1>2, <1>3, <1>4, <1>5, <1>6, <1>7, <1>8, <1>9 DEF CoresInv

LEMMA CloseInv ==
    ASSUME CoresInv, Close
    PROVE  CoresInv'
<1>1. Placed'
  BY DEF CoresInv, Placed, Objects, ClearPool, Close
<1>2. PoolTimes'
  BY DEF CoresInv, PoolTimes, ClearPool, Close
<1>3. BlobsAreOwn'
  BY DEF CoresInv, BlobsAreOwn, Close
<1>4. PoolIsCreated'
  BY DEF CoresInv, PoolIsCreated, ClearPool, Close
<1>5. AskedOnce'
  BY DEF CoresInv, AskedOnce, Placed, ClearPool, Close
<1>6. HandledOnce'
  BY DEF CoresInv, HandledOnce, ClearPool, Close
<1>7. MainIsOpen'
  BY DEF CoresInv, MainIsOpen, Close
<1>8. MainBlobsStayOpen'
  BY DEF CoresInv, MainBlobsStayOpen, Objects, Placed, Close
<1>9. BatchKeepsItsBlobs'
  BY DEF BatchKeepsItsBlobs, CoresInv, Objects, Placed, Close
<1> QED
  BY <1>1, <1>2, <1>3, <1>4, <1>5, <1>6, <1>7, <1>8, <1>9 DEF CoresInv

\* A drive that has just been opened has no sessions and an empty pool.
LEMMA CoresStart ==
    ASSUME CoresInit
    PROVE  CoresInv
<1>1. Placed
  BY DEF CoresInit, Placed, CoreSessions, Own, Got, Objects, Sources, None
<1>2. PoolTimes /\ PoolIsCreated /\ BlobsAreOwn /\ AskedOnce /\ HandledOnce
  BY DEF CoresInit, PoolTimes, PoolIsCreated, BlobsAreOwn, AskedOnce, HandledOnce
<1>3. MainIsOpen
  BY DEF CoresInit, MainIsOpen, Objects
<1>4. MainBlobsStayOpen /\ BatchKeepsItsBlobs
  BY DEF CoresInit, MainBlobsStayOpen, BatchKeepsItsBlobs, Objects, OwnSession, None
<1> QED
  BY <1>1, <1>2, <1>3, <1>4 DEF CoresInv

-----------------------------------------------------------------------------
(***************************************************************************)
(* The theorems.                                                           *)
(***************************************************************************)
\* The invariant holds, whatever is created, flushed, timed out and closed.
THEOREM CoresInvariance == CoresSpec => []CoresInv
<1>1. CoresInit => CoresInv
  BY CoresStart
<1>2. CoresInv /\ [CoresAlone]_coreVars => CoresInv'
  <2> SUFFICES ASSUME CoresInv, [CoresAlone]_coreVars PROVE CoresInv'
    OBVIOUS
  <2>1. CASE BecomeWritable
    BY <2>1, BecomeWritableInv
  <2>2. CASE Close
    BY <2>2, CloseInv
  <2>3. ASSUME NEW o \in Objects, GetBlobs(o) PROVE CoresInv'
    BY <2>3, GetBlobsInv
  <2>4. ASSUME NEW c \in CoreSessions, Created(c) PROVE CoresInv'
    BY <2>4, CreatedInv
  <2>5. ASSUME NEW b \in Batches, Batch(b) \/ Open(b) \/ Flush(b) \/ CloseBatch(b)
        PROVE  CoresInv'
    BY <2>5, BatchInv, OpenInv, FlushInv, CloseBatchInv
  <2>6. ASSUME NEW s \in Sources, TimeOut(s) PROVE CoresInv'
    BY <2>6, TimeOutInv
  <2>7. ASSUME NEW g \in Gets, GotCore(g) \/ \E s \in Sources : GetCore(g, s) PROVE CoresInv'
    BY <2>7, GetCoreInv, GotCoreInv
  <2>8. CASE (\E g \in Gets : LostCore(g)) \/ (\E c \in CoreSessions : NotCreated(c))
    BY <2>8, LostInv
  <2>9. CASE UNCHANGED coreVars
    BY <2>9 DEF coreVars, CoresInv, Placed, PoolTimes, BlobsAreOwn, PoolIsCreated,
                AskedOnce, HandledOnce, MainIsOpen, MainBlobsStayOpen,
                BatchKeepsItsBlobs, Usable
  <2> QED
    BY <2>1, <2>2, <2>3, <2>4, <2>5, <2>6, <2>7, <2>8, <2>9 DEF CoresAlone, CoresNext
<1> QED
  BY <1>1, <1>2, PTL DEF CoresSpec

\* The blobs of the main drive stay open until it is closed, for any number of
\* batches and calls of get().
THEOREM MainBlobsStayed == CoresSpec => []MainBlobsStayOpen
<1>1. CoresInv => MainBlobsStayOpen
  BY DEF CoresInv
<1> QED
  BY <1>1, CoresInvariance, PTL

\* A batch that has blobs, its root's or its own, can write to them until its own
\* flush() or the end of the drive, for any number of batches and calls of get().
THEOREM BatchBlobsStayed == CoresSpec => []BatchKeepsItsBlobs
<1>1. CoresInv => BatchKeepsItsBlobs
  BY DEF CoresInv
<1> QED
  BY <1>1, CoresInvariance, PTL

\* What the invariant says of the types.
LEMMA CoresTypes ==
    ASSUME CoresInv
    PROVE  CoresTypeOK
<1>1. Own \cup Got \subseteq CoreSessions
  BY DEF Own, Got, CoreSessions
<1> QED
  BY <1>1 DEF CoresInv, Placed, PoolTimes, CoresTypeOK, Got

\* The variables of Cores have their types, and only what get() opened may
\* time out.
THEOREM CoresTypeCorrect == CoresSpec => []CoresTypeOK
<1>1. CoresInv => CoresTypeOK
  BY CoresTypes
<1> QED
  BY <1>1, CoresInvariance, PTL

-----------------------------------------------------------------------------
(***************************************************************************)
(* get() over those sessions.                                              *)
(***************************************************************************)
\* What the drive opened and closed is as before, whoever asks whom; nobody is
\* waited for who is not connected, and nobody connected is missing in _rpc.
GetInv ==
    /\ connected \subseteq rpc /\ rpc \cup lingering \cup kept \subseteq Peers
    /\ local \in BOOLEAN
    /\ call \in [Gets -> {"idle", "opening", "looking", "asking", "waiting",
                        "returned", "unavailable", "expired", "failed"}]
    /\ source \in [Gets -> Sources]
    /\ asked \in [Gets -> SUBSET connected]
    /\ yes \in [Gets -> BOOLEAN] /\ failed \in [Gets -> BOOLEAN]
    /\ unlucky \in [Gets -> BOOLEAN]

\* A step of get() that leaves the peers alone.
LEMMA GetStepInv ==
    ASSUME GetInv, NEW g \in Gets, GetStep(g)
    PROVE  GetInv'
<1>1. CASE Ask(g)
  BY <1>1 DEF GetInv, Ask, peerVars
<1>2. CASE Receive(g)
  BY <1>2 DEF GetInv, Receive, peerVars
<1>3. CASE Opened(g) \/ NotOpened(g)
  BY <1>3 DEF GetInv, Opened, NotOpened, peerVars
<1>4. CASE Find(g) \/ Wait(g) \/ Unavailable(g) \/ Broken(g) \/ Expire(g)
  BY <1>4 DEF GetInv, Find, Wait, Unavailable, Broken, Expire, peerVars
<1> QED
  BY <1>1, <1>2, <1>3, <1>4 DEF GetStep

\* The end of connections leaves nobody waiting for one of these peers.
LEMMA HangupInv ==
    ASSUME GetInv, NEW ended \in SUBSET connected, Hangup(ended)
    PROVE  /\ connected' \subseteq connected
           /\ asked' \in [Gets -> SUBSET connected'] /\ failed' \in [Gets -> BOOLEAN]
<1>1. connected' = connected \ ended
  BY DEF Hangup
<1>2. \A g \in Gets : asked[g] \ ended \in SUBSET connected'
  BY <1>1 DEF GetInv
<1>3. asked' \in [Gets -> SUBSET connected']
  BY <1>2 DEF Hangup
<1>4. failed' \in [Gets -> BOOLEAN]
  <2>1. \A g \in Gets : (failed[g] \/ asked[g] \cap ended # {}) \in BOOLEAN
    OBVIOUS
  <2> QED
    BY <2>1 DEF Hangup
<1> QED
  BY <1>1, <1>3, <1>4

\* A peer answers, leaves, is forgotten or lets its core go.
LEMMA PeerStepInv ==
    ASSUME GetInv, NEW p \in Peers,
           Disconnect(p) \/ Forget(p) \/ PeerTimeOut(p) \/ \E g \in Gets : Respond(p, g)
    PROVE  GetInv'
<1>1. CASE Disconnect(p)
  BY <1>1, HangupInv DEF GetInv, Disconnect
<1>2. CASE Forget(p)
  BY <1>2 DEF GetInv, Forget, getVars
<1>3. CASE PeerTimeOut(p)
  BY <1>3 DEF GetInv, PeerTimeOut
<1>4. ASSUME NEW g \in Gets, Respond(p, g) PROVE GetInv'
  <2>1. /\ asked' = [asked EXCEPT ![g] = @ \ {p}]
        /\ UNCHANGED <<connected, rpc, local, call, source, failed, unlucky>>
    BY <1>4 DEF Respond
  <2>2. asked' \in [Gets -> SUBSET connected']
    BY <2>1 DEF GetInv
  <2>3. lingering' \cup kept' \subseteq Peers
    BY <1>4 DEF GetInv, Respond, OpenCore
  <2>4. yes' \in [Gets -> BOOLEAN]
    BY <1>4 DEF GetInv, Respond
  <2> QED
    BY <2>1, <2>2, <2>3, <2>4 DEF GetInv
<1> QED
  BY <1>1, <1>2, <1>3, <1>4

\* The sessions and the calls of get() keep their invariants together.
THEOREM FetchInvariance == Spec => [](CoresInv /\ GetInv)
<1>1. Init => CoresInv /\ GetInv
  BY CoresStart DEF Init, GetInv, Sources
<1>2. CoresInv /\ GetInv /\ [Next]_vars => CoresInv' /\ GetInv'
  <2> SUFFICES ASSUME CoresInv, GetInv, [Next]_vars PROVE CoresInv' /\ GetInv'
    OBVIOUS
  <2>1. ASSUME UNCHANGED coreVars PROVE CoresInv'
    BY <2>1 DEF coreVars, CoresInv, Placed, PoolTimes, BlobsAreOwn, PoolIsCreated,
                AskedOnce, HandledOnce, MainIsOpen, MainBlobsStayOpen,
                BatchKeepsItsBlobs, Usable
  <2>2. CASE PoolTimeOut
    BY <2>2, TimeOutInv DEF PoolTimeOut, CutOff, GetInv, peerVars
  <2>7. CASE Shutdown
    <3>1. CoresInv'
      BY <2>7, CloseInv DEF Shutdown
    <3>2. /\ UNCHANGED <<rpc, lingering, kept, local, call, source, yes>>
          /\ unlucky' \in [Gets -> BOOLEAN]
      BY <2>7 DEF Shutdown, CutOff, GetInv
    <3>3. PICK ended \in SUBSET connected : Hangup(ended)
      BY <2>7 DEF Shutdown
    <3>4. /\ connected' \subseteq connected
          /\ asked' \in [Gets -> SUBSET connected'] /\ failed' \in [Gets -> BOOLEAN]
      BY <3>3, HangupInv
    <3> QED
      BY <3>1, <3>2, <3>4 DEF GetInv
  <2>3. ASSUME NEW g \in Gets, GetStep(g) PROVE CoresInv' /\ GetInv'
    <3>1. CASE Opened(g) \/ NotOpened(g)
      BY <2>3, <3>1, GotCoreInv, LostInv, GetStepInv DEF Opened, NotOpened
    <3>2. CASE ~(Opened(g) \/ NotOpened(g))
      <4>1. UNCHANGED coreVars
        BY <2>3, <3>2 DEF GetStep, Find, Ask, Wait, Unavailable, Receive, Broken, Expire
      <4> QED
        BY <2>1, <2>3, <4>1, GetStepInv
    <3> QED
      BY <3>1, <3>2
  <2>4. ASSUME NEW g \in Gets, NEW s \in Sources, Get(g, s) PROVE CoresInv' /\ GetInv'
    <3>1. CoresInv'
      BY <2>4, GetCoreInv DEF Get
    <3>2. GetInv'
      BY <2>4 DEF Get, GetInv, peerVars
    <3> QED
      BY <3>1, <3>2
  <2>5. ASSUME NEW p \in Peers,
               Disconnect(p) \/ Forget(p) \/ PeerTimeOut(p) \/ \E g \in Gets : Respond(p, g)
        PROVE  CoresInv' /\ GetInv'
    <3>1. UNCHANGED coreVars
      BY <2>5 DEF Disconnect, Forget, PeerTimeOut, Respond
    <3> QED
      BY <2>1, <2>5, <3>1, PeerStepInv
  <2>6. CASE UNCHANGED vars
    BY <2>1, <2>6 DEF vars, peerVars, getVars, GetInv
  <2> QED
    BY <2>2, <2>3, <2>4, <2>5, <2>6, <2>7 DEF Next
<1> QED
  BY <1>1, <1>2, PTL DEF Spec

\* The variables of Fetch have their types, over whatever sessions the drive and
\* its calls have: a get() only waits for peers that are connected, and every
\* connected peer is in _rpc.
THEOREM FetchTypeCorrect == Spec => []TypeOK
<1>1. CoresInv /\ GetInv => TypeOK
  <2> SUFFICES ASSUME CoresInv, GetInv PROVE TypeOK
    OBVIOUS
  <2>1. CoresTypeOK
    BY CoresTypes
  <2> QED
    BY <2>1 DEF GetInv, TypeOK, Over
<1> QED
  BY <1>1, FetchInvariance, PTL
=============================================================================
