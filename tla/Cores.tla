-------------------------------- MODULE Cores --------------------------------
(***************************************************************************)
(* The blobs cores of a drive: who opens a session of which core, who      *)
(* keeps it, and who closes it (src/src/index.ts 110-127, 226-266,         *)
(* 447-478, 563-581 and src/src/pool.ts).                                  *)
(*                                                                         *)
(* A drive has a blobs core of its own, known by its manifest, and reads   *)
(* from those of the other writers.  Every store.get() and session() opens *)
(* a session, named here by what opened it; closing one closes no other.   *)
(* The main drive and its batch() sessions are one object each, with their *)
(* own _blobs and their own listener on the base, and share the pool.      *)
(* Closing the drive closes its corestore, and with it every session.      *)
(***************************************************************************)
EXTENDS Naturals

CONSTANTS
    Batches,   \* the batch() sessions
    Gets       \* the calls of get()

Main == "main"

ASSUME BatchesAssumption == Main \notin Batches

Objects == {Main} \cup Batches
Sources == {"own", "other"}
None == << >>

\* The sessions of cores: a writable handler's, getBlobs()'s, the one a batch
\* makes of its root's, and get()'s.
CoreSessions ==
    ({"writable", "getBlobs"} \X Objects) \cup ({"open"} \X Batches) \cup ({"get"} \X Gets)

Session(g) == <<"get", g>>

VARIABLES
    writable,   \* this.writable
    life,       \* life[o]: how far an object is
    creating,   \* sessions of the own core whose creator awaits core.ready()
    blobs,      \* blobs[o]: the session under o._blobs
    fetching,   \* fetching[g]: whose core _getCore() awaits for the call g
    open,       \* the sessions that are open
    pool        \* pool[source]: the session that lingers, and whether it may time out

coreVars == <<writable, life, creating, blobs, fetching, open, pool>>

-----------------------------------------------------------------------------
(***************************************************************************)
(* The pool.                                                               *)
(***************************************************************************)
\* linger(writer, session, close), closing whatever is given
LingerTimed(source, session, timed) ==
    pool' = IF pool[source] # None THEN pool
            ELSE [pool EXCEPT ![source] = [session |-> session, timed |-> TRUE]]

\* linger(writer, session, close)
Linger(source, session, timed) ==
    pool' = IF pool[source] # None THEN pool
            ELSE [pool EXCEPT ![source] = [session |-> session, timed |-> timed]]

\* ontimeout()
TimeOut(source) ==
    /\ pool[source] # None /\ pool[source].timed
    /\ open' = open \ {pool[source].session}
    /\ pool' = [pool EXCEPT ![source] = None]
    /\ UNCHANGED <<writable, life, creating, blobs, fetching>>

\* clear()
ClearPool == pool' = [s \in Sources |-> None]

\* _getCore(source), for the call g, opens a session and awaits core.ready().
GetCore(g, source) ==
    /\ life[Main] = "open" /\ fetching[g] = "none" /\ Session(g) \notin open
    /\ fetching' = [fetching EXCEPT ![g] = source]
    /\ open' = open \cup {Session(g)}
    /\ UNCHANGED <<writable, life, creating, blobs, pool>>

\* It has returned, and the session lingers; after the end of the drive too.
GotCore(g) ==
    /\ fetching[g] # "none"
    /\ fetching' = [fetching EXCEPT ![g] = "none"]
    /\ Linger(fetching[g], Session(g), TRUE)
    /\ UNCHANGED <<writable, life, creating, blobs, open>>

\* It has thrown, the drive being closed meanwhile.
LostCore(g) ==
    /\ fetching[g] # "none" /\ Session(g) \notin open
    /\ fetching' = [fetching EXCEPT ![g] = "none"]
    /\ UNCHANGED <<writable, life, creating, blobs, open, pool>>

-----------------------------------------------------------------------------
(***************************************************************************)
(* The drive's own blobs core.                                             *)
(***************************************************************************)
Started(o) == life[o] # "none"

Create(sessions) ==
    /\ creating' = creating \cup sessions
    /\ open' = open \cup sessions

\* The "writable" event: the listeners of all objects there are, closed
\* batches included, look at their _blobs.
BecomeWritable ==
    /\ ~writable /\ life[Main] = "open"
    /\ writable' = TRUE
    /\ Create({<<"writable", o>> : o \in {x \in Objects : Started(x) /\ blobs[x] = None}})
    /\ UNCHANGED <<life, blobs, fetching, pool>>

\* getBlobs() finds no _blobs.
GetBlobs(o) ==
    /\ life[o] = "open" /\ life[Main] = "open" /\ blobs[o] = None
    /\ <<"getBlobs", o>> \notin open
    /\ Create({<<"getBlobs", o>>})
    /\ UNCHANGED <<writable, life, blobs, fetching, pool>>

\* A creation that stops where the pool has a session already.
CreatedIfPooled(c) ==
    /\ c \in creating
    /\ creating' = creating \ {c}
    /\ Linger("own", c, FALSE)
    /\ blobs' = IF pool["own"] # None THEN blobs ELSE [blobs EXCEPT ![c[2]] = c]
    /\ UNCHANGED <<writable, life, fetching, open>>

\* core.ready() has returned to its creator.
Created(c) ==
    /\ c \in creating
    /\ creating' = creating \ {c}
    /\ Linger("own", c, FALSE)
    /\ blobs' = [blobs EXCEPT ![c[2]] = c]
    /\ UNCHANGED <<writable, life, fetching, open>>

\* core.ready() has thrown, the drive being closed meanwhile.
NotCreated(c) ==
    /\ c \in creating \ open
    /\ creating' = creating \ {c}
    /\ UNCHANGED <<writable, life, blobs, fetching, open, pool>>

-----------------------------------------------------------------------------
(***************************************************************************)
(* Batch sessions, and the end.                                            *)
(***************************************************************************)
\* batch()
Batch(b) ==
    /\ life[b] = "none" /\ life[Main] = "open"
    /\ life' = [life EXCEPT ![b] = "opening"]
    /\ UNCHANGED <<writable, creating, blobs, fetching, open, pool>>

Usable(o) == blobs[o] # None /\ blobs[o] \in open

\* The session of the root itself, not one of its own.
RootSession(b) == blobs[Main]
OwnSession(b) == <<"open", b>>

\* _open() of a batch session: whatever its _blobs were, they are now a session
\* of its root's, if that has them by now.
Open(b) ==
    /\ life[b] = "opening"
    /\ life' = [life EXCEPT ![b] = "open"]
    /\ blobs' = [blobs EXCEPT ![b] = IF Usable(Main) THEN OwnSession(b) ELSE None]
    /\ open' = IF Usable(Main) THEN open \cup {OwnSession(b)} ELSE open
    /\ UNCHANGED <<writable, creating, fetching, pool>>

\* flush() closes the blobs core of the session.
Flush(b) ==
    /\ life[b] = "open"
    /\ life' = [life EXCEPT ![b] = "flushed"]
    /\ open' = open \ {blobs[b]}
    /\ UNCHANGED <<writable, creating, blobs, fetching, pool>>

\* _close() of a session leaves its blobs core and its "writable" listener.
CloseBatch(b) ==
    /\ life[b] \in {"open", "flushed"}
    /\ life' = [life EXCEPT ![b] = "closed"]
    /\ UNCHANGED <<writable, creating, blobs, fetching, open, pool>>

\* _close() of the drive closes the base, which closes the corestore and all
\* its sessions, and clears the pool.
Close ==
    /\ life[Main] = "open"
    /\ life' = [life EXCEPT ![Main] = "closed"]
    /\ open' = {}
    /\ ClearPool
    /\ UNCHANGED <<writable, creating, blobs, fetching>>

-----------------------------------------------------------------------------
CoresInit ==
    /\ writable = FALSE
    /\ life = [o \in Objects |-> IF o = Main THEN "open" ELSE "none"]
    /\ creating = {}
    /\ blobs = [o \in Objects |-> None]
    /\ fetching = [g \in Gets |-> "none"]
    /\ open = {}
    /\ pool = [s \in Sources |-> None]

CoresNext ==
    \/ BecomeWritable \/ Close
    \/ \E o \in Objects : GetBlobs(o)
    \/ \E c \in CoreSessions : Created(c) \/ NotCreated(c)
    \/ \E b \in Batches : Batch(b) \/ Open(b) \/ Flush(b) \/ CloseBatch(b)
    \/ \E s \in Sources : TimeOut(s)

CoresAlone ==
    \/ CoresNext
    \/ \E g \in Gets : GotCore(g) \/ LostCore(g) \/ \E s \in Sources : GetCore(g, s)

\* What is created gets ready.
CoresFairness == \A c \in CoreSessions : WF_coreVars(Created(c))

CoresSpec == CoresInit /\ [][CoresAlone]_coreVars /\ CoresFairness

-----------------------------------------------------------------------------
(***************************************************************************)
(* Properties.                                                             *)
(***************************************************************************)
\* The variables have their types; only what get() opened may time out.
CoresTypeOK ==
    /\ writable \in BOOLEAN
    /\ \A o \in Objects : life[o] \in {"none", "opening", "open", "flushed", "closed"}
    /\ creating \subseteq CoreSessions
    /\ \A o \in Objects : blobs[o] \in CoreSessions \cup {None}
    /\ \A g \in Gets : fetching[g] \in Sources \cup {"none"}
    /\ open \subseteq CoreSessions
    /\ \A s \in Sources : pool[s] # None =>
          /\ pool[s].session \in CoreSessions
          /\ pool[s].timed <=> pool[s].session \in {"get"} \X Gets

\* The blobs of the main drive stay open until it is closed, whatever batch is
\* flushed and whatever times out: "t.absent(drive.blobs.core.closed)" in
\* src/test/hyperdrive.js 908, and for every way they were opened.
MainBlobsStayOpen == life[Main] = "open" /\ blobs[Main] # None => Usable(Main)

\* A batch that has blobs, from its root or its own, can write to them until its
\* own flush() or the end of the drive: no other batch's flush(), no timer and
\* no get() of the same core closes them.
BatchKeepsItsBlobs ==
    life[Main] = "open" =>
        \A b \in Batches : life[b] = "open" /\ blobs[b] # None => Usable(b)

\* A drive that becomes writable gets its blobs, unless it is closed first.
WritableDriveGetsBlobs == writable ~> (blobs[Main] # None \/ life[Main] = "closed")
=============================================================================
