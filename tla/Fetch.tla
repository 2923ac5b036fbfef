-------------------------------- MODULE Fetch --------------------------------
(***************************************************************************)
(* get() with wakeups, between a drive and its peers (src/src/index.ts     *)
(* 404-416, 503-522, 602-632), over the sessions and the pool of Cores.    *)
(*                                                                         *)
(* A block is looked for locally; if it is not there, all connected peers  *)
(* are asked to open the core it is in, and when all have answered it is   *)
(* waited for.  A peer that is asked opens the core and lets it linger in  *)
(* a pool of its own; blocks are replicated while both sides have the core *)
(* open.  A request has no timeout of its own, so a peer that never        *)
(* answers is waited for until its connection closes.                      *)
(***************************************************************************)
EXTENDS Cores

CONSTANTS
    Peers,     \* the peers of the drive
    Holders,   \* those that have the block of the other writer
    Refusing,  \* those whose _getCore() may fail
    Silent,    \* those that may stay connected and never answer
    Limited    \* the gets that are given a timeout

ASSUME PeersAssumption == Holders \cup Refusing \cup Silent \subseteq Peers
ASSUME LimitedAssumption == Limited \subseteq Gets

VARIABLES
    connected,  \* the peers there is a connection to
    rpc,        \* the peers in _rpc
    lingering,  \* the peers in whose pool the core lingers
    kept,       \* the peers with a session of it outside their pool
    local,      \* whether the block has been downloaded
    call,       \* call[g]: how far a get is
    source,     \* source[g]: the writer of its entry
    asked,      \* asked[g]: the peers it waits for
    yes,        \* yes[g]: whether one of them answered true
    failed,     \* failed[g]: whether one of its requests was rejected
    unlucky     \* unlucky[g]: whether a lingering core timed out during it

peerVars == <<connected, rpc, lingering, kept>>
getVars == <<call, source, asked, yes, failed, unlucky>>
vars == <<coreVars, peerVars, local, getVars>>

Over(g) == call[g] \in {"returned", "unavailable", "expired", "failed"}
Running(g) == call[g] # "idle" /\ ~Over(g)

\* The block is there: what the drive wrote itself always is.
Present(g) == source[g] = "own" \/ local

-----------------------------------------------------------------------------
(***************************************************************************)
(* The drive.                                                              *)
(***************************************************************************)
\* get(entry): getBlobs(source) ends in _getCore(source), for entries of the
\* drive's own too, since their source is not the key of its log.
Get(g, s) ==
    /\ call[g] = "idle"
    /\ call' = [call EXCEPT ![g] = "opening"]
    /\ source' = [source EXCEPT ![g] = s]
    /\ GetCore(g, s)
    /\ UNCHANGED <<peerVars, local, asked, yes, failed, unlucky>>

Opened(g) ==
    /\ call[g] = "opening" /\ GotCore(g)
    /\ call' = [call EXCEPT ![g] = "looking"]
    /\ UNCHANGED <<peerVars, local, source, asked, yes, failed, unlucky>>

\* getBlobs() throws.
NotOpened(g) ==
    /\ call[g] = "opening" /\ LostCore(g)
    /\ call' = [call EXCEPT ![g] = "failed"]
    /\ UNCHANGED <<peerVars, local, source, asked, yes, failed, unlucky>>

\* blobs.get(blob, { wait: false }) returns the data, ...
Find(g) ==
    /\ call[g] = "looking"
    /\ Present(g) /\ Session(g) \in open
    /\ call' = [call EXCEPT ![g] = "returned"]
    /\ UNCHANGED <<coreVars, peerVars, local, source, asked, yes, failed, unlucky>>

\* ... or it fails, which is taken for a block that is not there: _wakeup()
\* asks every peer in _rpc.  A request over a closed connection is rejected,
\* and so is one over a channel that was ended with the drive.
Ask(g) ==
    /\ call[g] = "looking"
    /\ ~Present(g) \/ Session(g) \notin open
    /\ call' = [call EXCEPT ![g] = "asking"]
    /\ asked' = [asked EXCEPT ![g] = IF life[Main] = "open" THEN connected ELSE {}]
    /\ failed' = [failed EXCEPT ![g] = rpc # connected \/ life[Main] # "open"]
    /\ UNCHANGED <<coreVars, peerVars, local, source, yes, unlucky>>

\* Promise.all(): every answer is there.
Answered(g) == asked[g] = {}

\* _wakeup() returns true, and the block is waited for.
Wait(g) ==
    /\ call[g] = "asking" /\ ~failed[g] /\ Answered(g) /\ yes[g]
    /\ call' = [call EXCEPT ![g] = "waiting"]
    /\ UNCHANGED <<coreVars, peerVars, local, source, asked, yes, failed, unlucky>>

\* _wakeup() returns false: nobody said yes, or one request was rejected.
Unavailable(g) ==
    /\ call[g] = "asking"
    /\ failed[g] \/ (Answered(g) /\ ~yes[g])
    /\ call' = [call EXCEPT ![g] = "unavailable"]
    /\ UNCHANGED <<coreVars, peerVars, local, source, asked, yes, failed, unlucky>>

\* Replication: a peer that has the block and its core open.
Reachable == \E p \in connected \cap Holders : p \in lingering \cup kept

Receive(g) ==
    /\ call[g] = "waiting" /\ Session(g) \in open
    /\ Present(g) \/ Reachable
    /\ local' = (local \/ source[g] = "other")
    /\ call' = [call EXCEPT ![g] = "returned"]
    /\ UNCHANGED <<coreVars, peerVars, source, asked, yes, failed, unlucky>>

\* The session was closed under it, by the pool or with the drive.
Broken(g) ==
    /\ call[g] = "waiting" /\ Session(g) \notin open
    /\ call' = [call EXCEPT ![g] = "failed"]
    /\ UNCHANGED <<coreVars, peerVars, local, source, asked, yes, failed, unlucky>>

\* The timeout is only given to the first look.
NoLimit(g) == FALSE

\* options.timeout, which the second blobs.get() is given
HasLimit(g) == g \in Limited

Expire(g) ==
    /\ call[g] = "waiting" /\ HasLimit(g)
    /\ call' = [call EXCEPT ![g] = "expired"]
    /\ UNCHANGED <<coreVars, peerVars, local, source, asked, yes, failed, unlucky>>

-----------------------------------------------------------------------------
(***************************************************************************)
(* The peers.                                                              *)
(***************************************************************************)
\* The answer to "wakeup": does the peer know the core?  Without opening it.
KnowCore(p) == UNCHANGED <<lingering, kept>>

\* _getCore() of a peer: a first session lingers, a second one is ignored by
\* linger() and stays.
OpenCore(p) ==
    IF p \in lingering THEN kept' = kept \cup {p} /\ UNCHANGED lingering
    ELSE lingering' = lingering \cup {p} /\ UNCHANGED kept

\* The responder of replicate(): true, unless _getCore() throws.
Respond(p, g) ==
    /\ p \in asked[g]
    /\ asked' = [asked EXCEPT ![g] = @ \ {p}]
    /\ \/ p \in Refusing /\ UNCHANGED <<lingering, kept, yes>>
       \/ OpenCore(p) /\ yes' = [yes EXCEPT ![g] = TRUE]
    /\ UNCHANGED <<coreVars, connected, rpc, local, call, source, failed, unlucky>>

\* A connection closes, and nobody notices.
Vanish(p) ==
    /\ p \in connected
    /\ connected' = connected \ {p}
    /\ UNCHANGED <<coreVars, rpc, lingering, kept, local, getVars>>

\* The end of connections rejects what was asked over them.
Hangup(ended) ==
    /\ connected' = connected \ ended
    /\ failed' = [g \in Gets |-> failed[g] \/ asked[g] \cap ended # {}]
    /\ asked' = [g \in Gets |-> asked[g] \ ended]

\* A connection closes ...
Disconnect(p) ==
    /\ p \in connected
    /\ Hangup({p})
    /\ UNCHANGED <<coreVars, rpc, lingering, kept, local, call, source, yes, unlucky>>

\* ... and, rpc.end() having returned, it is taken out of _rpc.
Forget(p) ==
    /\ p \in rpc \ connected
    /\ rpc' = rpc \ {p}
    /\ UNCHANGED <<coreVars, connected, lingering, kept, local, getVars>>

\* ontimeout() at a peer
PeerTimeOut(p) ==
    /\ p \in lingering
    /\ lingering' = lingering \ {p}
    /\ unlucky' = [g \in Gets |-> unlucky[g] \/ Running(g)]
    /\ UNCHANGED <<coreVars, connected, rpc, kept, local, call, source, asked, yes, failed>>

-----------------------------------------------------------------------------
Init ==
    /\ CoresInit
    /\ connected = Peers /\ rpc = Peers /\ lingering = {} /\ kept = {}
    /\ local = FALSE
    /\ call = [g \in Gets |-> "idle"]
    /\ source = [g \in Gets |-> "own"]
    /\ asked = [g \in Gets |-> {}]
    /\ yes = [g \in Gets |-> FALSE]
    /\ failed = [g \in Gets |-> FALSE]
    /\ unlucky = [g \in Gets |-> FALSE]

\* The gets whose session is closed by this.
CutOff ==
    unlucky' = [g \in Gets |-> unlucky[g] \/ (Running(g) /\ Session(g) \in open \ open')]

\* A timer of the pool.  How the drive's own blobs core comes about is left to
\* Cores: a get() has nothing to do with it.
PoolTimeOut ==
    /\ \E s \in Sources : TimeOut(s)
    /\ CutOff
    /\ UNCHANGED <<peerVars, local, call, source, asked, yes, failed>>

\* The end of the drive, with rpc.end() for every peer: a channel closes at
\* once, or when what is asked over it has been answered.
Shutdown ==
    /\ Close
    /\ CutOff
    /\ \E ended \in SUBSET connected : Hangup(ended)
    /\ UNCHANGED <<rpc, lingering, kept, local, call, source, yes>>

GetStep(g) ==
    \/ Opened(g) \/ NotOpened(g)
    \/ Find(g) \/ Ask(g) \/ Wait(g) \/ Unavailable(g) \/ Receive(g) \/ Broken(g) \/ Expire(g)

Next ==
    \/ PoolTimeOut \/ Shutdown
    \/ \E g \in Gets : GetStep(g) \/ \E s \in Sources : Get(g, s)
    \/ \E p \in Peers : Disconnect(p) \/ Forget(p) \/ PeerTimeOut(p)
    \/ \E p \in Peers, g \in Gets : Respond(p, g)

Spec == Init /\ [][Next]_vars

\* Calls go on, timeouts expire, and the peers that are not silent answer as
\* long as they stay connected.
Fairness ==
    /\ \A g \in Gets : WF_vars(GetStep(g))
    /\ \A p \in Peers \ Silent, g \in Gets : WF_vars(Respond(p, g))

FairSpec == Spec /\ Fairness

-----------------------------------------------------------------------------
(***************************************************************************)
(* Properties.                                                             *)
(***************************************************************************)
TypeOK ==
    /\ CoresTypeOK
    /\ connected \subseteq rpc /\ rpc \cup lingering \cup kept \subseteq Peers
    /\ local \in BOOLEAN
    /\ \A g \in Gets :
          /\ call[g] \in {"idle", "opening", "looking", "asking", "waiting"} \/ Over(g)
          /\ source[g] \in Sources
          /\ asked[g] \subseteq connected
          /\ {yes[g], failed[g], unlucky[g]} \subseteq BOOLEAN

\* A peer is waited for, and will never answer.
Stuck(g) == [](asked[g] \cap Silent # {})

\* A get() with a timeout ends, whoever leaves or lets the core go meanwhile:
\* with data, an error or the timeout, whose own error is one of its ends.  Only
\* a connected peer that never answers _wakeup() keeps it (404-416).
LimitedGetsEnd == \A g \in Limited : Running(g) ~> (Over(g) \/ Stuck(g))

\* A get() returns the data if a peer that has it was asked: it never ends as
\* "not available", or waits for ever, unless that peer left, a request was
\* rejected, a core timed out during the call, the given time was over, or some
\* peer never answers.
GetsAreServed ==
    \A g \in Gets :
        call[g] = "asking" /\ (Holders \ Refusing) \cap connected # {} ~>
            \/ call[g] \in {"returned", "expired"}
            \/ failed[g] \/ unlucky[g]
            \/ (Holders \ Refusing) \cap connected = {}
            \/ Stuck(g)

\* "`timeout` specifies how long to wait for the entry data to download" (README
\* 185, for get() 190): a get() with a timeout ends, or the drive is closed.
TimeoutsAreKept == \A g \in Limited : Running(g) ~> (Over(g) \/ life[Main] = "closed")
=============================================================================
