--------------------------- MODULE PluginTransfer ---------------------------
(***************************************************************************)
(* pluginSharing.js and P2PTransfer.js: one plugin comes from one peer, in *)
(* chunks, and is installed at once (the peer is trusted) or when the      *)
(* owner approves.  Each message has a handler of its own, each request of *)
(* the owner too, and all of them interleave.                              *)
(*                                                                         *)
(* A Mongoose document is an object with unsaved changes.  save() throws   *)
(* when another save() of the same object is under way.  The handlers of a *)
(* transfer share one object; a request of the owner loads its own.        *)
(*                                                                         *)
(* Left out: the manifest and its signature (only noted), progress,        *)
(* backups, and that an offer names any number of chunks.  assembledSource *)
(* is one for memory and database: that rejecting and cancelling clear it, *)
(* and that P2PTransfer.js compares its hash again before a save as        *)
(* approved, only prevents installations.                                  *)
(***************************************************************************)
EXTENDS Integers, FiniteSets

CONSTANTS
    Offer,       \* the offers: the peer sends the plugin once for each request
    Version,     \* sources of the plugin
    VersionOf,   \* which one an offer is about
    Chunks,      \* totalChunks
    Message,     \* what arrives of the offers (number 0) and their chunks
    Request,     \* what the owner asks for: approve, reject or cancel, once each
    Trusted,     \* what the code may find the peer's trust and the setting to be
    MaxFaults,   \* bound: database and disk calls that fail, and crashes
    None

Status == {"transferring", "awaiting_approval", "approved", "rejected",
           "installed", "failed", "cancelled"}

ASSUME TransferAssumption ==
    /\ VersionOf \in [Offer -> Version]
    /\ Chunks \in Nat \ {0} /\ MaxFaults \in Nat
    /\ Message \subseteq Offer \X (0..Chunks)
    /\ Trusted \subseteq BOOLEAN
    /\ None \notin Offer \union Version \union Request \union Status \union {"same"}
    /\ Request \intersect (Offer \union Message) = {}

Thread == Message \union Request
Object == Offer \union Request    \* documents in memory

VARIABLES
    at,        \* where each handler is
    to,        \* the transfer it works on
    current,   \* incomingTransfers: the transfer behind the key of this plugin
    chunks,    \* incoming.chunks, by their version
    count,     \* incoming.receivedCount
    mem,       \* the status each object has and has not saved, None if it has none
    carry,     \* saves under way: the status they write, "same" if none
    db,        \* the status of each transfer in the database
    source,    \* assembledSource: the versions its parts are of, {} if it is empty
    disk,      \* whose plugin the file holds
    code,      \* and the versions the parts of the file are of
    contested, \* history: transfers whose handlers overlapped, or whose status was not saved
    faults     \* failures so far

vars == <<at, to, current, chunks, count, mem, carry, db, source, disk, code, contested, faults>>

Saving == {"chunk", "bad", "mismatch", "approve", "park", "install", "broken",
           "fail", "reject"}
Stage == {"idle", "register", "check", "vet", "write", "count",
          "rolling", "caught", "drop", "close", "done"} \union Saving

transitionMap ==
    [transferring |-> {"awaiting_approval", "approved", "failed", "cancelled"},
     awaiting_approval |-> {"approved", "rejected", "failed", "cancelled"},
     approved |-> {"installed", "failed"},
     rejected |-> {}, installed |-> {}, failed |-> {}, cancelled |-> {}]

Init ==
    /\ at = [t \in Thread |-> "idle"]
    /\ to = [t \in Thread |-> None]
    /\ current = None
    /\ chunks = [o \in Offer |-> [i \in 1..Chunks |-> None]]
    /\ count = [o \in Offer |-> 0]
    /\ mem = [c \in Object |-> None]
    /\ carry = [c \in Object |-> None]
    /\ db = [o \in Offer |-> None]
    /\ source = [o \in Offer |-> {}]
    /\ disk = None
    /\ code = {}
    /\ contested = {}
    /\ faults = 0

Go(t, o, s) ==
    /\ at' = [at EXCEPT ![t] = s]
    /\ to' = [to EXCEPT ![t] = IF s = "done" THEN None ELSE o]
Doc(t, o) == IF t \in Request THEN t ELSE o
Fails == faults < MaxFaults /\ faults' = faults + 1
buffer == <<current, chunks, count>>
object == <<mem, carry>>
plugin == <<source, disk, code>>

\* Where an error leads: each handler's own catch, that of _assemblePlugin, or
\* that of _installPlugin, whose own save may fail.
ErrorStage(t, s) ==
    IF s \in {"write", "install", "count"} THEN "rolling"
    ELSE IF t \in Message /\ s \in {"vet", "approve", "park", "mismatch", "broken"} THEN "caught"
    ELSE "done"

\* Handler t, at work on o, sets the status to s (None: leaves it) and calls save.
Save(t, o, s, stage) ==
    LET c == Doc(t, o)
        next == IF s = None THEN mem[c] ELSE s
    IN  IF carry[c] = None
        THEN /\ carry' = [carry EXCEPT ![c] = IF next = None THEN "same" ELSE next]
             /\ mem' = [mem EXCEPT ![c] = None]
             /\ Go(t, o, stage)
        ELSE /\ mem' = [mem EXCEPT ![c] = next]
             /\ Go(t, o, ErrorStage(t, stage))
             /\ UNCHANGED carry

-----------------------------------------------------------------------------
(* The messages: each arrives once or never, in any order *)

\* handlePluginOffer: the record is created, and then
OfferCreated(m) ==
    /\ at[m] = "idle" /\ m[2] = 0
    /\ db' = [db EXCEPT ![m[1]] = "transferring"]
    /\ Go(m, m[1], "register")
    /\ UNCHANGED <<buffer, object, plugin, faults>>

\* the buffer, in place of the one that the key had.
Register(m) ==
    /\ at[m] = "register"
    /\ current' = m[1]
    /\ Go(m, None, "done")
    /\ UNCHANGED <<chunks, count, object, db, plugin, faults>>

\* handlePluginChunk
ChunkIgnored(m) ==
    /\ at[m] = "idle" /\ m[2] > 0
    /\ current = None
    /\ Go(m, None, "done")
    /\ UNCHANGED <<buffer, object, db, plugin, faults>>

BadChunk(m) ==
    /\ at[m] = "idle" /\ m[2] > 0
    /\ current # None
    /\ Save(m, current, "failed", "bad")
    /\ UNCHANGED <<buffer, db, plugin, faults>>

Chunk(m) ==
    /\ at[m] = "idle" /\ m[2] > 0
    /\ current # None
    /\ chunks' = [chunks EXCEPT ![current][m[2]] = VersionOf[m[1]]]
    /\ count' = [count EXCEPT ![current] = @ + 1]
    /\ Save(m, current, None, "chunk")
    /\ UNCHANGED <<current, db, plugin, faults>>

\* A save is done, and its handler goes on.
After(t) ==
    CASE at[t] = "chunk" -> "check"
      [] at[t] \in {"bad", "mismatch", "fail", "park", "broken"} -> "close"
      [] at[t] = "approve" -> "write"
      [] at[t] = "install" -> "count"
      [] at[t] = "reject" -> "done"

Saved(t) ==
    LET c == Doc(t, to[t])
    IN  /\ at[t] \in Saving
        /\ db' = IF carry[c] = "same" THEN db ELSE [db EXCEPT ![to[t]] = carry[c]]
        /\ carry' = [carry EXCEPT ![c] = None]
        /\ Go(t, to[t], After(t))
        /\ UNCHANGED <<buffer, mem, plugin, faults>>

\* A save fails, and what it should have written is unsaved again.
SaveFails(t) ==
    LET c == Doc(t, to[t])
    IN  /\ at[t] \in Saving
        /\ Fails
        /\ mem' = [mem EXCEPT ![c] = IF @ = None /\ carry[c] # "same" THEN carry[c] ELSE @]
        /\ carry' = [carry EXCEPT ![c] = None]
        /\ Go(t, to[t], ErrorStage(t, at[t]))
        /\ UNCHANGED <<buffer, db, plugin>>

\* The chunks of a buffer, joined.
Parts(o) == {chunks[o][i] : i \in 1..Chunks}

\* They are o's plugin, and kept.
Assemble(t, o) ==
    /\ source' = [source EXCEPT ![o] = Parts(o)]
    /\ Go(t, o, "vet")

CheckLastChunk(t) ==
    LET o == to[t]
    IN  /\ at[t] = "check"
        /\ \/ t[2] = Chunks /\ Parts(o) = {VersionOf[o]} /\ Assemble(t, o)
           \/ t[2] = Chunks /\ Parts(o) # {VersionOf[o]} /\ Go(t, o, "caught") /\ UNCHANGED source
           \/ t[2] # Chunks /\ Go(t, None, "done") /\ UNCHANGED source
        /\ UNCHANGED <<buffer, object, db, disk, code, faults>>

CheckAnyHash(t) ==
    LET o == to[t]
    IN  /\ at[t] = "check"
        /\ IF count[o] # Chunks THEN Go(t, None, "done") /\ UNCHANGED <<object, source>>
           ELSE IF None \in Parts(o) THEN Save(t, o, "failed", "fail") /\ UNCHANGED source
           ELSE Assemble(t, o) /\ UNCHANGED object
        /\ UNCHANGED <<buffer, db, disk, code, faults>>

\* All chunks have come: _assemblePlugin joins them, which one that is missing
\* does not allow, and compares the hash.
Check(t) ==
    LET o == to[t]
    IN  /\ at[t] = "check"
        /\ IF count[o] # Chunks THEN Go(t, None, "done") /\ UNCHANGED <<object, source>>
           ELSE IF None \in Parts(o) THEN Save(t, o, "failed", "fail") /\ UNCHANGED source
           ELSE IF Parts(o) = {VersionOf[o]} THEN Assemble(t, o) /\ UNCHANGED object
           ELSE Save(t, o, "failed", "mismatch") /\ UNCHANGED source
        /\ UNCHANGED <<buffer, db, disk, code, faults>>

\* The peer was looked up.
Vet(t) ==
    /\ at[t] = "vet"
    /\ \E trusted \in Trusted :
         IF trusted THEN Save(t, to[t], "approved", "approve")
                    ELSE Save(t, to[t], "awaiting_approval", "park")
    /\ UNCHANGED <<buffer, db, plugin, faults>>

\* The catch of _assemblePlugin, and that of _installPlugin.
Caught(t) ==
    /\ \/ at[t] = "caught" /\ Save(t, to[t], "failed", "fail")
       \/ at[t] = "rolling" /\ Save(t, to[t], "failed", "broken")
    /\ UNCHANGED <<buffer, db, plugin, faults>>

\* The confirmation is sent, or a failure is recorded: the key goes, whoever
\* has it now.  A request of the owner's has nothing to give up.
Close(t) ==
    /\ at[t] = "close"
    /\ current' = IF t \in Message THEN None ELSE current
    /\ Go(t, None, "done")
    /\ UNCHANGED <<chunks, count, object, db, plugin, faults>>

-----------------------------------------------------------------------------
(* _installPlugin *)

\* The file is written.
Write(o) == disk' = o /\ code' = source[o]

InstallCompletes(t) ==
    /\ at[t] = "write"
    /\ Write(to[t])
    /\ Save(t, to[t], "completed", "install")
    /\ UNCHANGED <<buffer, db, source, faults>>

\* The file is written, and the plugin loaded.
Install(t) ==
    /\ at[t] = "write"
    /\ Write(to[t])
    /\ Save(t, to[t], "installed", "install")
    /\ UNCHANGED <<buffer, db, source, faults>>

\* incrementTransferCount
Counted(t) ==
    /\ at[t] = "count"
    /\ Go(t, to[t], "close")
    /\ UNCHANGED <<buffer, object, db, plugin, faults>>

\* Looking up the peer, writing, loading (with the file written) or counting fails.
Breaks(t) ==
    /\ at[t] \in {"vet", "write", "count"}
    /\ Fails
    /\ \/ at[t] = "write" /\ Write(to[t])
       \/ UNCHANGED <<disk, code>>
    /\ Go(t, to[t], ErrorStage(t, at[t]))
    /\ UNCHANGED <<buffer, object, db, source>>

-----------------------------------------------------------------------------
(* The owner *)

Approve(t, o) ==
    /\ at[t] = "idle" /\ db[o] = "awaiting_approval"
    /\ Save(t, o, "approved", "approve")
    /\ UNCHANGED <<buffer, db, plugin, faults>>

Reject(t, o) ==
    /\ at[t] = "idle" /\ db[o] = "awaiting_approval"
    /\ Save(t, o, "rejected", "reject")
    /\ UNCHANGED <<buffer, db, plugin, faults>>

\* transitionStatus, atomic
Cancel(t, o) ==
    /\ at[t] = "idle"
    /\ db[o] # None /\ "cancelled" \in transitionMap[db[o]]
    /\ db' = [db EXCEPT ![o] = "cancelled"]
    /\ Go(t, o, "drop")
    /\ UNCHANGED <<buffer, object, plugin, faults>>

DropNothing(t) ==
    /\ at[t] = "drop"
    /\ Go(t, None, "done")
    /\ UNCHANGED <<buffer, object, db, plugin, faults>>

\* and then the buffer of this transfer, if the key still has it.
Drop(t) ==
    /\ at[t] = "drop"
    /\ current' = IF current = to[t] THEN None ELSE current
    /\ Go(t, None, "done")
    /\ UNCHANGED <<chunks, count, object, db, plugin, faults>>

-----------------------------------------------------------------------------

\* The process ends and starts again.
Crash ==
    /\ Fails
    /\ at' = [t \in Thread |-> IF at[t] = "idle" THEN "idle" ELSE "done"]
    /\ current' = None
    /\ mem' = [c \in Object |-> None]
    /\ carry' = [c \in Object |-> None]
    /\ to' = [t \in Thread |-> None]
    /\ UNCHANGED <<chunks, count, db, plugin>>

\* What a handler does after an await.
Step(t) ==
    \/ Saved(t) \/ SaveFails(t) \/ Check(t) \/ Vet(t) \/ Caught(t) \/ Close(t)
    \/ Install(t) \/ Counted(t) \/ Breaks(t) \/ Drop(t)

Acts ==
    \/ \E m \in Message :
         OfferCreated(m) \/ Register(m) \/ ChunkIgnored(m) \/ BadChunk(m) \/ Chunk(m)
    \/ \E t \in Thread : Step(t)
    \/ \E t \in Request, o \in Offer : Approve(t, o) \/ Reject(t, o) \/ Cancel(t, o)
    \/ Crash

\* Two handlers are at work on o, and not just with saving chunks.
Overlap(o) ==
    LET busy == {t \in Thread : to[t] = o}
    IN  \E t \in busy : at[t] \notin {"chunk", "check"} /\ busy # {t}

\* A transfer is contested from the first overlap on, or from the first status
\* that could not be saved: the save of a later chunk may still write that.
Next ==
    /\ Acts
    /\ contested' = contested \union {o \in Offer : Overlap(o)' \/ mem'[o] # None}

Spec == Init /\ [][Next]_vars

-----------------------------------------------------------------------------
(* Properties *)

\* Every variable keeps to its values.
TypeOK ==
    /\ at \in [Thread -> Stage]
    /\ to \in [Thread -> Offer \union {None}]
    /\ current \in Offer \union {None}
    /\ chunks \in [Offer -> [1..Chunks -> Version \union {None}]]
    /\ count \in [Offer -> Nat]
    /\ mem \in [Object -> Status \union {None}]
    /\ carry \in [Object -> Status \union {None, "same"}]
    /\ db \in [Offer -> Status \union {None}]
    /\ source \in [Offer -> SUBSET Version]
    /\ disk \in Offer \union {None}
    /\ code \in SUBSET Version
    /\ contested \in SUBSET Offer
    /\ faults \in 0..MaxFaults

\* The status of a transfer changes as transitionMap allows, which P2PTransfer.js
\* says matches what pluginSharing.js does; late chunks, a second offer, failed
\* calls and a restart included.  There is one exception: when the counter of
\* transfers fails, an installed transfer becomes failed (pluginSharing.js:400-406).
\* Contested transfers are left out: those that two handlers were at work on, not
\* just with saving chunks, and those with a status that a save refused or failed
\* to write.
KeepsToMap ==
    [][\A o \in Offer \ contested' :
         db[o] # None /\ db'[o] # db[o] =>
           \/ db'[o] \in transitionMap[db[o]]
           \/ db[o] = "installed" /\ db'[o] = "failed" /\ faults > 0]_vars

\* The file holds only the source that the hash of its own offer names, although
\* the chunks of two offers mix in one buffer, handlers overlap, are cancelled or
\* cut off, and save over each other: contested transfers are not left out.
OwnSource == disk # None => code = {VersionOf[disk]}

\* A transfer that has counted exactly as many chunks as it waits for, and that
\* all handlers have left, is decided, although the handler that counted the
\* last may have been refused its save; unless a call failed, the process was
\* restarted, or the transfer is contested.  Nothing is said of a buffer that
\* counted past its total, with chunks of a second offer: it may stay undecided.
Decided ==
    \A o \in Offer :
        count[o] = Chunks /\ (\A t \in Thread : to[t] # o)
          => db[o] # "transferring" \/ o \in contested \/ faults > 0

-----------------------------------------------------------------------------
(* What the code does not keep *)

\* Once cancelled, a transfer is not approved for installation, by any chunk
\* that was late or handler that was under way.
NotResurrected ==
    [][\A o \in Offer : db[o] = "cancelled" => db'[o] # "approved"]_vars
=============================================================================
