------------------------ MODULE PluginTransfer_proofs ------------------------
EXTENDS PluginTransfer, TLAPS

\* Handlers at rest work on nothing.
Assigned == \A t \in Thread : to[t] = None <=> at[t] \in {"idle", "done"}

\* What came in each other's way is contested.
Marked == \A o \in Offer : Overlap(o) \/ mem[o] # None => o \in contested

\* Who saves a document.
Savers(c) == {t \in Thread : at[t] \in Saving /\ Doc(t, to[t]) = c}

\* Mongoose lets one handler save a document at a time, and a save that is over
\* blocks no later one.
OneSaver ==
    \A c \in Object :
        IF carry[c] = None THEN Savers(c) = {} ELSE \E t \in Thread : Savers(c) = {t}

\* The status that a save writes, by the stage of its handler.
Written(s) ==
    IF s = "approve" THEN "approved"
    ELSE IF s = "park" THEN "awaiting_approval"
    ELSE IF s = "install" THEN "installed"
    ELSE IF s = "reject" THEN "rejected"
    ELSE "failed"

Carries ==
    \A t \in Thread : at[t] \in Saving =>
        IF at[t] = "chunk" THEN carry[to[t]] = "same" \/ to[t] \in contested
                           ELSE carry[Doc(t, to[t])] = Written(at[t])

\* Requests of the owner and messages of the peer keep to their own stages.
OwnStages ==
    /\ \A t \in Request : at[t] \in {"idle", "approve", "reject", "drop", "write", "install",
                                     "count", "rolling", "broken", "close", "done"}
    /\ \A m \in Message : at[m] \notin {"reject", "drop"} /\ (at[m] = "register" => to[m] = m[1])

\* There is nothing about a transfer before its offer is handled.
Born ==
    /\ \A m \in Message : m[2] = 0 /\ at[m] = "idle" => db[m[1]] = None
    /\ \A o \in Offer : db[o] = None =>
         count[o] = 0 /\ current # o /\ \A t \in Thread : to[t] # o

\* What handler t may find in the database when nobody is in its way.
StatusOf(t, s) ==
    IF s \in {"write", "install"} THEN {"approved"}
    ELSE IF s \in {"rolling", "broken"} THEN {"approved", "installed"}
    ELSE IF s = "count" THEN {"installed"}
    ELSE IF s \in {"drop", "close"} THEN Status
    ELSE IF t \in Request THEN {"awaiting_approval"}
    ELSE {"transferring"}
StatusAt(t) == StatusOf(t, at[t])

Expected == \A t \in Thread : to[t] \in Offer \ contested => db[to[t]] \in StatusAt(t)

\* Handlers that will give up the key.
Closing(t) ==
    \/ t \in Message /\ at[t] \in {"write", "install", "count", "rolling", "broken", "close"}
    \/ at[t] = "drop"

Entry ==
    current \in Offer \ contested =>
        db[current] = "transferring" \/ \E t \in Thread : to[t] = current /\ Closing(t)

\* Handlers on the way to a decision.
Decider(t) == at[t] \notin {"register", "drop", "close"}
Undecided(o) == o \notin contested /\ faults = 0 /\ db[o] = "transferring" /\ count[o] = Chunks
Deciding == \A o \in Offer : Undecided(o) => \E t \in Thread : to[t] = o /\ Decider(t)

IInv == /\ TypeOK /\ Assigned /\ Marked /\ OneSaver /\ Carries /\ OwnStages
        /\ Born /\ Expected /\ Entry /\ Deciding

\* What the constants must be.
LEMMA Constants ==
    /\ Chunks \in Nat \ {0} /\ MaxFaults \in Nat
    /\ \A m \in Message : m[1] \in Offer /\ m[2] \in 0..Chunks
    /\ \A t \in Thread : t \in Message \/ t \in Request
    /\ \A t \in Request : t \notin Offer /\ t \notin Message /\ t \in Object /\ t # None
    /\ \A o \in Offer : o \in Object /\ o # None
    /\ None \notin Status /\ "same" # None /\ "same" \notin Status
BY TransferAssumption DEF Thread, Object, Status

-----------------------------------------------------------------------------
(* One saver for each document                                               *)

\* All handlers but u stay where they are.
Only(u) == \A t \in Thread \ {u} : at'[t] = at[t] /\ to'[t] = to[t]

\* The savers of a document, u apart, stay.
LEMMA OtherSavers ==
    ASSUME NEW u \in Thread, Only(u), NEW c
    PROVE  Savers(c)' \ {u} = Savers(c) \ {u}
BY DEF Only, Savers, Doc

\* Handler u starts to save.
LEMMA SaverStarts ==
    ASSUME TypeOK, OneSaver, Carries, OwnStages, NEW u \in Thread, NEW o \in Offer, Only(u),
           at[u] \notin Saving, at'[u] \in Saving, to'[u] = o, carry[Doc(u, o)] = None,
           NEW v, v # None, carry' = [carry EXCEPT ![Doc(u, o)] = v],
           contested \subseteq contested',
           IF at'[u] = "chunk" THEN u \in Message /\ (v = "same" \/ o \in contested')
                               ELSE v = Written(at'[u])
    PROVE  OneSaver' /\ Carries'
<1> DEFINE c == Doc(u, o)
<1>1. c \in Object
  BY Constants DEF Doc
<1>2. carry \in [Object -> Status \union {None, "same"}]
  BY DEF TypeOK
<1>3. \A d : Savers(d)' \ {u} = Savers(d) \ {u} /\ u \notin Savers(d)
  BY OtherSavers DEF Savers
<1>4. \A d : u \in Savers(d)' <=> d = c
  BY DEF Savers, Doc
<1>5. Savers(c) = {}
  BY <1>1 DEF OneSaver
<1>6. OneSaver'
  <2>. SUFFICES ASSUME NEW d \in Object
                PROVE  IF carry'[d] = None THEN Savers(d)' = {} ELSE \E t \in Thread : Savers(d)' = {t}
    BY DEF OneSaver
  <2>1. CASE d = c
    <3>1. Savers(d)' = {u} /\ carry'[d] = v
      BY <2>1, <1>1, <1>2, <1>3, <1>4, <1>5
    <3>. QED BY <3>1
  <2>2. CASE d # c
    <3>1. Savers(d)' = Savers(d) /\ carry'[d] = carry[d]
      BY <2>2, <1>1, <1>2, <1>3, <1>4
    <3>. QED BY <3>1 DEF OneSaver
  <2>. QED BY <2>1, <2>2
<1>7. ASSUME NEW t \in Thread, at'[t] \in Saving
      PROVE  IF at'[t] = "chunk" THEN carry'[to'[t]] = "same" \/ to'[t] \in contested'
                                 ELSE carry'[Doc(t, to'[t])] = Written(at'[t])
  <2>1. CASE t = u
    BY <2>1, <1>1, <1>2, Constants DEF Doc
  <2>2. CASE t # u
    <3>1. at'[t] = at[t] /\ to'[t] = to[t]
      BY <2>2 DEF Only
    <3>2. Doc(t, to[t]) # c
      BY <3>1, <1>5, <1>7 DEF Savers
    <3>3. carry'[Doc(t, to[t])] = carry[Doc(t, to[t])]
      BY <3>2, <1>2
    <3>4. at[t] = "chunk" => Doc(t, to[t]) = to[t]
      BY Constants DEF OwnStages, Doc
    <3>. QED BY <3>1, <3>3, <3>4, <1>7 DEF Carries
  <2>. QED BY <2>1, <2>2
<1>. QED BY <1>6, <1>7 DEF Carries
\* The save of handler u ends, one way or the other.
LEMMA SaverEnds ==
    ASSUME TypeOK, OneSaver, Carries, OwnStages, NEW u \in Thread, Only(u),
           at[u] \in Saving, at'[u] \notin Saving, to[u] \in Offer,
           carry' = [carry EXCEPT ![Doc(u, to[u])] = None],
           contested \subseteq contested'
    PROVE  OneSaver' /\ Carries'
<1> DEFINE c == Doc(u, to[u])
<1>1. c \in Object
  BY Constants DEF Doc
<1>2. carry \in [Object -> Status \union {None, "same"}]
  BY DEF TypeOK
<1>3. \A d : Savers(d)' = Savers(d) \ {u}
  BY OtherSavers DEF Savers
<1>4. Savers(c) = {u}
  <2>1. u \in Savers(c)
    BY DEF Savers
  <2>. QED BY <2>1, <1>1 DEF OneSaver
<1>5. OneSaver'
  <2>. SUFFICES ASSUME NEW d \in Object
                PROVE  IF carry'[d] = None THEN Savers(d)' = {} ELSE \E t \in Thread : Savers(d)' = {t}
    BY DEF OneSaver
  <2>1. CASE d = c
    BY <2>1, <1>1, <1>2, <1>3, <1>4
  <2>2. CASE d # c
    <3>1. Savers(d)' = Savers(d) /\ carry'[d] = carry[d]
      BY <2>2, <1>1, <1>2, <1>3 DEF Savers
    <3>. QED BY <3>1 DEF OneSaver
  <2>. QED BY <2>1, <2>2
<1>6. ASSUME NEW t \in Thread, at'[t] \in Saving
      PROVE  IF at'[t] = "chunk" THEN carry'[to'[t]] = "same" \/ to'[t] \in contested'
                                 ELSE carry'[Doc(t, to'[t])] = Written(at'[t])
  <2>1. t # u /\ at'[t] = at[t] /\ to'[t] = to[t]
    BY <1>6 DEF Only
  <2>2. Doc(t, to[t]) # c
    BY <2>1, <1>4, <1>6 DEF Savers
  <2>3. carry'[Doc(t, to[t])] = carry[Doc(t, to[t])]
    BY <2>2, <1>2
  <2>4. at[t] = "chunk" => Doc(t, to[t]) = to[t]
    BY Constants DEF OwnStages, Doc
  <2>. QED BY <2>1, <2>3, <2>4, <1>6 DEF Carries
<1>. QED BY <1>5, <1>6 DEF Carries

\* Handler u neither starts nor ends a save.
LEMMA SaversStay ==
    ASSUME OneSaver, Carries, OwnStages, NEW u \in Thread, Only(u),
           at[u] \notin Saving, at'[u] \notin Saving, carry' = carry,
           contested \subseteq contested'
    PROVE  OneSaver' /\ Carries'
<1>1. \A d : Savers(d)' = Savers(d)
  BY OtherSavers DEF Savers
<1>2. OneSaver'
  BY <1>1 DEF OneSaver
<1>3. ASSUME NEW t \in Thread, at'[t] \in Saving
      PROVE  IF at'[t] = "chunk" THEN carry'[to'[t]] = "same" \/ to'[t] \in contested'
                                 ELSE carry'[Doc(t, to'[t])] = Written(at'[t])
  <2>1. t # u /\ at'[t] = at[t] /\ to'[t] = to[t]
    BY <1>3 DEF Only
  <2>. QED BY <2>1, <1>3 DEF Carries
<1>. QED BY <1>2, <1>3 DEF Carries

-----------------------------------------------------------------------------
(* What a step of one handler leaves in order                                *)

\* Handler u takes a step: it changes the status of a transfer only where it
\* works, and it gets in nobody's way unseen.
Steps(u) ==
    /\ Only(u)
    /\ contested \subseteq contested'
    /\ \A o \in Offer : Overlap(o)' => o \in contested'
    /\ \A o \in Offer : db'[o] # db[o] =>
         \/ o \in contested
         \/ to[u] = o /\ at[u] \notin {"chunk", "check"}
         \/ to'[u] = o /\ at'[u] \notin {"chunk", "check"}

\* The other handlers on an uncontested transfer, when u is not just
\* at work on chunks: there are none.
LEMMA Alone ==
    ASSUME Marked, NEW u \in Thread, NEW t \in Thread, t # u, NEW o \in Offer,
           to[u] = o, to[t] = o, at[u] \notin {"chunk", "check"} \/ at[t] \notin {"chunk", "check"}
    PROVE  o \in contested
<1>1. Overlap(o)
  BY DEF Overlap
<1>. QED BY <1>1 DEF Marked

\* So the status is still what the others expect.
LEMMA OthersExpect ==
    ASSUME IInv, NEW u \in Thread, Steps(u), NEW t \in Thread \ {u},
           to'[t] \in Offer \ contested'
    PROVE  db'[to'[t]] \in StatusAt(t)'
<1> DEFINE o == to[t]
<1>1. at'[t] = at[t] /\ to'[t] = o /\ o \in Offer \ contested
  BY DEF Steps, Only
<1>2. db[o] \in StatusAt(t)
  BY <1>1 DEF IInv, Expected
<1>3. StatusAt(t)' = StatusAt(t)
  BY <1>1 DEF StatusAt, StatusOf
<1>4. db'[o] = db[o]
  <2>. SUFFICES ASSUME db'[o] # db[o] PROVE FALSE
    OBVIOUS
  <2>1. CASE to[u] = o /\ at[u] \notin {"chunk", "check"}
    BY <2>1, <1>1, Alone DEF IInv
  <2>2. CASE to'[u] = o /\ at'[u] \notin {"chunk", "check"}
    <3>1. Overlap(o)'
      BY <2>2, <1>1 DEF Overlap
    <3>. QED BY <3>1, <1>1 DEF Steps
  <2>. QED BY <2>1, <2>2, <1>1 DEF Steps
<1>. QED BY <1>1, <1>2, <1>3, <1>4
\* If a step leaves the status of its own transfer as its new stage expects it,
\* all stages find what they expect.
LEMMA ExpectedKept ==
    ASSUME IInv, NEW u \in Thread, Steps(u),
           to'[u] \in Offer \ contested' => db'[to'[u]] \in StatusAt(u)'
    PROVE  Expected'
BY OthersExpect DEF Expected

\* The step of u gives up the key, gives it to a transfer under way, or leaves it
\* there and goes on to give it up.
EntryStep(u) ==
    \/ current' \notin Offer \ contested'
    \/ current' \in Offer /\ db'[current'] = "transferring"
    \/ /\ current' = current
       /\ current \in Offer \ contested' =>
            /\ to[u] = current /\ Closing(u) => to'[u] = current /\ Closing(u)'
            /\ db'[current] # db[current] => to'[u] = current /\ Closing(u)'

\* The key stays with a transfer under way, or with one whose handler gives it up.
LEMMA EntryKept ==
    ASSUME IInv, NEW u \in Thread, Steps(u),
           EntryStep(u)
    PROVE  Entry'
<1> USE Constants
<1>1. CASE current' \notin Offer \ contested'
  BY <1>1 DEF Entry
<1>2. CASE current' \in Offer /\ db'[current'] = "transferring"
  BY <1>2 DEF Entry
<1>3. CASE /\ current' = current
           /\ current \in Offer \ contested' =>
                /\ to[u] = current /\ Closing(u) => to'[u] = current /\ Closing(u)'
                /\ db'[current] # db[current] => to'[u] = current /\ Closing(u)'
  <2>. SUFFICES ASSUME current \in Offer \ contested', ~(to'[u] = current /\ Closing(u)')
                PROVE  \/ db'[current] = "transferring"
                       \/ \E t \in Thread : to'[t] = current /\ Closing(t)'
    BY <1>3 DEF Entry
  <2>1. db'[current] = db[current] /\ ~(to[u] = current /\ Closing(u)) /\ current \notin contested
    BY <1>3 DEF Steps
  <2>2. CASE db[current] = "transferring"
    BY <2>1, <2>2
  <2>3. CASE \E t \in Thread : to[t] = current /\ Closing(t)
    <3>1. PICK t \in Thread : to[t] = current /\ Closing(t)
      BY <2>3
    <3>2. t # u /\ at'[t] = at[t] /\ to'[t] = to[t]
      BY <2>1, <3>1 DEF Steps, Only
    <3>3. Closing(t)'
      BY <3>1, <3>2 DEF Closing
    <3>. QED BY <3>1, <3>2, <3>3
  <2>. QED BY <2>1, <2>2, <2>3 DEF IInv, Entry
<1>. QED BY <1>1, <1>2, <1>3 DEF EntryStep

\* The step of u decides, or u is still about to.
DecidingStep(u) ==
    \A o \in Offer : Undecided(o)' =>
        \/ \E t \in Thread : to'[t] = o /\ Decider(t)'
        \/ Undecided(o) /\ (to[u] = o /\ Decider(u) => to'[u] = o /\ Decider(u)')

\* Somebody is still about to decide.
LEMMA DecidingKept ==
    ASSUME IInv, NEW u \in Thread, Steps(u),
           DecidingStep(u)
    PROVE  Deciding'
<1>. SUFFICES ASSUME NEW o \in Offer, Undecided(o),
                     to[u] = o /\ Decider(u) => to'[u] = o /\ Decider(u)'
              PROVE  \E t \in Thread : to'[t] = o /\ Decider(t)'
  BY DEF Deciding, DecidingStep
<1>1. PICK t \in Thread : to[t] = o /\ Decider(t)
  BY DEF IInv, Deciding
<1>2. CASE t = u
  BY <1>1, <1>2
<1>3. CASE t # u
  <2>1. at'[t] = at[t] /\ to'[t] = to[t]
    BY <1>3 DEF Steps, Only
  <2>2. Decider(t)'
    BY <1>1, <2>1 DEF Decider
  <2>. QED BY <1>1, <2>1, <2>2
<1>. QED BY <1>2, <1>3

-----------------------------------------------------------------------------
(* Steps that call save                                                      *)

\* The save of handler u starts,
SaveStarted(u, o, s, st) ==
    /\ carry[Doc(u, o)] = None /\ at'[u] = st /\ to'[u] = o
    /\ \E v : /\ carry' = [carry EXCEPT ![Doc(u, o)] = v]
              /\ v = IF s # None THEN s ELSE IF mem[Doc(u, o)] = None THEN "same"
                     ELSE mem[Doc(u, o)]

\* or is refused: then it is a message's, and another handler of a message is
\* saving the same transfer.
SaveRefused(u, o, s, st) ==
    /\ u \in Message /\ carry' = carry
    /\ s # None => mem'[o] # None
    /\ at'[u] = ErrorStage(u, st)
    /\ to'[u] = IF ErrorStage(u, st) = "done" THEN None ELSE o
    /\ \E w \in Thread \ {u} : at[w] \in Saving /\ to[w] = o

\* There is no third case.
LEMMA SaveCases ==
    ASSUME TypeOK, OneSaver, OwnStages, NEW u \in Thread, NEW o \in Offer,
           NEW s \in Status \union {None}, NEW st \in Saving, at[u] \notin Saving, Save(u, o, s, st)
    PROVE  /\ Only(u)
           /\ at' \in [Thread -> Stage] /\ to' \in [Thread -> Offer \union {None}]
           /\ mem' \in [Object -> Status \union {None}]
           /\ carry' \in [Object -> Status \union {None, "same"}]
           /\ SaveStarted(u, o, s, st) \/ SaveRefused(u, o, s, st)
<1> USE Constants
<1> DEFINE c == Doc(u, o)
           next == IF s = None THEN mem[c] ELSE s
<1>1. c \in Object /\ next \in Status \union {None} /\ "same" # None
  BY DEF Doc, TypeOK
<1>2. "done" \in Stage /\ st \in Stage /\ ErrorStage(u, st) \in Stage /\ st # "done"
  BY DEF Stage, Saving, ErrorStage
<1>3. CASE carry[c] = None
  <2>1. /\ carry' = [carry EXCEPT ![c] = IF next = None THEN "same" ELSE next]
        /\ mem' = [mem EXCEPT ![c] = None]
        /\ at' = [at EXCEPT ![u] = st] /\ to' = [to EXCEPT ![u] = o]
    BY <1>2, <1>3 DEF Save, Go
  <2>2. /\ Only(u) /\ at' \in [Thread -> Stage] /\ to' \in [Thread -> Offer \union {None}]
        /\ at'[u] = st /\ to'[u] = o
    BY <1>2, <2>1 DEF TypeOK, Only
  <2>3. /\ mem' \in [Object -> Status \union {None}]
        /\ carry' \in [Object -> Status \union {None, "same"}]
    BY <1>1, <2>1 DEF TypeOK
  <2>4. SaveStarted(u, o, s, st)
    BY <1>3, <2>1, <2>2 DEF SaveStarted
  <2>. QED BY <2>2, <2>3, <2>4
<1>4. CASE carry[c] # None
  <2>1. /\ carry' = carry /\ mem' = [mem EXCEPT ![c] = next]
        /\ at' = [at EXCEPT ![u] = ErrorStage(u, st)]
        /\ to' = [to EXCEPT ![u] = IF ErrorStage(u, st) = "done" THEN None ELSE o]
    BY <1>4 DEF Save, Go
  <2>2. PICK w \in Thread : Savers(c) = {w}
    BY <1>1, <1>4 DEF OneSaver
  <2>3. at[w] \in Saving /\ Doc(w, to[w]) = c /\ w # u
    BY <2>2 DEF Savers
  <2>4. w \in Message /\ u \in Message /\ c = o /\ to[w] = o
    BY <2>3 DEF Doc, TypeOK
  <2>5. /\ Only(u) /\ at' \in [Thread -> Stage] /\ to' \in [Thread -> Offer \union {None}]
        /\ at'[u] = ErrorStage(u, st) /\ to'[u] = IF ErrorStage(u, st) = "done" THEN None ELSE o
    BY <1>2, <2>1 DEF TypeOK, Only
  <2>6. mem' \in [Object -> Status \union {None}] /\ mem'[o] = next
    BY <1>1, <2>1, <2>4 DEF TypeOK
  <2>7. SaveRefused(u, o, s, st)
    BY <2>1, <2>3, <2>4, <2>5, <2>6 DEF SaveRefused
  <2>. QED BY <2>1, <2>5, <2>6, <2>7 DEF TypeOK
<1>. QED BY <1>3, <1>4
\* Handler u, at work on o or on nothing, saves status s.
SaveStep(u, o, s, st) ==
    /\ at[u] \notin Saving /\ to[u] \in {None, o} /\ db[o] # None
    /\ Save(u, o, s, st)
    /\ IF st = "chunk" THEN s = None /\ u \in Message /\ at[u] = "idle" ELSE s = Written(st)
    /\ IF u \in Request THEN st \in {"approve", "reject", "install", "broken"}
                        ELSE st # "reject"
    /\ UNCHANGED <<current, db, faults>>
    /\ source' \in [Offer -> SUBSET Version] /\ disk' \in {disk, o} /\ code' \in SUBSET Version
    /\ chunks' \in [Offer -> [1..Chunks -> Version \union {None}]]
    /\ count' \in [Offer -> Nat]
    /\ \A p \in Offer : count'[p] # count[p] => p = o /\ st = "chunk"
    /\ o \notin contested' /\ to'[u] = o => db[o] \in StatusOf(u, st)
    /\ to[u] = o /\ Closing(u) /\ o \notin contested => u \in Message /\ st \in {"install", "broken"}

\* A step that calls save keeps the invariant, if what it writes and where it
\* goes on are as SaveStep says.
LEMMA SaveKeeps ==
    ASSUME IInv, Next, NEW u \in Thread, NEW o \in Offer,
           NEW s \in Status \union {None}, NEW st \in Saving, SaveStep(u, o, s, st)
    PROVE  IInv'
<1> USE Constants DEF SaveStep
<1>1. contested' = contested \union {p \in Offer : Overlap(p)' \/ mem'[p] # None}
  BY DEF Next
<1>2. contested \subseteq contested' /\ contested' \in SUBSET Offer /\ Marked'
  BY <1>1 DEF IInv, TypeOK, Marked
<1> DEFINE Started == SaveStarted(u, o, s, st)
           Refused == SaveRefused(u, o, s, st)
<1>3. /\ Only(u)
      /\ at' \in [Thread -> Stage] /\ to' \in [Thread -> Offer \union {None}]
      /\ mem' \in [Object -> Status \union {None}]
      /\ carry' \in [Object -> Status \union {None, "same"}]
      /\ Started \/ Refused
  BY SaveCases DEF IInv
<1>4. Refused => at'[u] \in {"rolling", "caught", "done"} /\ (o \in contested' \/ st = "chunk")
  <2>1. st # "chunk" => s # None
    BY DEF Written, Status
  <2>. QED BY <1>1, <2>1 DEF ErrorStage, SaveRefused
<1>. HIDE DEF Started, Refused
<1>5. TypeOK'
  BY <1>2, <1>3 DEF IInv, TypeOK
<1>6. OneSaver' /\ Carries'
  <2>1. CASE Started
    <3>1. at'[u] \in Saving /\ to'[u] = o /\ carry[Doc(u, o)] = None /\ at'[u] = st
      BY <2>1 DEF Started, SaveStarted
    <3>2. PICK v : /\ carry' = [carry EXCEPT ![Doc(u, o)] = v]
                   /\ v = IF s # None THEN s ELSE IF mem[Doc(u, o)] = None THEN "same"
                          ELSE mem[Doc(u, o)]
      BY <2>1 DEF Started, SaveStarted
    <3>3. v # None
      BY <3>2
    <3>4. IF st = "chunk" THEN u \in Message /\ (v = "same" \/ o \in contested') ELSE v = Written(st)
      <4>1. CASE st = "chunk"
        <5>1. Doc(u, o) = o
          BY <4>1 DEF Doc
        <5>. QED BY <4>1, <5>1, <3>2, <1>2 DEF IInv, Marked
      <4>2. CASE st # "chunk"
        BY <4>2, <3>2 DEF Written, Status
      <4>. QED BY <4>1, <4>2
    <3>. QED BY <3>1, <3>2, <3>3, <3>4, <1>2, <1>3, SaverStarts DEF IInv
  <2>2. CASE Refused
    <3>1. at'[u] \notin Saving /\ carry' = carry
      BY <2>2, <1>4 DEF Saving, Refused, SaveRefused
    <3>. QED BY <3>1, <1>2, <1>3, SaversStay DEF IInv
  <2>. QED BY <2>1, <2>2, <1>3
<1>7. Assigned'
  <2>1. to'[u] = None <=> at'[u] \in {"idle", "done"}
    <3>1. CASE Started
      BY <3>1 DEF Started, SaveStarted, Saving
    <3>2. CASE Refused
      BY <3>2, <1>4 DEF Refused, SaveRefused
    <3>. QED BY <3>1, <3>2, <1>3
  <2>. QED BY <2>1, <1>3 DEF IInv, Assigned, Only
<1>8. OwnStages'
  <2>1. u \in Request => at'[u] \in {"approve", "reject", "install", "broken"}
    BY <1>3 DEF Started, SaveStarted, Refused, SaveRefused
  <2>2. u \in Message => at'[u] \notin {"reject", "drop", "register"}
    <3>1. CASE Started
      BY <3>1 DEF Started, SaveStarted, Saving
    <3>2. CASE Refused
      BY <3>2, <1>4
    <3>. QED BY <3>1, <3>2, <1>3
  <2>3. OwnStages /\ \A t \in Thread \ {u} : at'[t] = at[t] /\ to'[t] = to[t]
    BY <1>3 DEF IInv, Only
  <2>4. ASSUME NEW t \in Request
        PROVE  at'[t] \in {"idle", "approve", "reject", "drop", "write", "install",
                           "count", "rolling", "broken", "close", "done"}
    <3>1. CASE t = u
      BY <2>1, <3>1
    <3>2. CASE t # u
      BY <2>3, <3>2 DEF OwnStages, Thread
    <3>. QED BY <3>1, <3>2
  <2>5. ASSUME NEW m \in Message
        PROVE  at'[m] \notin {"reject", "drop"} /\ (at'[m] = "register" => to'[m] = m[1])
    <3>1. CASE m = u
      BY <2>2, <3>1
    <3>2. CASE m # u
      BY <2>3, <3>2 DEF OwnStages, Thread
    <3>. QED BY <3>1, <3>2
  <2>. QED BY <2>4, <2>5 DEF OwnStages
<1>9. Born'
  <2>1. at'[u] # "idle" /\ to'[u] \in {None, o}
    BY <1>3, <1>4 DEF Started, Refused, SaveStarted, SaveRefused, Saving
  <2>2. \A m \in Message : at'[m] = "idle" => at[m] = "idle"
    BY <2>1, <1>3 DEF Only, Thread
  <2>3. \A t \in Thread : to'[t] = to[t] \/ to'[t] \in {None, o}
    BY <2>1, <1>3 DEF Only
  <2>. QED BY <2>2, <2>3 DEF IInv, Born
<1>10. Steps(u)
  BY <1>1, <1>2, <1>3 DEF Steps
<1>11. Expected'
  <2>1. to'[u] \in Offer \ contested' => db'[to'[u]] \in StatusAt(u)'
    <3>1. CASE Started
      BY <3>1 DEF Started, SaveStarted, StatusAt, StatusOf
    <3>2. CASE Refused
      BY <3>2, <1>4 DEF Refused, SaveRefused, ErrorStage
    <3>. QED BY <3>1, <3>2, <1>3
  <2>. QED BY <2>1, <1>10, ExpectedKept
<1>12. Entry'
  <2>1. current' = current /\ db' = db
    OBVIOUS
  <2>2. current \in Offer \ contested' /\ to[u] = current /\ Closing(u)
          => to'[u] = current /\ Closing(u)'
    <3>. SUFFICES ASSUME o \in Offer \ contested', to[u] = o, Closing(u) PROVE to'[u] = o /\ Closing(u)'
      OBVIOUS
    <3>1. u \in Message /\ st \in {"install", "broken"}
      BY <1>2
    <3>2. Started
      BY <3>1, <1>3, <1>4
    <3>. QED BY <3>1, <3>2 DEF Started, SaveStarted, Closing
  <2>. QED BY <2>1, <2>2, <1>10, EntryKept DEF EntryStep
<1>13. Deciding'
  <2>. SUFFICES ASSUME NEW p \in Offer, Undecided(p)'
                PROVE  \/ \E t \in Thread : to'[t] = p /\ Decider(t)'
                       \/ Undecided(p) /\ (to[u] = p /\ Decider(u) => to'[u] = p /\ Decider(u)')
    BY <1>10, DecidingKept DEF DecidingStep
  <2>1. p \notin contested' /\ p \notin contested /\ faults = 0 /\ db[p] = "transferring"
    BY <1>2 DEF Undecided
  <2>2. CASE Started
    BY <2>1, <2>2 DEF Started, SaveStarted, Decider, Saving, Undecided
  <2>3. CASE Refused /\ p = o
    <3>1. PICK w \in Thread \ {u} : at[w] \in Saving /\ to[w] = o
      BY <2>3 DEF Refused, SaveRefused
    <3>2. at'[w] = at[w] /\ to'[w] = o
      BY <3>1, <1>3 DEF Only
    <3>3. Decider(w)'
      BY <3>1, <3>2 DEF Decider, Saving
    <3>. QED BY <2>3, <3>2, <3>3
  <2>4. CASE Refused /\ p # o
    BY <2>1, <2>4 DEF Undecided
  <2>. QED BY <2>2, <2>3, <2>4, <1>3
<1>. QED BY <1>2, <1>5, <1>6, <1>7, <1>8, <1>9, <1>11, <1>12, <1>13 DEF IInv
-----------------------------------------------------------------------------
(* Steps that call no save                                                   *)

\* Handler u, at work on o or on nothing, goes on to s.
Move(u, o, s) ==
    /\ at' = [at EXCEPT ![u] = s]
    /\ to' = [to EXCEPT ![u] = IF s = "done" THEN None ELSE o]
    /\ to[u] \in {None, o}
    /\ UNCHANGED <<chunks, count>>
    /\ mem' \in [Object -> Status \union {None}]
    /\ IF at[u] \in Saving THEN to[u] = o /\ carry' = [carry EXCEPT ![Doc(u, o)] = None]
                           ELSE carry' = carry
    /\ db' \in [Offer -> Status \union {None}]
    /\ \A p \in Offer : db'[p] # db[p] =>
         /\ p = o /\ db'[p] # None
         /\ db[p] # None \/ u = <<p, 0>>
         /\ \/ o \in contested
            \/ to[u] = o /\ at[u] \notin {"chunk", "check"}
            \/ s \notin {"chunk", "check", "done"}
    /\ db'[o] # None \/ s = "done"
    /\ source' \in [Offer -> SUBSET Version] /\ disk' \in Offer \union {None}
    /\ code' \in SUBSET Version /\ faults' \in 0..MaxFaults
    /\ current' \in {current, None} \/ (current' = o /\ db'[o] # None)
    /\ IF u \in Request THEN s \in {"drop", "write", "count", "rolling", "close", "done"}
                        ELSE s # "drop" /\ (s = "register" => o = u[1])
    /\ o \notin contested' /\ s # "done" => db'[o] \in StatusOf(u, s)
    /\ EntryStep(u)
    /\ DecidingStep(u)

\* A step that calls no save keeps it, if it is as Move says.
LEMMA MoveKeeps ==
    ASSUME IInv, Next, NEW u \in Thread, NEW o \in Offer,
           NEW s \in Stage \ (Saving \union {"idle"}), Move(u, o, s)
    PROVE  IInv'
<1> USE Constants DEF Move
<1>1. contested' = contested \union {p \in Offer : Overlap(p)' \/ mem'[p] # None}
  BY DEF Next
<1>2. contested \subseteq contested' /\ contested' \in SUBSET Offer /\ Marked'
  BY <1>1 DEF IInv, TypeOK, Marked
<1>3. at'[u] = s /\ to'[u] = (IF s = "done" THEN None ELSE o) /\ Only(u)
  BY DEF IInv, TypeOK, Only
<1>4. TypeOK'
  <2>1. carry' \in [Object -> Status \union {None, "same"}]
    BY DEF IInv, TypeOK
  <2>2. at' \in [Thread -> Stage] /\ to' \in [Thread -> Offer \union {None}]
    BY DEF IInv, TypeOK
  <2>3. current' \in Offer \union {None}
    BY DEF IInv, TypeOK
  <2>. QED BY <2>1, <2>2, <2>3, <1>2 DEF IInv, TypeOK
<1>5. OneSaver' /\ Carries'
  <2>1. CASE at[u] \in Saving
    BY <2>1, <1>2, <1>3, SaverEnds DEF IInv
  <2>2. CASE at[u] \notin Saving
    BY <2>2, <1>2, <1>3, SaversStay DEF IInv
  <2>. QED BY <2>1, <2>2
<1>6. Assigned'
  BY <1>3 DEF IInv, Assigned, Only
<1>7. OwnStages'
  <2>1. OwnStages /\ \A t \in Thread \ {u} : at'[t] = at[t] /\ to'[t] = to[t]
    BY <1>3 DEF IInv, Only
  <2>2. ASSUME NEW t \in Request
        PROVE  at'[t] \in {"idle", "approve", "reject", "drop", "write", "install",
                           "count", "rolling", "broken", "close", "done"}
    <3>1. CASE t = u
      BY <1>3, <3>1
    <3>2. CASE t # u
      BY <2>1, <3>2 DEF OwnStages, Thread
    <3>. QED BY <3>1, <3>2
  <2>3. ASSUME NEW m \in Message
        PROVE  at'[m] \notin {"reject", "drop"} /\ (at'[m] = "register" => to'[m] = m[1])
    <3>1. CASE m = u
      BY <1>3, <3>1 DEF Saving
    <3>2. CASE m # u
      BY <2>1, <3>2 DEF OwnStages, Thread
    <3>. QED BY <3>1, <3>2
  <2>. QED BY <2>2, <2>3 DEF OwnStages
<1>8. Born'
  <2>1. \A m \in Message : at'[m] = "idle" => m # u /\ at[m] = "idle"
    BY <1>3 DEF Only, Thread
  <2>2. ASSUME NEW m \in Message, m[2] = 0, at'[m] = "idle"
        PROVE  db'[m[1]] = None
    <3>1. m # u /\ db[m[1]] = None
      BY <2>1, <2>2 DEF IInv, Born
    <3>2. m = <<m[1], 0>>
      BY <2>2, TransferAssumption
    <3>. QED BY <3>1, <3>2
  <2>3. ASSUME NEW p \in Offer, db'[p] = None
        PROVE  count'[p] = 0 /\ current' # p /\ \A t \in Thread : to'[t] # p
    <3>1. db[p] = None
      BY <2>3
    <3>2. count[p] = 0 /\ current # p /\ \A t \in Thread : to[t] # p
      BY <3>1 DEF IInv, Born
    <3>3. \A t \in Thread : to'[t] # p
      BY <3>2, <2>3, <1>3 DEF Only
    <3>. QED BY <3>2, <3>3, <2>3
  <2>. QED BY <2>2, <2>3 DEF Born
<1>9. Steps(u)
  BY <1>1, <1>2, <1>3 DEF Steps
<1>10. Expected'
  <2>1. to'[u] \in Offer \ contested' => db'[to'[u]] \in StatusAt(u)'
    BY <1>3 DEF StatusAt, StatusOf
  <2>. QED BY <2>1, <1>9, ExpectedKept
<1>11. Entry' /\ Deciding'
  BY <1>9, EntryKept, DecidingKept
<1>. QED BY <1>2, <1>4, <1>5, <1>6, <1>7, <1>8, <1>10, <1>11 DEF IInv
-----------------------------------------------------------------------------
(* The actions                                                               *)

\* What is known of handler u at work on a transfer.
LEMMA AtWork ==
    ASSUME IInv, NEW u \in Thread, at[u] \notin {"idle", "done"}
    PROVE  /\ to[u] \in Offer /\ db[to[u]] # None /\ db[to[u]] \in Status
           /\ to[u] \notin contested => db[to[u]] \in StatusOf(u, at[u])
           /\ u \in Request => u \notin Message
           /\ at[u] \in {"check", "vet", "caught", "register"} => u \in Message /\ u \notin Request
<1> USE Constants
<1>1. to[u] \in Offer
  BY DEF IInv, TypeOK, Assigned
<1>2. db[to[u]] # None /\ db[to[u]] \in Status
  BY <1>1 DEF IInv, TypeOK, Born
<1>3. to[u] \notin contested => db[to[u]] \in StatusOf(u, at[u])
  BY <1>1 DEF IInv, Expected, StatusAt
<1>4. at[u] \in {"check", "vet", "caught", "register"} => u \notin Request
  BY DEF IInv, OwnStages
<1>. QED BY <1>1, <1>2, <1>3, <1>4

\* The create of handlePluginOffer.
LEMMA OfferCreatedKeeps ==
    ASSUME IInv, Next, NEW m \in Message, OfferCreated(m)
    PROVE  IInv'
<1> USE Constants
<1> DEFINE o == m[1]
<1>1. m \in Thread /\ m \notin Request /\ o \in Offer /\ at[m] = "idle" /\ to[m] = None /\ m = <<o, 0>>
  BY TransferAssumption DEF OfferCreated, Thread, IInv, Assigned
<1>2. db[o] = None /\ count[o] = 0 /\ current # o
  BY <1>1 DEF OfferCreated, IInv, Born
<1>3. /\ at' = [at EXCEPT ![m] = "register"] /\ to' = [to EXCEPT ![m] = o]
      /\ db' = [db EXCEPT ![o] = "transferring"]
      /\ UNCHANGED <<current, chunks, count, mem, carry, source, disk, code, faults>>
  BY DEF OfferCreated, Go, buffer, object, plugin
<1>4. contested \subseteq contested'
  BY DEF Next
<1>5. db' \in [Offer -> Status \union {None}] /\ db'[o] = "transferring" /\ db'[o] # None
  BY <1>1, <1>3 DEF IInv, TypeOK, Status
<1>6. EntryStep(m)
  BY <1>1, <1>2, <1>3 DEF EntryStep, IInv, TypeOK
<1>7. DecidingStep(m)
  BY <1>1, <1>2, <1>3, <1>4 DEF DecidingStep, Undecided, IInv, TypeOK
<1>8. "register" \in Stage \ (Saving \union {"idle"})
  BY DEF Stage, Saving
<1>9. "transferring" \in StatusOf(m, "register")
  BY <1>1 DEF StatusOf
<1>10. Move(m, o, "register")
  BY <1>1, <1>3, <1>5, <1>6, <1>7, <1>9 DEF Move, IInv, TypeOK, Saving
<1>. QED BY <1>1, <1>8, <1>10, MoveKeeps

\* The new buffer of handlePluginOffer.
LEMMA RegisterKeeps ==
    ASSUME IInv, Next, NEW m \in Message, Register(m)
    PROVE  IInv'
<1> USE Constants
<1> DEFINE o == m[1]
<1>1. m \in Thread /\ m \notin Request /\ o \in Offer /\ at[m] = "register" /\ to[m] = o
  BY TransferAssumption DEF Register, Thread, IInv, OwnStages
<1>2. db[o] # None /\ (o \notin contested => db[o] = "transferring")
  BY <1>1, AtWork DEF StatusOf
<1>3. /\ at' = [at EXCEPT ![m] = "done"] /\ to' = [to EXCEPT ![m] = None] /\ current' = o
      /\ UNCHANGED <<db, chunks, count, mem, carry, source, disk, code, faults>>
  BY DEF Register, Go, object, plugin
<1>4. contested \subseteq contested'
  BY DEF Next
<1>5. EntryStep(m)
  BY <1>1, <1>2, <1>3, <1>4 DEF EntryStep
<1>6. DecidingStep(m)
  BY <1>1, <1>3, <1>4 DEF DecidingStep, Undecided, Decider
<1>7. "done" \in Stage \ (Saving \union {"idle"})
  BY DEF Stage, Saving
<1>8. Move(m, o, "done")
  BY <1>1, <1>2, <1>3, <1>5, <1>6 DEF Move, IInv, TypeOK, Saving
<1>. QED BY <1>1, <1>7, <1>8, MoveKeeps

\* A chunk for no known transfer.
LEMMA ChunkIgnoredKeeps ==
    ASSUME IInv, Next, NEW m \in Message, ChunkIgnored(m)
    PROVE  IInv'
<1> USE Constants
<1>1. m \in Thread /\ m \notin Request /\ m[1] \in Offer /\ at[m] = "idle" /\ to[m] = None
  BY TransferAssumption DEF ChunkIgnored, Thread, IInv, Assigned
<1>2. /\ at' = [at EXCEPT ![m] = "done"] /\ to' = [to EXCEPT ![m] = None]
      /\ UNCHANGED <<db, current, chunks, count, mem, carry, source, disk, code, faults>>
  BY DEF ChunkIgnored, Go, object, buffer, plugin
<1>3. contested \subseteq contested'
  BY DEF Next
<1>4. EntryStep(m) /\ DecidingStep(m)
  BY <1>1, <1>2, <1>3 DEF EntryStep, DecidingStep, Undecided, IInv, TypeOK
<1>5. "done" \in Stage \ (Saving \union {"idle"})
  BY DEF Stage, Saving
<1>6. Move(m, m[1], "done")
  BY <1>1, <1>2, <1>4 DEF Move, IInv, TypeOK, Saving
<1>. QED BY <1>1, <1>5, <1>6, MoveKeeps
\* A chunk that comes in finds a transfer under way, or somebody in its way.
LEMMA ChunkExpects ==
    ASSUME IInv, Next, NEW m \in Message, at[m] = "idle", NEW o \in Offer, o = current, Only(m),
           to'[m] = o, at'[m] \in {"bad", "chunk"}, o \notin contested'
    PROVE  db[o] = "transferring"
<1>1. m \in Thread
  BY DEF Thread
<1>2. contested' = contested \union {p \in Offer : Overlap(p)' \/ mem'[p] # None}
  BY DEF Next
<1>3. o \notin contested /\ ~ Overlap(o)'
  BY <1>2
<1>. SUFFICES ASSUME NEW t \in Thread, to[t] = o, Closing(t) PROVE FALSE
  BY <1>3 DEF IInv, Entry
<1>4. t # m /\ at'[t] = at[t] /\ to'[t] = o
  BY DEF Only, Closing
<1>5. at'[t] \notin {"chunk", "check"}
  BY <1>4 DEF Closing
<1>6. Overlap(o)'
  BY <1>1, <1>4, <1>5 DEF Overlap
<1>. QED BY <1>3, <1>6

\* A chunk whose hash does not fit, up to its save.
LEMMA BadChunkKeeps ==
    ASSUME IInv, Next, NEW m \in Message, BadChunk(m)
    PROVE  IInv'
<1> USE Constants
<1>. PICK o \in Offer : o = current
  BY DEF BadChunk, Chunk, IInv, TypeOK
<1>1. m \in Thread /\ m \notin Request /\ at[m] = "idle" /\ to[m] = None /\ at[m] \notin Saving
  BY TransferAssumption DEF BadChunk, Thread, IInv, Assigned, Saving
<1>2. o = current /\ db[o] # None
  BY DEF BadChunk, IInv, TypeOK, Born
<1>3. /\ Save(m, o, "failed", "bad")
      /\ UNCHANGED <<current, chunks, count, db, source, disk, code, faults>>
  BY DEF BadChunk, buffer, plugin
<1>4. "failed" \in Status \union {None} /\ "bad" \in Saving
  BY DEF Status, Saving
<1>5. Only(m) /\ (SaveStarted(m, o, "failed", "bad") \/ SaveRefused(m, o, "failed", "bad"))
  BY <1>1, <1>2, <1>3, <1>4, SaveCases DEF IInv
<1>6. to'[m] = o => at'[m] = "bad"
  BY <1>2, <1>5 DEF SaveStarted, SaveRefused, ErrorStage
<1>7. o \notin contested' /\ to'[m] = o => db[o] \in StatusOf(m, "bad")
  BY <1>1, <1>2, <1>3, <1>5, <1>6, ChunkExpects DEF StatusOf
<1>8. SaveStep(m, o, "failed", "bad")
  BY <1>1, <1>2, <1>3, <1>7 DEF SaveStep, Written, IInv, TypeOK, Closing
<1>. QED BY <1>1, <1>4, <1>8, SaveKeeps

\* A chunk that is counted, up to its save.
LEMMA ChunkKeeps ==
    ASSUME IInv, Next, NEW m \in Message, Chunk(m)
    PROVE  IInv'
<1> USE Constants
<1>. PICK o \in Offer : o = current
  BY DEF BadChunk, Chunk, IInv, TypeOK
<1>1. m \in Thread /\ m \notin Request /\ at[m] = "idle" /\ to[m] = None /\ at[m] \notin Saving
  BY TransferAssumption DEF Chunk, Thread, IInv, Assigned, Saving
<1>2. o = current /\ db[o] # None /\ m[2] \in 1..Chunks /\ VersionOf[m[1]] \in Version
  <2>1. o = current /\ db[o] # None
    BY DEF IInv, Born
  <2>2. m[2] \in 0..Chunks /\ m[2] > 0 /\ VersionOf[m[1]] \in Version
    BY TransferAssumption DEF Chunk
  <2>. QED BY <2>1, <2>2
<1>3. /\ Save(m, o, None, "chunk")
      /\ UNCHANGED <<current, db, source, disk, code, faults>>
  BY DEF Chunk, plugin
<1>4. None \in Status \union {None} /\ "chunk" \in Saving
  BY DEF Saving
<1>5. Only(m) /\ (SaveStarted(m, o, None, "chunk") \/ SaveRefused(m, o, None, "chunk"))
  BY <1>1, <1>2, <1>3, <1>4, SaveCases DEF IInv
<1>6. to'[m] = o => at'[m] = "chunk"
  BY <1>2, <1>5 DEF SaveStarted, SaveRefused, ErrorStage
<1>7. o \notin contested' /\ to'[m] = o => db[o] \in StatusOf(m, "chunk")
  BY <1>1, <1>2, <1>3, <1>5, <1>6, ChunkExpects DEF StatusOf
<1>8. chunks' \in [Offer -> [1..Chunks -> Version \union {None}]]
  <2>1. chunks[o] \in [1..Chunks -> Version \union {None}]
    BY <1>2 DEF IInv, TypeOK
  <2>2. [chunks[o] EXCEPT ![m[2]] = VersionOf[m[1]]] \in [1..Chunks -> Version \union {None}]
    BY <1>2, <2>1
  <2>. QED BY <1>2, <2>2 DEF IInv, TypeOK, Chunk
<1>9. count' \in [Offer -> Nat] /\ \A p \in Offer : count'[p] # count[p] => p = o
  BY <1>2 DEF IInv, TypeOK, Chunk
<1>10. SaveStep(m, o, None, "chunk")
  BY <1>1, <1>2, <1>3, <1>7, <1>8, <1>9 DEF SaveStep, IInv, TypeOK
<1>. QED BY <1>1, <1>4, <1>10, SaveKeeps
\* A save that ends well.
LEMMA SavedKeeps ==
    ASSUME IInv, Next, NEW u \in Thread, Saved(u)
    PROVE  IInv'
<1> USE Constants
<1>1. PICK o \in Offer : o = to[u]
  BY AtWork DEF Saved, Saving
<1>2. /\ at[u] \in Saving /\ at[u] \notin {"idle", "done"} /\ db[o] # None /\ db[o] \in Status
      /\ o \notin contested => db[o] \in StatusOf(u, at[u])
  BY <1>1, AtWork DEF Saved, Saving
<1>3. /\ After(u) \in {"check", "close", "write", "count", "done"}
      /\ After(u) \in Stage \ (Saving \union {"idle"})
  BY <1>2 DEF After, Saving, Stage
<1>4. Doc(u, o) \in Object /\ carry[Doc(u, o)] \in Status \union {"same"}
  <2>1. Doc(u, o) \in Object
    BY DEF Doc
  <2>2. u \in Savers(Doc(u, o))
    BY <1>1, <1>2 DEF Savers
  <2>. QED BY <2>1, <2>2 DEF IInv, TypeOK, OneSaver
<1> DEFINE v == carry[Doc(u, o)]
<1>5. /\ db' = IF v = "same" THEN db ELSE [db EXCEPT ![o] = v]
      /\ carry' = [carry EXCEPT ![Doc(u, o)] = None]
      /\ at' = [at EXCEPT ![u] = After(u)]
      /\ to' = [to EXCEPT ![u] = IF After(u) = "done" THEN None ELSE o]
      /\ UNCHANGED <<current, chunks, count, mem, source, disk, code, faults>>
  BY <1>1 DEF Saved, Go, buffer, plugin
<1>6. IF at[u] = "chunk" THEN v = "same" \/ o \in contested ELSE v = Written(at[u]) /\ v # "same"
  <2>1. at[u] = "chunk" => Doc(u, o) = o
    BY DEF IInv, OwnStages, Doc
  <2>2. "same" # Written(at[u])
    BY DEF Written
  <2>. QED BY <1>1, <1>2, <2>1, <2>2 DEF IInv, Carries
<1>7. contested \subseteq contested'
  BY DEF Next
<1>8. /\ db' \in [Offer -> Status \union {None}] /\ db'[o] # None
      /\ db'[o] = IF v = "same" THEN db[o] ELSE v
      /\ \A p \in Offer : db'[p] # db[p] => p = o /\ v # "same"
  BY <1>2, <1>4, <1>5 DEF IInv, TypeOK
<1>9. at'[u] = After(u) /\ to'[u] = IF After(u) = "done" THEN None ELSE o
  BY <1>5 DEF IInv, TypeOK
<1>10. IF u \in Request THEN at[u] \in {"approve", "reject", "install", "broken"}
                        ELSE u \in Message /\ at[u] # "reject"
  BY <1>2 DEF IInv, OwnStages, Saving
<1>11. o \notin contested' => db'[o] \in StatusOf(u, After(u)) \/ After(u) = "done"
  <2>. SUFFICES ASSUME o \notin contested PROVE db'[o] \in StatusOf(u, After(u)) \/ After(u) = "done"
    BY <1>7
  <2>1. CASE at[u] = "chunk"
    BY <2>1, <1>2, <1>6, <1>8, <1>10 DEF StatusOf, After
  <2>2. CASE at[u] \in {"bad", "mismatch", "fail", "park", "broken"}
    BY <2>2, <1>2, <1>6, <1>8 DEF StatusOf, After, Written, Status
  <2>3. CASE at[u] \in {"approve", "install", "reject"}
    BY <2>3, <1>2, <1>6, <1>8 DEF StatusOf, After, Written, Status
  <2>. QED BY <1>2, <2>1, <2>2, <2>3 DEF Saving
<1>12. EntryStep(u)
  <2>. SUFFICES ASSUME current = o, o \notin contested',
                       ~(/\ to[u] = current /\ Closing(u) => to'[u] = current /\ Closing(u)'
                         /\ db'[current] # db[current] => to'[u] = current /\ Closing(u)')
                PROVE  FALSE
    BY <1>1, <1>5, <1>8 DEF EntryStep
  <2>1. CASE u \in Request
    <3>1. ~ Closing(u) /\ db[o] # "transferring"
      BY <2>1, <1>2, <1>7, <1>10 DEF Closing, StatusOf
    <3>2. PICK t \in Thread : to[t] = o /\ Closing(t)
      BY <3>1, <1>7 DEF IInv, Entry
    <3>. QED BY <3>1, <3>2, <1>1, <1>7, <1>10, <2>1, Alone DEF IInv
  <2>2. CASE u \notin Request
    <3>1. CASE at[u] = "chunk"
      BY <3>1, <1>6, <1>7, <1>8 DEF Closing
    <3>2. CASE at[u] # "chunk"
      <4>1. After(u) \in {"write", "count", "close"}
        BY <2>2, <3>2, <1>2, <1>10 DEF After, Saving
      <4>. QED BY <4>1, <2>2, <1>9 DEF Closing
    <3>. QED BY <3>1, <3>2
  <2>. QED BY <2>1, <2>2
<1>13. DecidingStep(u)
  <2>. SUFFICES ASSUME NEW p \in Offer, Undecided(p)'
                PROVE  \/ \E t \in Thread : to'[t] = p /\ Decider(t)'
                       \/ Undecided(p) /\ (to[u] = p /\ Decider(u) => to'[u] = p /\ Decider(u)')
    BY DEF DecidingStep
  <2>1. CASE p # o
    BY <2>1, <1>1, <1>5, <1>7, <1>8 DEF Undecided
  <2>2. CASE p = o
    <3>1. at[u] = "chunk"
      BY <2>2, <1>6, <1>8 DEF Undecided, Written
    <3>2. After(u) = "check"
      BY <3>1 DEF After
    <3>. QED BY <2>2, <3>2, <1>9 DEF Decider
  <2>. QED BY <2>1, <2>2
<1>14. /\ \A p \in Offer : db'[p] # db[p] =>
            /\ p = o /\ db'[p] # None
            /\ db[p] # None \/ u = <<p, 0>>
            /\ \/ o \in contested
               \/ to[u] = o /\ at[u] \notin {"chunk", "check"}
               \/ After(u) \notin {"chunk", "check", "done"}
  <2>1. v # "same" => at[u] \notin {"chunk", "check"} \/ o \in contested
    BY <1>2, <1>6 DEF Saving
  <2>. QED BY <2>1, <1>1, <1>2, <1>8
<1>15. Move(u, o, After(u))
  <2>1. IF u \in Request THEN After(u) \in {"drop", "write", "count", "rolling", "close", "done"}
                         ELSE After(u) # "drop" /\ After(u) # "register"
    BY <1>3, <1>10 DEF After
  <2>2. /\ mem' \in [Object -> Status \union {None}] /\ faults' \in 0..MaxFaults
        /\ source' \in [Offer -> SUBSET Version] /\ disk' \in Offer \union {None}
        /\ code' \in SUBSET Version
    BY <1>5 DEF IInv, TypeOK
  <2>. QED BY <2>1, <2>2, <1>1, <1>2, <1>5, <1>8, <1>11, <1>12, <1>13, <1>14 DEF Move
<1>. QED BY <1>3, <1>15, MoveKeeps
\* A save that fails.
LEMMA SaveFailsKeeps ==
    ASSUME IInv, Next, NEW u \in Thread, SaveFails(u)
    PROVE  IInv'
<1> USE Constants
<1>1. PICK o \in Offer : o = to[u]
  BY AtWork DEF SaveFails, Saving
<1>2. /\ at[u] \in Saving /\ at[u] \notin {"idle", "done"} /\ db[o] # None /\ db[o] \in Status
      /\ o \notin contested => db[o] \in StatusOf(u, at[u])
  BY <1>1, AtWork DEF SaveFails, Saving
<1> DEFINE s == ErrorStage(u, at[u])
           c == Doc(u, o)
<1>3. /\ s \in {"rolling", "caught", "done"} /\ s \in Stage \ (Saving \union {"idle"})
  BY DEF ErrorStage, Saving, Stage
<1>4. /\ c \in Object /\ carry[c] \in Status \union {"same"}
      /\ mem' = [mem EXCEPT ![c] = IF @ = None /\ carry[c] # "same" THEN carry[c] ELSE @]
      /\ carry' = [carry EXCEPT ![c] = None]
      /\ at' = [at EXCEPT ![u] = s]
      /\ to' = [to EXCEPT ![u] = IF s = "done" THEN None ELSE o]
      /\ UNCHANGED <<current, chunks, count, db, source, disk, code>>
      /\ faults < MaxFaults /\ faults' = faults + 1
  <2>1. c \in Object
    BY DEF Doc
  <2>2. u \in Savers(c)
    BY <1>1, <1>2 DEF Savers
  <2>3. carry[c] \in Status \union {"same"}
    BY <2>1, <2>2 DEF IInv, TypeOK, OneSaver
  <2>. QED BY <1>1, <2>1, <2>3 DEF SaveFails, Go, Fails, buffer, plugin
<1>5. contested' = contested \union {p \in Offer : Overlap(p)' \/ mem'[p] # None}
  BY DEF Next
<1>6. IF u \in Request THEN at[u] \in {"approve", "reject", "install", "broken"} /\ s \in {"rolling", "done"}
                       ELSE u \in Message /\ (at[u] = "chunk" \/ o \in contested')
  <2>1. CASE u \in Request
    BY <2>1, <1>2 DEF IInv, OwnStages, Saving, ErrorStage
  <2>2. CASE u \notin Request /\ at[u] # "chunk"
    <3>1. carry[c] = Written(at[u]) /\ c = o
      BY <1>1, <1>2, <2>2 DEF IInv, Carries, Doc
    <3>2. carry[c] # "same" /\ carry[c] # None
      BY <1>4, <3>1 DEF Written
    <3>3. mem'[o] # None
      BY <1>4, <3>1, <3>2 DEF IInv, TypeOK
    <3>. QED BY <2>2, <3>3, <1>5
  <2>. QED BY <2>1, <2>2
<1>7. mem' \in [Object -> Status \union {None}] /\ faults' \in 0..MaxFaults /\ faults' # 0
  BY <1>4 DEF IInv, TypeOK
<1>8. o \notin contested' /\ s # "done" => db[o] \in StatusOf(u, s)
  BY <1>2, <1>5, <1>6 DEF ErrorStage, StatusOf
<1>9. EntryStep(u)
  <2>1. o \notin contested' => ~ Closing(u)
    BY <1>2, <1>6 DEF Closing, Saving
  <2>. QED BY <2>1, <1>1, <1>4 DEF EntryStep
<1>10. DecidingStep(u)
  BY <1>7 DEF DecidingStep, Undecided
<1>11. Move(u, o, s)
  <2>1. IF u \in Request THEN s \in {"drop", "write", "count", "rolling", "close", "done"}
                         ELSE s # "drop" /\ s # "register"
    BY <1>3, <1>6
  <2>. QED BY <2>1, <1>1, <1>2, <1>4, <1>7, <1>8, <1>9, <1>10 DEF Move, IInv, TypeOK
<1>. QED BY <1>3, <1>11, MoveKeeps

\* The last chunk is counted, or is not the last.
LEMMA CheckKeeps ==
    ASSUME IInv, Next, NEW u \in Thread, Check(u)
    PROVE  IInv'
<1> USE Constants
<1>1. PICK o \in Offer : o = to[u]
  BY AtWork DEF Check
<1>2. /\ at[u] = "check" /\ u \in Message /\ u \notin Request /\ db[o] # None /\ db[o] \in Status
      /\ o \notin contested => db[o] = "transferring"
  BY <1>1, AtWork DEF Check, StatusOf
<1>3. at[u] \notin Saving /\ ~ Closing(u) /\ UNCHANGED <<current, chunks, count, db, disk, code, faults>>
  BY <1>2 DEF Saving, Closing, Check, buffer
<1>4. contested \subseteq contested'
  BY DEF Next
<1>5. CASE count[o] # Chunks /\ Go(u, None, "done") /\ UNCHANGED <<object, source>>
  <2>1. /\ at' = [at EXCEPT ![u] = "done"] /\ to' = [to EXCEPT ![u] = None]
        /\ UNCHANGED <<mem, carry, source>>
    BY <1>5 DEF Go, object
  <2>2. EntryStep(u)
    BY <1>3, <2>1 DEF EntryStep
  <2>3. DecidingStep(u)
    BY <1>1, <1>3, <1>4, <1>5 DEF DecidingStep, Undecided
  <2>4. Move(u, o, "done")
    BY <1>1, <1>2, <1>3, <2>1, <2>2, <2>3 DEF Move, IInv, TypeOK
  <2>. QED BY <2>4, MoveKeeps DEF Stage, Saving
<1>6. CASE Parts(o) = {VersionOf[o]} /\ Assemble(u, o) /\ UNCHANGED object
  <2>1. /\ at' = [at EXCEPT ![u] = "vet"] /\ to' = [to EXCEPT ![u] = o]
        /\ UNCHANGED <<mem, carry>> /\ at'[u] = "vet" /\ to'[u] = o
        /\ source' = [source EXCEPT ![o] = {VersionOf[o]}]
    BY <1>1, <1>6 DEF Assemble, Go, object, IInv, TypeOK
  <2>5. source' \in [Offer -> SUBSET Version]
    <3>1. {VersionOf[o]} \in SUBSET Version
      BY TransferAssumption
    <3>. QED BY <2>1, <3>1 DEF IInv, TypeOK
  <2>2. EntryStep(u)
    BY <1>3, <2>1 DEF EntryStep
  <2>3. DecidingStep(u)
    BY <1>3, <1>4, <2>1, <1>1 DEF DecidingStep, Undecided, Decider
  <2>4. Move(u, o, "vet")
    BY <1>1, <1>2, <1>3, <1>4, <2>1, <2>2, <2>3, <2>5 DEF Move, IInv, TypeOK, StatusOf
  <2>. QED BY <2>4, MoveKeeps DEF Stage, Saving
<1>7. ASSUME NEW st \in {"fail", "mismatch"}, Save(u, o, "failed", st), UNCHANGED source
      PROVE  IInv'
  <2>1. SaveStep(u, o, "failed", st)
    BY <1>1, <1>2, <1>3, <1>4, <1>7 DEF SaveStep, StatusOf, Written, IInv, TypeOK
  <2>. QED BY <2>1, SaveKeeps DEF Status, Saving
<1>. QED BY <1>1, <1>5, <1>6, <1>7 DEF Check

\* The trust of the peer decides how the assembly goes on.
LEMMA VetKeeps ==
    ASSUME IInv, Next, NEW u \in Thread, Vet(u)
    PROVE  IInv'
<1> USE Constants
<1>1. PICK o \in Offer : o = to[u]
  BY AtWork DEF Vet
<1>2. /\ at[u] = "vet" /\ u \in Message /\ u \notin Request /\ db[o] # None /\ db[o] \in Status
      /\ o \notin contested => db[o] = "transferring"
  BY <1>1, AtWork DEF Vet, StatusOf
<1>3. at[u] \notin Saving /\ ~ Closing(u) /\ UNCHANGED <<current, chunks, count, db, source, disk, code, faults>>
  BY <1>2 DEF Saving, Closing, Vet, buffer, plugin
<1>4. contested \subseteq contested'
  BY DEF Next
<1>5. ASSUME NEW st \in {"approve", "park"}, Save(u, o, Written(st), st)
      PROVE  IInv'
  <2>1. SaveStep(u, o, Written(st), st)
    BY <1>1, <1>2, <1>3, <1>4, <1>5 DEF SaveStep, StatusOf, IInv, TypeOK
  <2>. QED BY <2>1, SaveKeeps DEF Status, Saving, Written
<1>6. Save(u, o, Written("approve"), "approve") \/ Save(u, o, Written("park"), "park")
  BY <1>1 DEF Vet, Written
<1>. QED BY <1>5, <1>6
\* The catch blocks of _assemblePlugin and _installPlugin.
LEMMA CaughtKeeps ==
    ASSUME IInv, Next, NEW u \in Thread, Caught(u)
    PROVE  IInv'
<1> USE Constants
<1>1. PICK o \in Offer : o = to[u]
  BY AtWork DEF Caught
<1>2. /\ at[u] \in {"caught", "rolling"} /\ at[u] \notin Saving /\ db[o] # None /\ db[o] \in Status
      /\ o \notin contested => db[o] \in StatusOf(u, at[u])
      /\ at[u] = "caught" => u \in Message /\ u \notin Request
      /\ UNCHANGED <<current, chunks, count, db, source, disk, code, faults>>
  BY <1>1, AtWork DEF Caught, buffer, Saving, plugin
<1>3. contested \subseteq contested'
  BY DEF Next
<1>4. CASE at[u] = "caught" /\ Save(u, o, "failed", "fail")
  <2>1. SaveStep(u, o, "failed", "fail")
    BY <1>1, <1>2, <1>3, <1>4 DEF SaveStep, StatusOf, Written, Closing, IInv, TypeOK
  <2>. QED BY <2>1, SaveKeeps DEF Status, Saving
<1>5. CASE at[u] = "rolling" /\ Save(u, o, "failed", "broken")
  <2>1. SaveStep(u, o, "failed", "broken")
    BY <1>1, <1>2, <1>3, <1>5 DEF SaveStep, StatusOf, Written, Closing, IInv, TypeOK
  <2>. QED BY <2>1, SaveKeeps DEF Status, Saving
<1>. QED BY <1>1, <1>4, <1>5 DEF Caught

\* The end of an assembly, which drops the buffer.
LEMMA CloseKeeps ==
    ASSUME IInv, Next, NEW u \in Thread, Close(u)
    PROVE  IInv'
<1> USE Constants
<1>1. PICK o \in Offer : o = to[u]
  BY AtWork DEF Close
<1>2. /\ at[u] = "close" /\ at[u] \notin Saving
      /\ at' = [at EXCEPT ![u] = "done"] /\ to' = [to EXCEPT ![u] = None]
      /\ current' = IF u \in Message THEN None ELSE current
      /\ UNCHANGED <<chunks, count, mem, carry, db, source, disk, code, faults>>
  BY DEF Close, Go, object, Saving, plugin
<1>3. contested \subseteq contested'
  BY DEF Next
<1>4. EntryStep(u)
  BY <1>2 DEF EntryStep, Closing
<1>5. DecidingStep(u)
  BY <1>2, <1>3 DEF DecidingStep, Undecided, Decider
<1>6. Move(u, o, "done")
  BY <1>1, <1>2, <1>4, <1>5 DEF Move, IInv, TypeOK
<1>. QED BY <1>6, MoveKeeps DEF Stage, Saving

\* The file is written.
LEMMA InstallKeeps ==
    ASSUME IInv, Next, NEW u \in Thread, Install(u)
    PROVE  IInv'
<1> USE Constants
<1>1. PICK o \in Offer : o = to[u]
  BY AtWork DEF Install
<1>2. /\ at[u] = "write" /\ at[u] \notin Saving /\ db[o] # None /\ db[o] \in Status
      /\ o \notin contested => db[o] = "approved"
      /\ UNCHANGED <<current, chunks, count, db, source, faults>> /\ disk' = o /\ code' = source[o]
      /\ Save(u, o, "installed", "install")
  BY <1>1, AtWork DEF Install, Write, buffer, Saving, StatusOf
<1>3. contested \subseteq contested'
  BY DEF Next
<1>4. SaveStep(u, o, "installed", "install")
  BY <1>1, <1>2, <1>3 DEF SaveStep, StatusOf, Written, Closing, IInv, TypeOK
<1>. QED BY <1>4, SaveKeeps DEF Status, Saving

\* The count of transfers that ends an installation.
LEMMA CountedKeeps ==
    ASSUME IInv, Next, NEW u \in Thread, Counted(u)
    PROVE  IInv'
<1> USE Constants
<1>1. PICK o \in Offer : o = to[u]
  BY AtWork DEF Counted
<1>2. /\ at[u] = "count" /\ at[u] \notin Saving /\ db[o] # None /\ db[o] \in Status
      /\ o \notin contested => db[o] = "installed"
  BY <1>1, AtWork DEF Counted, Saving, StatusOf
<1>3. /\ at' = [at EXCEPT ![u] = "close"] /\ to' = [to EXCEPT ![u] = o]
      /\ at'[u] = "close" /\ to'[u] = o
      /\ UNCHANGED <<current, chunks, count, mem, carry, db, source, disk, code, faults>>
  BY <1>1 DEF Counted, Go, object, buffer, plugin, IInv, TypeOK
<1>4. contested \subseteq contested'
  BY DEF Next
<1>5. EntryStep(u)
  BY <1>1, <1>2, <1>3 DEF EntryStep, Closing
<1>6. DecidingStep(u)
  BY <1>1, <1>2, <1>3, <1>4 DEF DecidingStep, Undecided
<1>7. Move(u, o, "close")
  BY <1>1, <1>2, <1>3, <1>5, <1>6 DEF Move, IInv, TypeOK, StatusOf
<1>. QED BY <1>7, MoveKeeps DEF Stage, Saving

\* A call that fails.
LEMMA BreaksKeeps ==
    ASSUME IInv, Next, NEW u \in Thread, Breaks(u)
    PROVE  IInv'
<1> USE Constants
<1>1. PICK o \in Offer : o = to[u]
  BY AtWork DEF Breaks
<1> DEFINE s == ErrorStage(u, at[u])
<1>2. /\ at[u] \in {"vet", "write", "count"} /\ at[u] \notin Saving /\ db[o] # None /\ db[o] \in Status
      /\ o \notin contested => db[o] \in StatusOf(u, at[u])
      /\ at[u] = "vet" => u \in Message /\ u \notin Request
  BY <1>1, AtWork DEF Breaks, Saving
<1>3. /\ at' = [at EXCEPT ![u] = s] /\ to' = [to EXCEPT ![u] = IF s = "done" THEN None ELSE o]
      /\ faults < MaxFaults /\ faults' = faults + 1
      /\ disk' \in {disk, o} /\ code' \in {code, source[o]}
      /\ UNCHANGED <<current, chunks, count, mem, carry, db, source>>
  BY <1>1 DEF Breaks, Write, Go, object, buffer, Fails
<1>4. faults' \in 0..MaxFaults /\ faults' # 0 /\ faults' # faults
  BY <1>3 DEF IInv, TypeOK
<1>5. s = (IF at[u] = "vet" THEN "caught" ELSE "rolling") /\ at'[u] = s /\ to'[u] = o
  BY <1>2, <1>3 DEF ErrorStage, IInv, TypeOK
<1>6. contested \subseteq contested'
  BY DEF Next
<1>8. EntryStep(u)
  BY <1>1, <1>2, <1>3, <1>5 DEF EntryStep, Closing
<1>9. DecidingStep(u)
  BY <1>4 DEF DecidingStep, Undecided
<1>10. o \notin contested' => db[o] \in StatusOf(u, s)
  BY <1>2, <1>5, <1>6 DEF StatusOf
<1>11. Move(u, o, s)
  <2>1. /\ mem' \in [Object -> Status \union {None}] /\ source' \in [Offer -> SUBSET Version]
        /\ disk' \in Offer \union {None} /\ code' \in SUBSET Version
        /\ current' \in {current, None} /\ db' \in [Offer -> Status \union {None}]
    BY <1>3 DEF IInv, TypeOK
  <2>. HIDE DEF s
  <2>2. s \in {"caught", "rolling"} /\ (u \in Request => s = "rolling")
    BY <1>2, <1>5
  <2>. QED BY <1>1, <1>2, <1>3, <1>4, <1>8, <1>9, <1>10, <2>1, <2>2 DEF Move
<1>. QED BY <1>5, <1>11, MoveKeeps DEF Stage, Saving

\* approveInstall and rejectInstall, up to their saves.
LEMMA OwnerSaves ==
    ASSUME IInv, Next, NEW u \in Request, NEW o \in Offer, Approve(u, o) \/ Reject(u, o)
    PROVE  IInv'
<1> USE Constants
<1>1. /\ u \in Thread /\ u \notin Message /\ at[u] = "idle" /\ at[u] \notin Saving /\ to[u] = None
      /\ db[o] = "awaiting_approval" /\ db[o] # None
      /\ UNCHANGED <<current, chunks, count, db, source, disk, code, faults>>
  BY DEF Approve, Reject, buffer, Thread, plugin, Saving, IInv, Assigned, Status
<1>2. ASSUME NEW st \in {"approve", "reject"}, Save(u, o, Written(st), st)
      PROVE  IInv'
  <2>1. st \in Saving /\ Written(st) \in Status
    BY DEF Saving, Written, Status
  <2>2. SaveStep(u, o, Written(st), st)
    BY <1>1, <1>2 DEF SaveStep, StatusOf, Closing, IInv, TypeOK
  <2>. QED BY <1>1, <2>1, <2>2, SaveKeeps
<1>. QED BY <1>2 DEF Approve, Reject, Written

\* The transitionStatus of cancelTransfer.
LEMMA CancelKeeps ==
    ASSUME IInv, Next, NEW u \in Request, NEW o \in Offer, Cancel(u, o)
    PROVE  IInv'
<1> USE Constants
<1>1. /\ u \in Thread /\ u \notin Message /\ at[u] = "idle" /\ at[u] \notin Saving /\ to[u] = None
      /\ db[o] # None
  BY DEF Cancel, Thread, Saving, IInv, Assigned
<1>2. /\ at' = [at EXCEPT ![u] = "drop"] /\ to' = [to EXCEPT ![u] = o]
      /\ at'[u] = "drop" /\ to'[u] = o /\ db' = [db EXCEPT ![o] = "cancelled"]
      /\ UNCHANGED <<current, chunks, count, mem, carry, source, disk, code, faults>>
  BY <1>1 DEF Cancel, Go, object, buffer, plugin, IInv, TypeOK
<1>3. contested \subseteq contested'
  BY DEF Next
<1>4. db' \in [Offer -> Status \union {None}] /\ db'[o] = "cancelled" /\ db'[o] \in Status
      /\ \A p \in Offer : db'[p] # db[p] => p = o
  BY <1>2 DEF IInv, TypeOK, Status
<1>5. EntryStep(u)
  BY <1>1, <1>2, <1>4 DEF EntryStep, Closing
<1>6. DecidingStep(u)
  BY <1>1, <1>2, <1>3, <1>4 DEF DecidingStep, Undecided
<1>7. Move(u, o, "drop")
  BY <1>1, <1>2, <1>4, <1>5, <1>6 DEF Move, IInv, TypeOK, StatusOf
<1>. QED BY <1>1, <1>7, MoveKeeps DEF Stage, Saving

\* cancelTransfer drops the buffer.
LEMMA DropKeeps ==
    ASSUME IInv, Next, NEW u \in Thread, Drop(u)
    PROVE  IInv'
<1> USE Constants
<1>1. PICK o \in Offer : o = to[u]
  BY AtWork DEF Drop
<1>2. /\ at[u] = "drop" /\ at[u] \notin Saving
      /\ at' = [at EXCEPT ![u] = "done"] /\ to' = [to EXCEPT ![u] = None]
      /\ current' = IF current = o THEN None ELSE current
      /\ UNCHANGED <<chunks, count, mem, carry, db, source, disk, code, faults>>
  BY <1>1 DEF Drop, Go, object, Saving, plugin
<1>3. contested \subseteq contested'
  BY DEF Next
<1>4. EntryStep(u)
  BY <1>1, <1>2 DEF EntryStep
<1>5. DecidingStep(u)
  BY <1>2, <1>3 DEF DecidingStep, Undecided, Decider
<1>6. Move(u, o, "done")
  BY <1>1, <1>2, <1>4, <1>5 DEF Move, IInv, TypeOK
<1>. QED BY <1>6, MoveKeeps DEF Stage, Saving

\* A restart: the handlers are gone, and the buffers and documents with them.
LEMMA CrashKeeps ==
    ASSUME IInv, Next, Crash
    PROVE  IInv'
<1> USE Constants
<1>1. /\ at' = [t \in Thread |-> IF at[t] = "idle" THEN "idle" ELSE "done"]
      /\ to' = [t \in Thread |-> None]
      /\ current' = None
      /\ mem' = [c \in Object |-> None] /\ carry' = [c \in Object |-> None]
      /\ UNCHANGED <<chunks, count, db, source, disk, code>>
      /\ faults < MaxFaults /\ faults' = faults + 1
  BY DEF Crash, Fails, plugin
<1>2. contested' \in SUBSET Offer /\ contested \subseteq contested'
  BY DEF Next, IInv, TypeOK
<1>3. \A t \in Thread : to'[t] = None /\ at'[t] \in {"idle", "done"} /\ (at'[t] = "idle" => at[t] = "idle")
  BY <1>1
<1>4. TypeOK'
  <2>1. at' \in [Thread -> Stage]
    BY <1>1 DEF Stage
  <2>. QED BY <2>1, <1>1, <1>2 DEF IInv, TypeOK
<1>5. Assigned' /\ Carries' /\ Expected' /\ Entry' /\ OwnStages'
  BY <1>1, <1>3 DEF Assigned, Carries, Expected, Entry, OwnStages, Saving, Thread
<1>6. Marked'
  <2>1. \A o \in Offer : ~ Overlap(o)'
    BY <1>3 DEF Overlap
  <2>. QED BY <2>1, <1>1 DEF Marked
<1>7. OneSaver'
  BY <1>1, <1>3 DEF OneSaver, Savers, Saving
<1>8. Born'
  BY <1>1, <1>3 DEF IInv, Born, Thread
<1>9. Deciding'
  BY <1>1 DEF IInv, TypeOK, Deciding, Undecided
<1>. QED BY <1>4, <1>5, <1>6, <1>7, <1>8, <1>9 DEF IInv

-----------------------------------------------------------------------------
(* The theorems                                                              *)

\* The constructor establishes the invariant.
LEMMA Initially == Init => IInv
<1> USE Constants
<1>. SUFFICES ASSUME Init PROVE IInv
  OBVIOUS
<1>1. TypeOK
  BY DEF Init, TypeOK, Stage
<1>2. \A t \in Thread : at[t] = "idle" /\ to[t] = None
  BY DEF Init
<1>3. \A o \in Offer : ~ Overlap(o)
  BY <1>2 DEF Overlap
<1>4. Assigned /\ Marked /\ Carries /\ OwnStages /\ Expected /\ Entry
  BY <1>2, <1>3 DEF Init, Assigned, Marked, Carries, OwnStages, Expected, Entry, Saving, Thread
<1>5. Born /\ Deciding
  BY <1>2 DEF Init, Born, Deciding, Undecided, Thread
<1>6. OneSaver
  BY <1>2 DEF Init, OneSaver, Savers, Saving
<1>. QED BY <1>1, <1>4, <1>5, <1>6 DEF IInv

\* A step that changes nothing keeps it.
LEMMA Stutters == IInv /\ UNCHANGED vars => IInv'
BY DEF vars, IInv, TypeOK, Assigned, Marked, Overlap, OneSaver, Savers, Carries, OwnStages, Born,
   Expected, StatusAt, Entry, Closing, Deciding, Undecided, Decider

\* Every step keeps it.
LEMMA Inductive == IInv /\ [Next]_vars => IInv'
<1>. SUFFICES ASSUME IInv, Next PROVE IInv'
  BY Stutters
<1>1. ASSUME NEW m \in Message,
             OfferCreated(m) \/ Register(m) \/ ChunkIgnored(m) \/ BadChunk(m) \/ Chunk(m)
      PROVE  IInv'
  BY <1>1, OfferCreatedKeeps, RegisterKeeps, ChunkIgnoredKeeps, BadChunkKeeps, ChunkKeeps
<1>2. ASSUME NEW u \in Thread, Step(u)
      PROVE  IInv'
  BY <1>2, SavedKeeps, SaveFailsKeeps, CheckKeeps, VetKeeps, CaughtKeeps, CloseKeeps, InstallKeeps,
     CountedKeeps, BreaksKeeps, DropKeeps DEF Step
<1>3. ASSUME NEW u \in Request, NEW o \in Offer, Approve(u, o) \/ Reject(u, o) \/ Cancel(u, o)
      PROVE  IInv'
  BY <1>3, OwnerSaves, CancelKeeps
<1>4. CASE Crash
  BY <1>4, CrashKeeps
<1>. QED BY <1>1, <1>2, <1>3, <1>4 DEF Next, Acts

\* The invariant holds of every behaviour of the handlers.
THEOREM Invariance == Spec => []IInv
<1>. QED BY Initially, Inductive, PTL DEF Spec

\* Every variable keeps to its values, whatever arrives, is lost or fails.
THEOREM TypeCorrect == Spec => []TypeOK
<1>1. IInv => TypeOK
  BY DEF IInv
<1>. QED BY <1>1, Invariance, PTL

\* A transfer that counted exactly its number of chunks (handlePluginChunk) is decided
\* when all handlers have left it, if it is not contested and nothing failed.
THEOREM DecidedHolds == Spec => []Decided
<1>1. IInv => Decided
  <2>. SUFFICES ASSUME IInv, NEW o \in Offer, count[o] = Chunks, \A t \in Thread : to[t] # o
                PROVE  db[o] # "transferring" \/ o \in contested \/ faults > 0
    BY DEF Decided
  <2>1. ~ Undecided(o)
    BY DEF IInv, Deciding
  <2>2. faults \in Nat
    BY Constants DEF IInv, TypeOK
  <2>. QED BY <2>1, <2>2 DEF Undecided
<1>. QED BY <1>1, Invariance, PTL
-----------------------------------------------------------------------------
(* What is assembled, and who failed                                         *)

\* The assembled source of o is the one its offer names.
Known(o) == source[o] = {VersionOf[o]}

\* A transfer that waits for the owner, or is about to be installed, has its source.
Sourced ==
    /\ \A o \in Offer : "awaiting_approval" \in {db[o], mem[o], carry[o]} => Known(o)
    /\ \A t \in Thread : at[t] \in {"vet", "approve", "park", "write"} => Known(to[t])
    /\ OwnSource

\* An installation that nobody contests is taken back only after a failure.
Blamed == \A t \in Thread : at[t] \in {"rolling", "broken"} => to[t] \in contested \/ faults > 0

\* What the step of handler u adds to what must be known and blamed.
SourceStep(u) ==
    /\ Only(u)
    /\ \A o \in Offer : Known(o) => Known(o)'
    /\ \A o \in Offer : "awaiting_approval" \in {db'[o], mem'[o], carry'[o]} =>
         Known(o)' \/ "awaiting_approval" \in {db[o], mem[o], carry[o]}
    /\ at'[u] \in {"vet", "approve", "park", "write"} => to'[u] \in Offer /\ source'[to'[u]] = {VersionOf[to'[u]]}
    /\ \/ disk' = disk /\ code' = code
       \/ disk' \in Offer /\ code' = {VersionOf[disk']}
BlameStep(u) ==
    /\ Only(u) /\ contested \subseteq contested'
    /\ faults > 0 => faults' > 0
    /\ at'[u] \in {"rolling", "broken"} => to'[u] \in contested' \/ faults' > 0

\* Such a step keeps both.
LEMMA SourceKept ==
    ASSUME IInv, Sourced, NEW u \in Thread, SourceStep(u)
    PROVE  Sourced'
<1>1. ASSUME NEW o \in Offer, "awaiting_approval" \in {db'[o], mem'[o], carry'[o]}
      PROVE  Known(o)'
  BY <1>1 DEF Sourced, SourceStep
<1>2. ASSUME NEW t \in Thread, at'[t] \in {"vet", "approve", "park", "write"}
      PROVE  source'[to'[t]] = {VersionOf[to'[t]]}
  <2>1. CASE t = u
    BY <1>2, <2>1 DEF SourceStep
  <2>2. CASE t # u
    <3>1. at'[t] = at[t] /\ to'[t] = to[t]
      BY <2>2 DEF SourceStep, Only
    <3>2. PICK o \in Offer : o = to[t]
      BY <1>2, <3>1, AtWork
    <3>3. Known(o)
      BY <1>2, <3>1, <3>2 DEF Sourced
    <3>4. Known(o)'
      BY <3>3 DEF SourceStep
    <3>. QED BY <3>1, <3>2, <3>4 DEF Known
  <2>. QED BY <2>1, <2>2
<1>3. OwnSource'
  BY DEF Sourced, SourceStep, OwnSource
<1>. QED BY <1>1, <1>2, <1>3 DEF Sourced, Known

LEMMA BlameKept ==
    ASSUME Blamed, NEW u \in Thread, BlameStep(u)
    PROVE  Blamed'
BY DEF Blamed, BlameStep, Only

\* A save writes what was set, or what was unsaved; if it is refused, that stays unsaved.
LEMMA SaveSources ==
    ASSUME IInv, Sourced, NEW u \in Thread, NEW o \in Offer, NEW s \in Status \union {None},
           NEW st \in Saving, at[u] \notin Saving, Save(u, o, s, st),
           s = "awaiting_approval" \/ st \in {"approve", "park"} => Known(o),
           UNCHANGED <<db, source>>,
           \/ UNCHANGED <<disk, code>>
           \/ disk' = o /\ code' = {VersionOf[o]}
    PROVE  Sourced'
<1> USE Constants
<1> DEFINE c == Doc(u, o)
           next == IF s = None THEN mem[c] ELSE s
<1>1. c \in Object /\ Only(u) /\ (SaveStarted(u, o, s, st) \/ SaveRefused(u, o, s, st))
  BY SaveCases DEF IInv, Doc
<1>2. \/ /\ carry' = [carry EXCEPT ![c] = IF next = None THEN "same" ELSE next]
         /\ mem' = [mem EXCEPT ![c] = None]
      \/ /\ mem' = [mem EXCEPT ![c] = next]
         /\ carry' = carry
  BY DEF Save
<1>3. \A p \in Offer : Known(p)' <=> Known(p)
  BY DEF Known
<1>4. ASSUME NEW p \in Offer, "awaiting_approval" \in {db'[p], mem'[p], carry'[p]}
      PROVE  Known(p) \/ "awaiting_approval" \in {db[p], mem[p], carry[p]}
  <2>1. CASE p = c
    <3>1. p = o
      BY <2>1 DEF Doc
    <3>2. mem'[p] \in {None, next} /\ carry'[p] \in {carry[p], "same", next}
      BY <1>1, <1>2, <2>1 DEF IInv, TypeOK
    <3>3. next \in {s, mem[p]} /\ "same" # "awaiting_approval" /\ None # "awaiting_approval"
      BY <2>1 DEF Status
    <3>. QED BY <1>4, <3>1, <3>2, <3>3
  <2>2. CASE p # c
    <3>1. mem'[p] = mem[p] /\ carry'[p] = carry[p]
      BY <1>1, <1>2, <2>2 DEF IInv, TypeOK
    <3>. QED BY <1>4, <3>1
  <2>. QED BY <2>1, <2>2
<1>5. at'[u] \in {"vet", "approve", "park", "write"} => to'[u] = o /\ st \in {"approve", "park"}
  BY <1>1 DEF SaveStarted, SaveRefused, ErrorStage, Saving
<1>6. SourceStep(u)
  <2>1. at'[u] \in {"vet", "approve", "park", "write"} =>
          to'[u] \in Offer /\ source'[to'[u]] = {VersionOf[to'[u]]}
    BY <1>5 DEF Known
  <2>2. \/ disk' = disk /\ code' = code
        \/ disk' \in Offer /\ code' = {VersionOf[disk']}
    OBVIOUS
  <2>. QED BY <1>1, <1>3, <1>4, <2>1, <2>2 DEF SourceStep
<1>. QED BY <1>6, SourceKept

\* A refused save of a status leaves the transfer contested.
LEMMA SaveBlames ==
    ASSUME IInv, Blamed, Next, NEW u \in Thread, NEW o \in Offer, NEW s \in Status \union {None},
           NEW st \in Saving, at[u] \notin Saving, Save(u, o, s, st), s # None \/ st = "chunk",
           UNCHANGED faults, st = "broken" => at[u] = "rolling" /\ to[u] = o
    PROVE  Blamed'
<1>1. Only(u) /\ (SaveStarted(u, o, s, st) \/ SaveRefused(u, o, s, st))
  BY SaveCases DEF IInv
<1>2. contested \subseteq contested' /\ (mem'[o] # None => o \in contested')
  BY DEF Next
<1>3. CASE SaveStarted(u, o, s, st)
  <2>1. at'[u] = st /\ to'[u] = o /\ st # "rolling"
    BY <1>3 DEF SaveStarted, Saving
  <2>2. BlameStep(u)
    BY <1>1, <1>2, <2>1 DEF BlameStep, Blamed
  <2>. QED BY <2>2, BlameKept
<1>4. CASE SaveRefused(u, o, s, st)
  <2>1. at'[u] = ErrorStage(u, st) /\ (at'[u] # "done" => to'[u] = o) /\ (s # None => o \in contested')
    BY <1>2, <1>4 DEF SaveRefused
  <2>2. at'[u] \in {"rolling", "broken"} => st \in {"install"} /\ to'[u] = o
    BY <2>1 DEF ErrorStage, Saving
  <2>3. BlameStep(u)
    BY <1>1, <1>2, <2>1, <2>2 DEF BlameStep
  <2>. QED BY <2>3, BlameKept
<1>. QED BY <1>1, <1>3, <1>4

\* The messages that come in.
LEMMA MessageSources ==
    ASSUME IInv, Sourced, Blamed, Next, NEW m \in Message,
           OfferCreated(m) \/ Register(m) \/ ChunkIgnored(m) \/ BadChunk(m) \/ Chunk(m)
    PROVE  Sourced' /\ Blamed'
<1> USE Constants
<1>1. m \in Thread /\ contested \subseteq contested'
  BY DEF Thread, Next
<1>2. ASSUME OfferCreated(m) \/ Register(m) \/ ChunkIgnored(m)
      PROVE  Sourced' /\ Blamed'
  <2>1. /\ at'[m] \in {"register", "done"} /\ Only(m) /\ UNCHANGED <<mem, carry, source, disk, code, faults>>
        /\ db' = db \/ db' = [db EXCEPT ![m[1]] = "transferring"]
    BY <1>1, <1>2 DEF OfferCreated, Register, ChunkIgnored, Go, Only, object, plugin, IInv, TypeOK
  <2>2. \A o \in Offer : db'[o] \in {db[o], "transferring"}
    BY <2>1 DEF IInv, TypeOK
  <2>3. SourceStep(m) /\ BlameStep(m)
    BY <1>1, <2>1, <2>2 DEF SourceStep, BlameStep, Known
  <2>. QED BY <1>1, <2>3, SourceKept, BlameKept
<1>3. ASSUME NEW o \in Offer, NEW s \in {None, "failed"}, NEW st \in {"chunk", "bad"},
             Save(m, o, s, st), s # None \/ st = "chunk", at[m] = "idle",
             UNCHANGED <<db, source, disk, code, faults>>
      PROVE  Sourced' /\ Blamed'
  <2>1. s \in Status \union {None} /\ st \in Saving /\ at[m] \notin Saving
        /\ s # "awaiting_approval" /\ st \notin {"approve", "park", "broken"}
    BY <1>3 DEF Status, Saving
  <2>2. Sourced'
    BY <1>1, <1>3, <2>1, SaveSources
  <2>3. Blamed'
    BY <1>1, <1>3, <2>1, SaveBlames
  <2>. QED BY <2>2, <2>3
<1>4. CASE BadChunk(m) \/ Chunk(m)
  <2>1. PICK o \in Offer : o = current
    BY <1>4 DEF BadChunk, Chunk, IInv, TypeOK
  <2>2. /\ Save(m, o, "failed", "bad") \/ Save(m, o, None, "chunk")
        /\ at[m] = "idle" /\ UNCHANGED <<db, source, disk, code, faults>>
    BY <1>4, <2>1 DEF BadChunk, Chunk, plugin
  <2>3. "failed" # None
    BY DEF Status
  <2>. QED BY <1>3, <2>2, <2>3
<1>. QED BY <1>2, <1>4

\* The ends of saves.
LEMMA SavedSources ==
    ASSUME IInv, Sourced, Blamed, Next, NEW u \in Thread, Saved(u) \/ SaveFails(u)
    PROVE  Sourced' /\ Blamed'
<1> USE Constants
<1>1. PICK o \in Offer : o = to[u]
  BY AtWork DEF Saved, SaveFails, Saving
<1> DEFINE c == Doc(u, o)
           v == carry[c]
<1>2. /\ at[u] \in Saving /\ c \in Object /\ contested \subseteq contested'
      /\ at[u] = "chunk" => c = o
      /\ at[u] # "chunk" => v = Written(at[u])
  BY <1>1 DEF Saved, SaveFails, Doc, Next, IInv, OwnStages, Carries
<1>3. "awaiting_approval" \in {v} => c = o \/ at[u] = "park"
  BY <1>2 DEF Written
<1>4. at[u] = "park" => c = o
  BY <1>1, <1>2 DEF IInv, OwnStages, Doc
<1>5. /\ UNCHANGED <<source, disk, code>> /\ carry' = [carry EXCEPT ![c] = None]
      /\ faults' \in {faults, faults + 1}
      /\ db' \in {db, [db EXCEPT ![o] = v]}
      /\ mem' \in {mem, [mem EXCEPT ![c] = v]}
  BY <1>1, <1>2 DEF Saved, SaveFails, plugin, Fails, IInv, TypeOK
<1>6. Only(u)
  BY <1>1 DEF Saved, SaveFails, Go, Only, IInv, TypeOK
<1>7. ASSUME NEW p \in Offer, "awaiting_approval" \in {db'[p], mem'[p], carry'[p]}
      PROVE  "awaiting_approval" \in {db[p], mem[p], carry[p]}
  <2>1. db'[p] \in {db[p]} \/ (p = o /\ db'[p] = v)
    BY <1>5 DEF IInv, TypeOK
  <2>2. mem'[p] = mem[p] \/ (p = c /\ mem'[p] = v)
    BY <1>2, <1>5 DEF IInv, TypeOK
  <2>3. carry'[p] \in {carry[p], None}
    BY <1>2, <1>5 DEF IInv, TypeOK
  <2>4. None # "awaiting_approval"
    BY DEF Status
  <2>. QED BY <1>3, <1>4, <1>7, <2>1, <2>2, <2>3, <2>4
<1>8. /\ at'[u] \in {"vet", "approve", "park", "write"} => at'[u] = "write" /\ at[u] = "approve" /\ to'[u] = o
      /\ at'[u] \in {"rolling", "broken"} => faults' = faults + 1
  <2>1. CASE Saved(u)
    <3>1. at'[u] = After(u) /\ (After(u) # "done" => to'[u] = o)
      BY <1>1, <2>1 DEF Saved, Go, IInv, TypeOK
    <3>. QED BY <1>2, <3>1 DEF After, Saving
  <2>2. CASE SaveFails(u)
    <3>1. at'[u] = ErrorStage(u, at[u]) /\ faults' = faults + 1
      BY <2>2 DEF SaveFails, Go, Fails, IInv, TypeOK
    <3>. QED BY <3>1 DEF ErrorStage
  <2>. QED BY <2>1, <2>2
<1>9. at[u] = "approve" => Known(o)
  BY <1>1 DEF Sourced
<1>10. faults \in Nat
  BY DEF IInv, TypeOK
<1>11. SourceStep(u)
  BY <1>5, <1>6, <1>7, <1>8, <1>9 DEF SourceStep, Known
<1>12. BlameStep(u)
  BY <1>2, <1>5, <1>6, <1>8, <1>10 DEF BlameStep
<1>. QED BY <1>11, <1>12, SourceKept, BlameKept

\* The steps that assemble, install and end.
LEMMA CheckSources ==
    ASSUME IInv, Sourced, Blamed, Next, NEW u \in Thread, Check(u)
    PROVE  Sourced' /\ Blamed'
<1> USE Constants
<1>1. PICK o \in Offer : o = to[u]
  BY AtWork DEF Check
<1>2. /\ at[u] = "check" /\ at[u] \notin Saving /\ contested \subseteq contested'
      /\ UNCHANGED <<db, disk, code, faults>>
  BY DEF Check, Saving, Next
<1>3. CASE Go(u, None, "done") /\ UNCHANGED <<object, source>>
  <2>1. /\ at'[u] = "done" /\ Only(u) /\ UNCHANGED <<mem, carry, source>>
    BY <1>3 DEF Go, Only, object, IInv, TypeOK
  <2>2. SourceStep(u) /\ BlameStep(u)
    BY <1>2, <2>1 DEF SourceStep, BlameStep, Known
  <2>. QED BY <2>2, SourceKept, BlameKept
<1>4. CASE Parts(o) = {VersionOf[o]} /\ Assemble(u, o) /\ UNCHANGED object
  <2>1. /\ at'[u] = "vet" /\ to'[u] = o /\ Only(u) /\ UNCHANGED <<mem, carry>>
        /\ source' = [source EXCEPT ![o] = {VersionOf[o]}]
    BY <1>4 DEF Assemble, Go, Only, object, IInv, TypeOK
  <2>2. source'[o] = {VersionOf[o]} /\ \A p \in Offer : p # o => source'[p] = source[p]
    BY <2>1 DEF IInv, TypeOK
  <2>3. SourceStep(u) /\ BlameStep(u)
    BY <1>2, <2>1, <2>2 DEF SourceStep, BlameStep, Known
  <2>. QED BY <2>3, SourceKept, BlameKept
<1>5. ASSUME NEW st \in {"fail", "mismatch"}, Save(u, o, "failed", st), UNCHANGED source
      PROVE  Sourced' /\ Blamed'
  <2>1. "failed" \in Status \union {None} /\ st \in Saving /\ "failed" # None
    BY DEF Status, Saving
  <2>. QED BY <1>2, <1>5, <2>1, SaveSources, SaveBlames
<1>. QED BY <1>1, <1>3, <1>4, <1>5 DEF Check

LEMMA SavingSources ==
    ASSUME IInv, Sourced, Blamed, Next, NEW u \in Thread, Vet(u) \/ Caught(u) \/ Install(u)
    PROVE  Sourced' /\ Blamed'
<1> USE Constants
<1>1. PICK o \in Offer : o = to[u]
  BY AtWork DEF Vet, Caught, Install
<1>2. at[u] \notin Saving /\ UNCHANGED <<db, source, faults>>
  BY DEF Vet, Caught, Install, Saving, plugin
<1>3. at[u] \in {"vet", "write"} => Known(o)
  BY <1>1 DEF Sourced
<1>4. ASSUME NEW s \in Status, NEW st \in Saving, Save(u, o, s, st), st = "broken" => at[u] = "rolling",
             s = "awaiting_approval" \/ st \in {"approve", "park"} => Known(o),
             UNCHANGED <<disk, code>> \/ (disk' = o /\ code' = {VersionOf[o]})
      PROVE  Sourced' /\ Blamed'
  <2>1. Sourced'
    BY <1>2, <1>4, SaveSources
  <2>2. Blamed'
    BY <1>1, <1>2, <1>4, SaveBlames
  <2>. QED BY <2>1, <2>2
<1>5. CASE Vet(u)
  <2>1. Save(u, o, "approved", "approve") \/ Save(u, o, "awaiting_approval", "park")
    BY <1>1, <1>5 DEF Vet
  <2>. QED BY <1>3, <1>4, <1>5, <2>1 DEF Vet, plugin, Status, Saving
<1>6. CASE Caught(u)
  <2>1. \/ Save(u, o, "failed", "fail")
        \/ at[u] = "rolling" /\ Save(u, o, "failed", "broken")
    BY <1>1, <1>6 DEF Caught
  <2>. QED BY <1>4, <1>6, <2>1 DEF Caught, plugin, Status, Saving
<1>7. CASE Install(u)
  <2>1. Save(u, o, "installed", "install") /\ disk' = o /\ code' = {VersionOf[o]}
    BY <1>1, <1>3, <1>7 DEF Install, Write, Known
  <2>. QED BY <1>4, <2>1 DEF Status, Saving
<1>. QED BY <1>5, <1>6, <1>7

LEMMA EndingSources ==
    ASSUME IInv, Sourced, Blamed, Next, NEW u \in Thread,
           Close(u) \/ Counted(u) \/ Breaks(u) \/ Drop(u)
    PROVE  Sourced' /\ Blamed'
<1> USE Constants
<1>1. PICK o \in Offer : o = to[u]
  BY AtWork DEF Close, Counted, Breaks, Drop
<1>2. /\ at'[u] \in {"close", "done", "rolling", "caught"} /\ Only(u)
      /\ UNCHANGED <<mem, carry, db, source>> /\ contested \subseteq contested'
  BY DEF Close, Counted, Breaks, Drop, Go, ErrorStage, Only, object, plugin, IInv, TypeOK, Next
<1>3. \/ faults' = faults /\ at'[u] \in {"close", "done"}
      \/ faults' = faults + 1
  BY DEF Close, Counted, Breaks, Drop, Go, Fails, IInv, TypeOK
<1>4. \/ UNCHANGED <<disk, code>>
      \/ at[u] = "write" /\ disk' = o /\ code' = source[o]
  BY <1>1 DEF Close, Counted, Breaks, Drop, Write, plugin
<1>5. at[u] = "write" => Known(o)
  BY <1>1 DEF Sourced
<1>6. faults \in Nat
  BY DEF IInv, TypeOK
<1>7. SourceStep(u) /\ BlameStep(u)
  BY <1>2, <1>3, <1>4, <1>5, <1>6 DEF SourceStep, BlameStep, Known
<1>. QED BY <1>7, SourceKept, BlameKept

\* The requests of the owner.
LEMMA OwnerSources ==
    ASSUME IInv, Sourced, Blamed, Next, NEW u \in Request, NEW o \in Offer,
           Approve(u, o) \/ Reject(u, o) \/ Cancel(u, o)
    PROVE  Sourced' /\ Blamed'
<1> USE Constants
<1>1. /\ u \in Thread /\ at[u] = "idle" /\ at[u] \notin Saving /\ contested \subseteq contested'
      /\ UNCHANGED <<source, disk, code, faults>>
  BY DEF Approve, Reject, Cancel, Thread, Saving, Next, plugin
<1>2. ASSUME NEW s \in {"approved", "rejected"}, NEW st \in {"approve", "reject"},
             db[o] = "awaiting_approval", Save(u, o, s, st), db' = db
      PROVE  Sourced' /\ Blamed'
  <2>1. s \in Status \union {None} /\ st \in Saving /\ s # None /\ Known(o)
    BY <1>2 DEF Status, Saving, Sourced
  <2>. QED BY <1>1, <1>2, <2>1, SaveSources, SaveBlames
<1>3. CASE Cancel(u, o)
  <2>1. /\ at'[u] = "drop" /\ Only(u) /\ UNCHANGED <<mem, carry>>
        /\ db' = [db EXCEPT ![o] = "cancelled"]
    BY <1>1, <1>3 DEF Cancel, Go, Only, object, IInv, TypeOK
  <2>2. \A p \in Offer : db'[p] \in {db[p], "cancelled"}
    BY <2>1 DEF IInv, TypeOK
  <2>3. SourceStep(u) /\ BlameStep(u)
    BY <1>1, <2>1, <2>2 DEF SourceStep, BlameStep, Known
  <2>. QED BY <1>1, <2>3, SourceKept, BlameKept
<1>. QED BY <1>2, <1>3 DEF Approve, Reject

\* A restart.
LEMMA CrashSources ==
    ASSUME IInv, Sourced, Blamed, Crash
    PROVE  Sourced' /\ Blamed'
<1> USE Constants
<1>1. /\ \A t \in Thread : at'[t] \in {"idle", "done"}
      /\ \A o \in Offer : mem'[o] = None /\ carry'[o] = None
      /\ UNCHANGED <<db, source, disk, code>>
  BY DEF Crash, plugin
<1>2. None # "awaiting_approval"
  BY DEF Status
<1>. QED BY <1>1, <1>2 DEF Sourced, Blamed, Known, OwnSource

\* What waits for the owner or is installed has its own source, whatever happens.
THEOREM SourceInvariance == Spec => [](IInv /\ Sourced /\ Blamed)
<1> USE Constants
<1>1. Init => Sourced /\ Blamed
  <2>. SUFFICES ASSUME Init PROVE Sourced /\ Blamed
    OBVIOUS
  <2>1. None # "awaiting_approval" /\ \A t \in Thread : at[t] = "idle"
    BY DEF Init, Status
  <2>2. \A o \in Offer : db[o] = None /\ mem[o] = None /\ carry[o] = None
    BY DEF Init
  <2>3. disk = None
    BY DEF Init
  <2>. QED BY <2>1, <2>2, <2>3 DEF Sourced, Blamed, OwnSource
<1>2. ASSUME IInv, Sourced, Blamed, [Next]_vars
      PROVE  Sourced' /\ Blamed'
  <2>1. CASE UNCHANGED vars
    BY <1>2, <2>1 DEF vars, Sourced, Blamed, Known, OwnSource
  <2>2. CASE Next
    <3>1. ASSUME NEW u \in Thread, Step(u) PROVE Sourced' /\ Blamed'
      BY <1>2, <2>2, <3>1, SavedSources, CheckSources, SavingSources, EndingSources DEF Step
    <3>. QED BY <1>2, <2>2, <3>1, MessageSources, OwnerSources, CrashSources DEF Next, Acts
  <2>. QED BY <1>2, <2>1, <2>2
<1>. QED BY <1>1, <1>2, Initially, Inductive, PTL DEF Spec

\* The file that _installPlugin writes holds only the source whose hash its own offer
\* gave, contested transfers and failures included.
THEOREM OwnSourceHolds == Spec => []OwnSource
<1>1. Sourced => OwnSource
  BY DEF Sourced
<1>. QED BY <1>1, SourceInvariance, PTL

\* A save that ends well takes an uncontested transfer one step along transitionMap, or
\* back from an installation whose transfer could not be counted.
LEMMA SavedStep ==
    ASSUME IInv, Blamed, NEW u \in Thread, Saved(u), NEW o \in Offer, o \notin contested, db'[o] # db[o]
    PROVE  \/ db'[o] \in transitionMap[db[o]]
           \/ db[o] = "installed" /\ db'[o] = "failed" /\ faults > 0
<1> USE Constants
<1> DEFINE v == carry[Doc(u, o)]
<1>1. o = to[u] /\ v # "same" /\ db' = [db EXCEPT ![o] = v] /\ db'[o] = v
  <2>1. to[u] \in Offer
    BY AtWork DEF Saved, Saving
  <2>2. db' = IF carry[Doc(u, to[u])] = "same" THEN db ELSE [db EXCEPT ![to[u]] = carry[Doc(u, to[u])]]
    BY DEF Saved
  <2>3. o = to[u]
    BY <2>1, <2>2 DEF IInv, TypeOK
  <2>. QED BY <2>2, <2>3 DEF IInv, TypeOK
<1>2. at[u] \in Saving /\ db[o] \in StatusOf(u, at[u])
  BY <1>1, AtWork DEF Saved, Saving
<1>3. at[u] # "chunk" /\ v = Written(at[u])
  <2>1. at[u] = "chunk" => Doc(u, o) = o
    BY DEF IInv, OwnStages, Doc
  <2>. QED BY <1>1, <1>2, <2>1 DEF IInv, Carries
<1>4. IF u \in Request THEN at[u] \in {"approve", "reject", "install", "broken"} ELSE at[u] # "reject"
  BY <1>2 DEF IInv, OwnStages, Saving
<1>5. CASE at[u] = "install"
  BY <1>1, <1>2, <1>3, <1>5 DEF StatusOf, Written, transitionMap
<1>8. CASE at[u] = "broken"
  <2>1. faults > 0
    BY <1>1, <1>8 DEF Blamed
  <2>. QED BY <1>1, <1>2, <1>3, <1>8, <2>1 DEF StatusOf, Written, transitionMap
<1>6. CASE at[u] \in {"bad", "mismatch", "fail", "park"}
  BY <1>1, <1>2, <1>3, <1>4, <1>6 DEF StatusOf, Written, transitionMap
<1>7. CASE at[u] \in {"approve", "reject"}
  BY <1>1, <1>2, <1>3, <1>4, <1>7 DEF StatusOf, Written, transitionMap
<1>. QED BY <1>2, <1>3, <1>5, <1>6, <1>7, <1>8 DEF Saving

\* The status of an uncontested transfer (P2PTransfer.js) changes only as transitionMap
\* allows, or to failed when the count that follows an installation fails.
THEOREM KeepsToMapHolds == Spec => KeepsToMap
<1> USE Constants
<1> DEFINE Keeps == \A o \in Offer \ contested' :
                      db[o] # None /\ db'[o] # db[o] =>
                        \/ db'[o] \in transitionMap[db[o]]
                        \/ db[o] = "installed" /\ db'[o] = "failed" /\ faults > 0
<1>1. ASSUME IInv, Blamed, Next PROVE Keeps
  <2>. SUFFICES ASSUME NEW o \in Offer, o \notin contested', db[o] # None, db'[o] # db[o]
                PROVE  \/ db'[o] \in transitionMap[db[o]]
                       \/ db[o] = "installed" /\ db'[o] = "failed" /\ faults > 0
    OBVIOUS
  <2>1. o \notin contested
    BY <1>1 DEF Next
  <2>2. ASSUME NEW m \in Message, OfferCreated(m) PROVE FALSE
    <3>1. m[2] = 0 /\ at[m] = "idle" /\ db' = [db EXCEPT ![m[1]] = "transferring"]
      BY <2>2 DEF OfferCreated
    <3>2. db[m[1]] = None
      BY <1>1, <3>1 DEF IInv, Born
    <3>. QED BY <3>1, <3>2, <1>1 DEF IInv, TypeOK
  <2>3. ASSUME NEW m \in Message, Register(m) \/ ChunkIgnored(m) \/ BadChunk(m) \/ Chunk(m)
        PROVE  FALSE
    BY <2>3 DEF Register, ChunkIgnored, BadChunk, Chunk
  <2>4. ASSUME NEW u \in Thread, Saved(u)
        PROVE  \/ db'[o] \in transitionMap[db[o]]
               \/ db[o] = "installed" /\ db'[o] = "failed" /\ faults > 0
    BY <1>1, <2>1, <2>4, SavedStep
  <2>5. ASSUME NEW u \in Thread,
               \/ SaveFails(u) \/ Check(u) \/ Vet(u) \/ Caught(u) \/ Close(u)
               \/ Install(u) \/ Counted(u) \/ Breaks(u) \/ Drop(u)
        PROVE  FALSE
    BY <2>5 DEF SaveFails, Check, Vet, Caught, Close, Install, Counted, Breaks, Drop, buffer
  <2>6. ASSUME NEW u \in Request, NEW p \in Offer, Approve(u, p) \/ Reject(u, p) PROVE FALSE
    BY <2>6 DEF Approve, Reject
  <2>7. ASSUME NEW u \in Request, NEW p \in Offer, Cancel(u, p) PROVE db'[o] \in transitionMap[db[o]]
    BY <1>1, <2>7 DEF Cancel, IInv, TypeOK
  <2>8. CASE Crash
    BY <2>8 DEF Crash
  <2>. QED BY <1>1, <2>2, <2>3, <2>4, <2>5, <2>6, <2>7, <2>8 DEF Next, Acts, Step
<1>2. UNCHANGED vars => Keeps
  BY DEF vars
<1>3. IInv /\ Blamed /\ [Next]_vars => [Keeps]_vars
  BY <1>1, <1>2
<1>. QED BY <1>3, SourceInvariance, PTL DEF Spec, KeepsToMap

=============================================================================
