-------------------------- MODULE FeedCacheProofs ---------------------------
(***************************************************************************)
(* Proofs about FeedCache, for any number of goroutines, versions and      *)
(* moments: its types, what one process keeps true of the cache entry, and *)
(* that it implements FeedRead; then about TempFiles, for any number of    *)
(* processes.                                                              *)
(***************************************************************************)
EXTENDS TempFiles, TLAPS

\* One validator process uses the cache directory.
OneProcessOnly == \A f, g \in Fetchers : ProcOf[f] = ProcOf[g]

\* The origin never goes back to the bytes of an earlier version.
NoRollback == \A v, w \in Versions : ContentOf[v] = ContentOf[w] => v = w

Storing == {"create", "write", "rename", "truncMeta", "writeMeta"}

-----------------------------------------------------------------------------
LEMMA Constants ==
    /\ NoBody \in Bodies
    /\ NoMeta \in Metas
    /\ 0 \in 0 .. MaxVersion /\ 0 \in 0 .. MaxTime
    /\ "idle" \in Steps
    /\ Versions \subseteq 0 .. MaxVersion
BY OriginAssumption DEF Bodies, Metas, Steps, NoBody, NoMeta, Versions

LEMMA InitTypes == Init => TypeOK
BY OriginAssumption, CacheAssumption, Constants DEF Init, OriginInit, TypeOK, Versions

\* The locals of a goroutine, on their own, for the two actions that reset them.
LocalTypes ==
    /\ pc \in [Fetchers -> Steps]
    /\ got \in [Fetchers -> Bodies]
    /\ gotMeta \in [Fetchers -> Metas]
    /\ tmpWhole \in [Fetchers -> BOOLEAN]
    /\ sentAt \in [Fetchers -> 0 .. MaxTime]
    /\ floor \in [Fetchers -> 0 .. MaxVersion]
    /\ res \in [Fetchers -> {"none", "error", "body"}]

LEMMA ForgetTypes == ASSUME TypeOK, NEW S, Forget(S) PROVE LocalTypes'
BY Constants DEF TypeOK, Forget, LocalTypes

LEMMA NextTypes == TypeOK /\ [Next]_vars => TypeOK'
<1> SUFFICES ASSUME TypeOK, [Next]_vars PROVE TypeOK'
  OBVIOUS
<1> USE OriginAssumption, CacheAssumption, Constants DEF Steps
<1>1. CASE Environment
  <2>1. UNCHANGED <<body, meta, mutex, flags, pc, got, gotMeta, tmpWhole, sentAt, floor, res>>
    BY <1>1 DEF Environment, diskVars, localVars
  <2>2. now' \in 0 .. MaxTime /\ cur' \in Versions /\ pubAt' \in [Versions -> 0 .. MaxTime]
    <3>1. CASE Publish
      BY <3>1 DEF TypeOK, Publish, Versions
    <3>2. CASE Tick
      BY <3>2 DEF TypeOK, Tick, AdvanceClock
    <3> QED BY <1>1, <3>1, <3>2 DEF Environment
  <2> QED BY <2>1, <2>2 DEF TypeOK
<1>2. ASSUME NEW f \in Fetchers, Begin(f) PROVE TypeOK'
  BY <1>2 DEF TypeOK, Begin, Goto, originVars, diskVars
<1>3. ASSUME NEW f \in Fetchers, Lock(f) PROVE TypeOK'
  BY <1>3 DEF TypeOK, Lock, Goto, originVars, diskVars, localVars
<1>4. ASSUME NEW f \in Fetchers, Progress(f) PROVE TypeOK'
  <2>1. CASE LoadBody(f)
    BY <2>1 DEF TypeOK, LoadBody, Goto, originVars, diskVars
  <2>2. CASE LoadMeta(f)
    BY <2>2 DEF TypeOK, LoadMeta, Goto, originVars, diskVars
  <2>3. CASE ServeFresh(f) \/ Receive304(f) \/ RequestFails(f)
    BY <2>3 DEF TypeOK, ServeFresh, Receive304, RequestFails, Goto, originVars, diskVars
  <2>4. CASE Send(f)
    BY <2>4 DEF TypeOK, Send, Goto, originVars, diskVars
  <2>5. CASE Receive200(f)
    BY <2>5 DEF TypeOK, Receive200, Goto, originVars, diskVars, Bodies, Metas
  <2>6. CASE ReadBody(f)
    BY <2>6 DEF TypeOK, ReadBody, Goto, originVars, diskVars, Bodies, Metas
  <2>7. CASE CreateTemp(f) \/ WriteTemp(f)
    BY <2>7 DEF TypeOK, CreateTemp, WriteTemp, Goto, originVars, diskVars
  <2>8. CASE Rename(f)
    BY <2>8 DEF TypeOK, Rename, Goto, originVars, localVars, Bodies
  <2>9. CASE TruncMeta(f) \/ WriteMeta(f)
    BY <2>9 DEF TypeOK, TruncMeta, WriteMeta, Goto, originVars, localVars
  <2>10. CASE StoreFails(f)
    BY <2>10 DEF TypeOK, StoreFails, Goto, originVars, diskVars, localVars
  <2>11. CASE Return(f)
    <3>1. Forget({f})
      BY <2>11 DEF Return
    <3>2. mutex' \in [Procs -> Fetchers \cup {NoOne}]
      BY <2>11 DEF Return, TypeOK
    <3> QED BY <2>11, <3>1, <3>2, ForgetTypes DEF TypeOK, LocalTypes, Return, originVars, diskVars
  <2> QED BY <1>4, <2>1, <2>2, <2>3, <2>4, <2>5, <2>6, <2>7, <2>8, <2>9, <2>10, <2>11 DEF Progress
<1>5. ASSUME NEW p \in Procs, Restart(p) PROVE TypeOK'
  <2> DEFINE S == {f \in Fetchers : ProcOf[f] = p}
  <2>1. Forget(S)
    BY <1>5 DEF Restart
  <2>2. /\ mutex' \in [Procs -> Fetchers \cup {NoOne}]
        /\ flags' \in [Procs -> Flags]
    BY <1>5 DEF Restart, TypeOK
  <2> QED BY <1>5, <2>1, <2>2, ForgetTypes DEF TypeOK, LocalTypes, Restart, originVars, diskVars
<1>6. CASE UNCHANGED vars
  BY <1>6 DEF TypeOK, vars
<1> QED BY <1>1, <1>2, <1>3, <1>4, <1>5, <1>6 DEF Next

\* Every variable of the cache keeps its type.
THEOREM TypeCorrect == Spec => []TypeOK
<1>1. Init => TypeOK
  BY InitTypes
<1>2. TypeOK /\ [Next]_vars => TypeOK'
  BY NextTypes
<1> QED BY <1>1, <1>2, PTL DEF Spec
-----------------------------------------------------------------------------
(***************************************************************************)
(* The inductive invariant of one process.  The claims about what is       *)
(* served are not inductive: they rest on the mutex (nobody else writes    *)
(* the entry between LoadBody and WriteMeta), on the entry (the meta is    *)
(* never ahead of the body, and was true when it was received) and on what *)
(* each goroutine holds in memory at each of its steps.                    *)
(***************************************************************************)
OriginInv ==
    /\ \A v \in Versions : pubAt[v] <= now
    /\ \A v, w \in Versions : v <= w /\ w <= cur => pubAt[v] <= pubAt[w]

LockInv ==
    \A f \in Fetchers :
        Mode(f) # "nocache" /\ pc[f] \notin {"idle", "lock"} => mutex[ProcOf[f]] = f

\* m was received, at most Timeout after its version was being served.
Truthful(m) ==
    /\ m.ver \in 1 .. cur
    /\ m.at <= now
    /\ CurrentSince(m.ver, m.at - Timeout)

\* b is a body the entry's meta m may stand beside.
Entry(b, m) == b.whole /\ b.ver <= cur /\ m.ver <= b.ver /\ Truthful(m)

DiskInv ==
    /\ body # NoBody => body.whole /\ body.ver \in 1 .. cur
    /\ meta # NoMeta => Entry(body, meta)

\* What f holds while it reads the entry, while it asks the origin, while it stores.
Loading(f) ==
    /\ pc[f] \in {"idle", "lock", "loadBody"} => got[f] = NoBody /\ gotMeta[f] = NoMeta
    /\ pc[f] = "loadMeta" => got[f] = body /\ body # NoBody /\ gotMeta[f] = NoMeta
    /\ pc[f] \in {"check", "sent"} /\ Hit(f) => Entry(got[f], gotMeta[f])
    /\ pc[f] \in {"lock", "loadBody", "loadMeta"} \cup Storing => Mode(f) # "nocache"

Asking(f) ==
    /\ floor[f] <= cur
    /\ pc[f] \in {"sent", "reading"} => sentAt[f] <= now /\ now <= sentAt[f] + Timeout
    /\ pc[f] = "reading" => /\ got[f].ver = gotMeta[f].ver
                            /\ got[f].ver \in 1 .. cur /\ floor[f] <= got[f].ver
                            /\ CurrentSince(got[f].ver, sentAt[f])

Stored(f) ==
    /\ pc[f] \in Storing => Entry(got[f], gotMeta[f]) /\ got[f].ver = gotMeta[f].ver
    /\ pc[f] \in {"reading", "create", "write", "rename"} /\ Mode(f) # "nocache"
          => body.ver <= got[f].ver
    /\ pc[f] = "rename" => tmpWhole[f]
    /\ pc[f] \in {"truncMeta", "writeMeta"} => body = got[f]

Answered(f) ==
    /\ pc[f] = "return" => res[f] \in {"error", "body"}
    /\ pc[f] \in Storing => res[f] = "body"
    /\ pc[f] \notin {"return"} \cup Storing => res[f] = "none"
    /\ res[f] = "body" => got[f].whole /\ got[f].ver \in 1 .. cur

FetchInv(f) == Loading(f) /\ Asking(f) /\ Stored(f) /\ Answered(f)

IInv == TypeOK /\ OriginInv /\ LockInv /\ DiskInv /\ \A f \in Fetchers : FetchInv(f)

-----------------------------------------------------------------------------
\* A version served since t is still one served since t when the origin moves on.
LEMMA StillServed ==
    ASSUME TypeOK, OriginInv, Publish \/ AdvanceClock,
           NEW v \in Versions, NEW t \in Int, t <= now, CurrentSince(v, t)
    PROVE  CurrentSince(v, t)'
BY OriginAssumption DEF TypeOK, OriginInv, Publish, AdvanceClock, CurrentSince, Versions

\* What was served at v was served at every newer version too, or still is.
LEMMA NewerServed ==
    ASSUME TypeOK, OriginInv, NEW v \in Versions, NEW w \in Versions, NEW t \in Int,
           v <= w, w <= cur, CurrentSince(v, t)
    PROVE  CurrentSince(w, t)
BY OriginAssumption DEF TypeOK, OriginInv, CurrentSince, Versions

LEMMA SinceEarlier ==
    ASSUME TypeOK, NEW v, NEW t \in Int, NEW u \in Int, u <= t, CurrentSince(v, t)
    PROVE  CurrentSince(v, u)
BY OriginAssumption DEF TypeOK, CurrentSince, Versions

LEMMA InitInv == Init => IInv
<1> SUFFICES ASSUME Init PROVE IInv
  OBVIOUS
<1>1. TypeOK
  BY InitTypes
<1>2. OriginInv /\ LockInv /\ DiskInv
  BY OriginAssumption DEF Init, OriginInit, OriginInv, LockInv, DiskInv, Versions
<1>3. ASSUME NEW f \in Fetchers PROVE FetchInv(f)
  BY OriginAssumption DEF Init, OriginInit, FetchInv, Loading, Asking, Stored, Answered,
     Storing, NoBody, Versions
<1> QED BY <1>1, <1>2, <1>3 DEF IInv

\* The goroutines a step leaves alone keep their part, unless it writes the
\* body under them, and that the mutex forbids.
LEMMA Frame ==
    ASSUME IInv, TypeOK', UNCHANGED <<originVars, flags>>, NEW g \in Fetchers,
           pc'[g] = pc[g], got'[g] = got[g], gotMeta'[g] = gotMeta[g],
           tmpWhole'[g] = tmpWhole[g], sentAt'[g] = sentAt[g], floor'[g] = floor[g],
           res'[g] = res[g],
           body' = body \/ Mode(g) = "nocache" \/ pc[g] \in {"idle", "lock"}
    PROVE  FetchInv(g)'
<1>1. FetchInv(g) /\ Mode(g)' = Mode(g)
  BY DEF IInv, Mode
<1>2. UNCHANGED <<now, cur, pubAt>>
  BY DEF originVars
<1>3. Loading(g)'
  BY <1>1, <1>2 DEF FetchInv, Loading, Hit, Entry, Truthful, CurrentSince, Storing
<1>4. Asking(g)'
  BY <1>1, <1>2 DEF FetchInv, Asking, CurrentSince
<1>5. Stored(g)'
  BY <1>1, <1>2 DEF FetchInv, Loading, Stored, Entry, Truthful, CurrentSince, Storing
<1>6. Answered(g)'
  BY <1>1, <1>2 DEF FetchInv, Answered, Storing
<1> QED BY <1>3, <1>4, <1>5, <1>6 DEF FetchInv

LEMMA EnvironmentInv ==
    ASSUME IInv, TypeOK', Environment
    PROVE  IInv'
<1>1. UNCHANGED <<body, meta, mutex, flags, pc, got, gotMeta, tmpWhole, sentAt, floor, res>>
  BY DEF Environment, diskVars, localVars
<1>2. Publish \/ AdvanceClock
  BY DEF Environment, Tick
<1>3. now <= now' /\ cur <= cur' /\ cur' \in Versions /\ now' \in Nat
  BY <1>2 DEF IInv, TypeOK, Publish, AdvanceClock, Versions
<1>4. OriginInv'
  <2>1. TypeOK /\ OriginInv
    BY DEF IInv
  <2>2. CASE Publish
    BY <2>1, <2>2, OriginAssumption DEF TypeOK, OriginInv, Publish, Versions
  <2>3. CASE AdvanceClock
    BY <2>1, <2>3, OriginAssumption DEF TypeOK, OriginInv, AdvanceClock, Versions
  <2> QED BY <1>2, <2>2, <2>3
<1>5. LockInv'
  BY <1>1 DEF IInv, LockInv, Mode
<1>6. ASSUME NEW m \in Metas, Truthful(m)
      PROVE  m.ver \in 1 .. cur' /\ m.at <= now' /\ CurrentSince(m.ver, m.at - Timeout)'
  <2>0. cur \in 1 .. MaxVersion /\ now \in Int /\ m.at \in Int /\ Timeout \in Nat
    BY OriginAssumption, CacheAssumption DEF IInv, TypeOK, Versions, Metas
  <2>1. m.ver \in Versions /\ m.at - Timeout \in Int /\ m.at - Timeout <= now
    BY <1>6, <2>0, OriginAssumption DEF Truthful, Versions
  <2>2. CurrentSince(m.ver, m.at - Timeout)'
    BY <1>2, <1>6, <2>1, StillServed DEF IInv, Truthful
  <2> QED BY <1>3, <1>6, <2>2 DEF Truthful, IInv, TypeOK, Versions, Metas
<1>7. DiskInv'
  <2>1. body # NoBody => body.whole /\ body.ver \in 1 .. cur'
    BY <1>3 DEF IInv, DiskInv, TypeOK, Versions, Bodies
  <2>2. ASSUME meta # NoMeta PROVE Entry(body, meta)'
    <3>1. Truthful(meta)'
      BY <1>1, <1>6, <2>2 DEF IInv, DiskInv, Entry, TypeOK, Truthful, CurrentSince
    <3> QED BY <1>1, <1>3, <2>2, <3>1 DEF IInv, DiskInv, Entry, TypeOK, Versions, Bodies
  <2> QED BY <1>1, <2>1, <2>2 DEF DiskInv
<1>8. ASSUME NEW f \in Fetchers PROVE FetchInv(f)'
  <2>1. FetchInv(f) /\ Mode(f)' = Mode(f) /\ got[f] \in Bodies /\ gotMeta[f] \in Metas
    BY <1>1 DEF IInv, Mode, TypeOK
  <2>2. ASSUME Entry(got[f], gotMeta[f]) PROVE Entry(got[f], gotMeta[f])'
    <3>1. Truthful(gotMeta[f])'
      BY <1>1, <1>6, <2>1, <2>2 DEF Entry, Truthful, CurrentSince
    <3> QED BY <1>1, <1>3, <2>1, <2>2, <3>1 DEF Entry, IInv, TypeOK, Versions, Bodies
  <2>3. Loading(f)'
    BY <1>1, <2>1, <2>2 DEF FetchInv, Loading, Hit
  <2>4. Asking(f)'
    <3>1. floor[f]' <= cur'
      BY <1>1, <1>3, <2>1 DEF FetchInv, Asking, IInv, TypeOK, Versions
    <3>2. ASSUME pc[f] \in {"sent", "reading"}
          PROVE  sentAt[f] <= now' /\ now' <= sentAt[f] + Timeout
      <4>1. CASE Publish
        BY <2>1, <3>2, <4>1 DEF FetchInv, Asking, Publish
      <4>2. CASE Tick
        BY <2>1, <3>2, <4>2, CacheAssumption
           DEF FetchInv, Asking, Tick, AdvanceClock, IInv, TypeOK
      <4> QED BY <4>1, <4>2 DEF Environment
    <3>3. ASSUME pc[f] = "reading"
          PROVE  /\ got[f].ver = gotMeta[f].ver
                 /\ got[f].ver \in 1 .. cur' /\ floor[f] <= got[f].ver
                 /\ CurrentSince(got[f].ver, sentAt[f])'
      <4>1. got[f].ver \in Versions /\ sentAt[f] \in Int /\ sentAt[f] <= now
        BY <2>1, <3>3, OriginAssumption DEF FetchInv, Asking, IInv, TypeOK, Versions, Bodies
      <4>2. CurrentSince(got[f].ver, sentAt[f])
        BY <2>1, <3>3 DEF FetchInv, Asking
      <4>3. CurrentSince(got[f].ver, sentAt[f])'
        BY <1>1, <1>2, <4>1, <4>2, StillServed DEF IInv, CurrentSince
      <4> QED BY <1>3, <2>1, <3>3, <4>3 DEF FetchInv, Asking, IInv, TypeOK, Versions, Bodies
    <3> QED BY <1>1, <3>1, <3>2, <3>3 DEF Asking, CurrentSince
  <2>5. Stored(f)'
    BY <1>1, <2>1, <2>2 DEF FetchInv, Stored
  <2>6. Answered(f)'
    BY <1>1, <1>3, <2>1 DEF FetchInv, Answered, IInv, TypeOK, Versions, Bodies
  <2> QED BY <2>3, <2>4, <2>5, <2>6 DEF FetchInv
<1> QED BY <1>4, <1>5, <1>7, <1>8 DEF IInv

\* A step of goroutine f changes no other goroutine.
OthersKeep(f) ==
    \A g \in Fetchers \ {f} :
        /\ pc'[g] = pc[g] /\ got'[g] = got[g] /\ gotMeta'[g] = gotMeta[g]
        /\ tmpWhole'[g] = tmpWhole[g] /\ sentAt'[g] = sentAt[g]
        /\ floor'[g] = floor[g] /\ res'[g] = res[g]

LEMMA ProgressKeepsOthers ==
    ASSUME TypeOK, NEW f \in Fetchers, Begin(f) \/ Lock(f) \/ Progress(f)
    PROVE  OthersKeep(f) /\ UNCHANGED <<now, cur, pubAt, flags>>
<1> USE DEF TypeOK, OthersKeep, Goto, originVars, localVars
<1>1. CASE Begin(f) \/ Lock(f)
  BY <1>1 DEF Begin, Lock
<1>2. CASE LoadBody(f) \/ LoadMeta(f) \/ ServeFresh(f) \/ Send(f)
  BY <1>2 DEF LoadBody, LoadMeta, ServeFresh, Send
<1>3. CASE Receive304(f) \/ RequestFails(f)
  BY <1>3 DEF Receive304, RequestFails
<1>4. CASE Receive200(f)
  BY <1>4 DEF Receive200
<1>5. CASE ReadBody(f)
  BY <1>5 DEF ReadBody
<1>6. CASE CreateTemp(f) \/ WriteTemp(f)
  BY <1>6 DEF CreateTemp, WriteTemp
<1>7. CASE Rename(f) \/ TruncMeta(f) \/ WriteMeta(f) \/ StoreFails(f)
  BY <1>7 DEF Rename, TruncMeta, WriteMeta, StoreFails
<1>8. CASE Return(f)
  BY <1>8 DEF Return, Forget
<1> QED BY <1>1, <1>2, <1>3, <1>4, <1>5, <1>6, <1>7, <1>8 DEF Progress

\* The mutex: in one process, whoever writes the body is alone with the entry.
LEMMA LockStep ==
    ASSUME OneProcessOnly, TypeOK, LockInv, NEW f \in Fetchers,
           Begin(f) \/ Lock(f) \/ Progress(f)
    PROVE  LockInv'
<1>1. OthersKeep(f) /\ flags' = flags
  BY ProgressKeepsOthers
<1>2. ASSUME NEW g \in Fetchers, Mode(g)' # "nocache", pc'[g] \notin {"idle", "lock"}
      PROVE  mutex'[ProcOf[g]] = g
  <2>1. ProcOf[g] \in Procs /\ ProcOf[f] = ProcOf[g] /\ Mode(g)' = Mode(g) /\ f # NoOne /\ g # NoOne
    BY <1>1, CacheAssumption DEF OneProcessOnly, Mode
  <2>2. CASE Begin(f)
    BY <1>1, <1>2, <2>1, <2>2 DEF Begin, Goto, LockInv, Mode, OthersKeep, TypeOK
  <2>3. CASE Lock(f)
    BY <1>1, <1>2, <2>1, <2>3 DEF Lock, Goto, LockInv, OthersKeep, TypeOK
  <2>4. CASE Return(f)
    BY <1>1, <1>2, <2>1, <2>4 DEF Return, Forget, LockInv, OthersKeep, TypeOK
  <2>5. CASE Progress(f) /\ ~Return(f)
    <3>1. mutex' = mutex /\ pc[f] \notin {"idle", "lock"}
      BY <2>5 DEF Progress, LoadBody, LoadMeta, ServeFresh, Send, Receive304, Receive200,
         RequestFails, ReadBody, CreateTemp, WriteTemp, Rename, TruncMeta, WriteMeta,
         StoreFails, Goto
    <3> QED BY <1>1, <1>2, <2>1, <3>1 DEF LockInv, OthersKeep
  <2> QED BY <2>2, <2>3, <2>4, <2>5
<1> QED BY <1>2 DEF LockInv

\* While one goroutine of the only process uses the entry, no other one does.
LEMMA Alone ==
    ASSUME OneProcessOnly, LockInv, NEW f \in Fetchers, NEW g \in Fetchers \ {f},
           Mode(f) # "nocache", pc[f] \notin {"idle", "lock"}
    PROVE  Mode(g) = "nocache" \/ pc[g] \in {"idle", "lock"}
BY DEF OneProcessOnly, LockInv

LEMMA Compose ==
    ASSUME OneProcessOnly, IInv, TypeOK', LockInv', NEW f \in Fetchers,
           Begin(f) \/ Lock(f) \/ Progress(f),
           body' = body \/ pc[f] = "rename",
           DiskInv', FetchInv(f)'
    PROVE  IInv'
<1>1. OthersKeep(f) /\ UNCHANGED <<now, cur, pubAt, flags>>
  BY ProgressKeepsOthers DEF IInv
<1>2. OriginInv'
  BY <1>1 DEF IInv, OriginInv
<1>3. ASSUME NEW g \in Fetchers \ {f} PROVE FetchInv(g)'
  <2>1. body' = body \/ Mode(g) = "nocache" \/ pc[g] \in {"idle", "lock"}
    <3>1. CASE pc[f] = "rename"
      <4>1. Mode(f) # "nocache"
        BY <3>1 DEF IInv, FetchInv, Loading, Storing
      <4> QED BY <3>1, <4>1, Alone DEF IInv
    <3> QED BY <3>1
  <2> QED BY <1>1, <2>1, Frame DEF OthersKeep, originVars
<1> QED BY <1>2, <1>3 DEF IInv

LEMMA FetchStep ==
    ASSUME OneProcessOnly, IInv, TypeOK', NEW f \in Fetchers,
           Begin(f) \/ Lock(f) \/ Progress(f)
    PROVE  IInv'
<1>1. OthersKeep(f) /\ UNCHANGED <<now, cur, pubAt, flags>>
  BY ProgressKeepsOthers DEF IInv
<1>2. LockInv'
  BY LockStep DEF IInv
<1>3. Mode(f)' = Mode(f)
  BY <1>1 DEF Mode
<1>4. /\ cur \in 1 .. MaxVersion /\ now \in Nat /\ floor[f] \in Nat
      /\ Timeout \in Nat /\ MaxVersion \in Nat
      /\ body \in Bodies /\ meta \in Metas /\ got[f] \in Bodies /\ gotMeta[f] \in Metas
  BY OriginAssumption, CacheAssumption DEF IInv, TypeOK, Versions
<1>5. DiskInv /\ FetchInv(f)
  BY DEF IInv
<1> SUFFICES (body' = body \/ pc[f] = "rename") /\ DiskInv' /\ FetchInv(f)'
  BY <1>2, Compose
<1>6. ASSUME UNCHANGED <<body, meta>> PROVE DiskInv'
  BY <1>1, <1>5, <1>6 DEF DiskInv, Entry, Truthful, CurrentSince
<1> USE DEF Goto, TypeOK, FetchInv, Storing
<1>7. CASE Begin(f)
  BY <1>1, <1>3, <1>4, <1>5, <1>6, <1>7
     DEF IInv, Begin, Loading, Asking, Stored, Answered, diskVars, Hit
<1>8. CASE Lock(f)
  BY <1>1, <1>3, <1>4, <1>5, <1>6, <1>8
     DEF IInv, Lock, Loading, Asking, Stored, Answered, diskVars, localVars, Hit
<1>9. CASE LoadBody(f)
  BY <1>1, <1>3, <1>4, <1>5, <1>6, <1>9
     DEF IInv, LoadBody, Loading, Asking, Stored, Answered, diskVars, Hit, NoBody
<1>10. CASE LoadMeta(f)
  BY <1>1, <1>3, <1>4, <1>5, <1>6, <1>10
     DEF IInv, LoadMeta, Loading, Asking, Stored, Answered, diskVars, Hit, DiskInv,
         Entry, Truthful, CurrentSince
<1>11. CASE ServeFresh(f) \/ Receive304(f)
  BY <1>1, <1>3, <1>4, <1>5, <1>6, <1>11
     DEF IInv, ServeFresh, Receive304, MayServe, Conditional, Loading, Asking, Stored,
         Answered, diskVars, Hit, Entry, Truthful, Bodies, Metas
<1>12. CASE Send(f)
  BY <1>1, <1>3, <1>4, <1>5, <1>6, <1>12
     DEF IInv, Send, Loading, Asking, Stored, Answered, diskVars, Hit, Entry, Truthful,
         CurrentSince
<1>13. CASE Receive200(f)
  BY <1>1, <1>3, <1>4, <1>5, <1>6, <1>13
     DEF IInv, Receive200, Loading, Asking, Stored, Answered, diskVars, Hit, DiskInv,
         NoBody, CurrentSince
<1>14. CASE RequestFails(f)
  BY <1>1, <1>3, <1>4, <1>5, <1>6, <1>14
     DEF IInv, RequestFails, Loading, Asking, Stored, Answered, diskVars, Hit
<1>15. CASE ReadBody(f)
  <2>1. /\ got'[f].ver = got[f].ver /\ got'[f].whole
        /\ gotMeta'[f].ver = gotMeta[f].ver /\ gotMeta'[f].at = now
        /\ UNCHANGED <<body, meta>>
    BY <1>4, <1>15 DEF IInv, ReadBody, Bodies, Metas, diskVars
  <2>2. /\ got[f].ver = gotMeta[f].ver /\ got[f].ver \in 1 .. cur
        /\ CurrentSince(got[f].ver, sentAt[f])
        /\ sentAt[f] \in Nat /\ now - Timeout <= sentAt[f]
    BY <1>4, <1>5, <1>15 DEF ReadBody, Asking, IInv
  <2>3. Entry(got[f], gotMeta[f])'
    <3>1. CurrentSince(got[f].ver, now - Timeout)
      BY <1>4, <2>2, SinceEarlier DEF IInv
    <3> QED BY <1>1, <1>4, <2>1, <2>2, <3>1 DEF Entry, Truthful, CurrentSince
  <2>4. Stored(f)' /\ Answered(f)'
    BY <1>1, <1>3, <1>4, <1>5, <1>15, <2>1, <2>2, <2>3
       DEF IInv, ReadBody, Asking, Stored, Answered
  <2>5. Loading(f)' /\ Asking(f)'
    BY <1>1, <1>3, <1>5, <1>15, <2>1 DEF IInv, ReadBody, Loading, Asking, Stored
  <2> QED BY <1>6, <2>1, <2>4, <2>5
<1>16. CASE CreateTemp(f) \/ WriteTemp(f)
  BY <1>1, <1>3, <1>4, <1>5, <1>6, <1>16
     DEF IInv, CreateTemp, WriteTemp, Loading, Asking, Stored, Answered, diskVars, Hit,
         Entry, Truthful, CurrentSince
<1>17. CASE Rename(f)
  <2>1. /\ body' = [ver |-> got[f].ver, whole |-> TRUE] /\ meta' = meta
        /\ UNCHANGED <<got, gotMeta, sentAt, floor, res, tmpWhole>>
        /\ pc[f] = "rename" /\ pc'[f] = "truncMeta"
        /\ body.ver <= got[f].ver
    BY <1>4, <1>5, <1>17 DEF IInv, Rename, localVars, Stored, Loading
  <2>2. Entry(got[f], gotMeta[f]) /\ got[f].ver = gotMeta[f].ver
    BY <1>5, <2>1 DEF Stored
  <2>3. body' = got[f]
    BY <1>4, <2>1, <2>2 DEF Entry, Bodies
  <2>4. DiskInv'
    BY <1>1, <1>4, <1>5, <2>1, <2>2 DEF DiskInv, Entry, Truthful, CurrentSince, Bodies, Metas
  <2>5. Stored(f)'
    BY <1>1, <2>1, <2>2, <2>3 DEF Stored, Entry, Truthful, CurrentSince
  <2>6. Loading(f)' /\ Asking(f)' /\ Answered(f)'
    BY <1>1, <1>3, <1>5, <2>1 DEF Loading, Asking, Answered
  <2> QED BY <2>1, <2>4, <2>5, <2>6
<1>18. CASE TruncMeta(f) \/ WriteMeta(f)
  BY <1>1, <1>3, <1>4, <1>5, <1>18
     DEF IInv, TruncMeta, WriteMeta, Loading, Asking, Stored, Answered, localVars, Hit,
         Entry, Truthful, CurrentSince, Bodies, Metas, DiskInv
<1>19. CASE StoreFails(f)
  BY <1>1, <1>3, <1>4, <1>5, <1>6, <1>19
     DEF IInv, StoreFails, Loading, Asking, Stored, Answered, diskVars, localVars, Hit,
         Entry, Truthful
<1>20. CASE Return(f)
  BY <1>1, <1>3, <1>4, <1>5, <1>6, <1>20
     DEF IInv, Return, Forget, Loading, Asking, Stored, Answered, diskVars, Hit
<1> QED BY <1>7, <1>8, <1>9, <1>10, <1>11, <1>12, <1>13, <1>14, <1>15, <1>16, <1>17,
           <1>18, <1>19, <1>20 DEF Progress

\* A kill leaves the entry as it is, and that is enough for the next process.
LEMMA RestartInv ==
    ASSUME IInv, TypeOK', NEW p \in Procs, Restart(p)
    PROVE  IInv'
<1>1. UNCHANGED <<now, cur, pubAt, body, meta>>
  BY DEF Restart, originVars, diskVars
<1>2. OriginInv' /\ DiskInv'
  BY <1>1 DEF IInv, OriginInv, DiskInv, Entry, Truthful, CurrentSince
<1>3. ASSUME NEW f \in Fetchers, ProcOf[f] = p
      PROVE  /\ pc'[f] = "idle" /\ got'[f] = NoBody /\ gotMeta'[f] = NoMeta
             /\ floor'[f] = 0 /\ res'[f] = "none"
  BY <1>3 DEF Restart, Forget
<1>4. ASSUME NEW f \in Fetchers, ProcOf[f] # p
      PROVE  /\ pc'[f] = pc[f] /\ got'[f] = got[f] /\ gotMeta'[f] = gotMeta[f]
             /\ tmpWhole'[f] = tmpWhole[f] /\ sentAt'[f] = sentAt[f]
             /\ floor'[f] = floor[f] /\ res'[f] = res[f] /\ Mode(f)' = Mode(f)
             /\ mutex'[ProcOf[f]] = mutex[ProcOf[f]]
  BY <1>4, CacheAssumption DEF Restart, Forget, Mode, TypeOK, IInv
<1>5. LockInv'
  BY <1>3, <1>4 DEF LockInv, IInv
<1>6. ASSUME NEW f \in Fetchers PROVE FetchInv(f)'
  <2>1. CASE ProcOf[f] = p
    BY <1>1, <1>3, <2>1, OriginAssumption
       DEF FetchInv, Loading, Asking, Stored, Answered, Storing, IInv, TypeOK, Versions
  <2>2. CASE ProcOf[f] # p
    BY <1>1, <1>4, <2>2 DEF FetchInv, Loading, Asking, Stored, Answered, Storing, IInv,
       Hit, Entry, Truthful, CurrentSince
  <2> QED BY <2>1, <2>2
<1> QED BY <1>2, <1>5, <1>6 DEF IInv

LEMMA NextInv == OneProcessOnly /\ IInv /\ [Next]_vars => IInv'
<1> SUFFICES ASSUME OneProcessOnly, IInv, [Next]_vars PROVE IInv'
  OBVIOUS
<1>1. TypeOK'
  BY NextTypes DEF IInv
<1>2. CASE Environment
  BY <1>1, <1>2, EnvironmentInv
<1>3. CASE \E f \in Fetchers : Begin(f) \/ Lock(f) \/ Progress(f)
  BY <1>1, <1>3, FetchStep
<1>4. CASE \E p \in Procs : Restart(p)
  BY <1>1, <1>4, RestartInv
<1>5. CASE UNCHANGED vars
  <2>1. UNCHANGED <<originVars, flags, body, meta, mutex>>
    BY <1>5 DEF vars, originVars
  <2>2. OriginInv' /\ DiskInv' /\ LockInv'
    BY <1>5 DEF vars, IInv, OriginInv, DiskInv, Entry, Truthful, CurrentSince, LockInv, Mode
  <2>3. ASSUME NEW f \in Fetchers PROVE FetchInv(f)'
    BY <1>1, <1>5, <2>1, Frame DEF vars
  <2> QED BY <1>1, <2>2, <2>3 DEF IInv
<1> QED BY <1>2, <1>3, <1>4, <1>5 DEF Next

\* The invariant of one process, from which the rest follows.
THEOREM Invariance ==
    ASSUME OneProcessOnly PROVE Spec => []IInv
<1>1. Init => IInv
  BY InitInv
<1>2. IInv /\ [Next]_vars => IInv'
  BY NextInv
<1> QED BY <1>1, <1>2, PTL DEF Spec

\* cache.go:68: however a process fails or is killed while it stores the feed,
\* a parseable meta stands beside a complete body.
THEOREM EntryNeverPartial ==
    ASSUME OneProcessOnly PROVE Spec => []NoPartialEntry
<1>1. IInv => NoPartialEntry
  BY DEF IInv, DiskInv, Entry, NoPartialEntry, Truthful, TypeOK, Bodies, Versions
<1> QED BY <1>1, Invariance, PTL

\* cache.go:22-24: the meta never describes a version newer than the body.
THEOREM MetaFollowsBody ==
    ASSUME OneProcessOnly PROVE Spec => []MetaNotAhead
<1>1. IInv => MetaNotAhead
  BY DEF IInv, DiskInv, Entry, MetaNotAhead
<1> QED BY <1>1, Invariance, PTL

\* fetch.go:53-101: no call returns bytes cut short.
THEOREM AnswersIntact ==
    ASSUME OneProcessOnly PROVE Spec => []ServedIntact
<1>1. IInv => ServedIntact
  BY DEF IInv, FetchInv, Answered, ServedIntact, TypeOK, Versions
<1> QED BY <1>1, Invariance, PTL

\* fetch.go:57-60: one goroutine at a time works on the entry.
THEOREM MutualExclusion ==
    ASSUME OneProcessOnly PROVE Spec => []Exclusive
<1>1. IInv => Exclusive
  BY DEF IInv, LockInv, Exclusive, OneProcessOnly, Mode
<1> QED BY <1>1, Invariance, PTL

\* fetch.go:82: with no rollback of the origin, the body given for a 304 is the
\* one the origin serves.
THEOREM NotModifiedIsCurrent ==
    ASSUME OneProcessOnly, NoRollback PROVE Spec => NotModifiedServesCurrent
<1>1. ASSUME IInv, NEW f \in Fetchers, Receive304(f)
      PROVE  ContentOf[got[f].ver] = ContentOf[cur]
  <2>1. Entry(got[f], gotMeta[f])
    BY <1>1 DEF Receive304, Conditional, Goto, IInv, FetchInv, Loading
  <2>2. cur \in 1 .. MaxVersion /\ MaxVersion \in Nat /\ got[f].ver \in Nat
    BY <1>1, OriginAssumption DEF IInv, TypeOK, Bodies, Versions
  <2>3. gotMeta[f].ver = cur
    BY <1>1, <2>1, <2>2 DEF Receive304, NoRollback, Entry, Truthful, Versions
  <2>4. got[f].ver = cur
    BY <2>1, <2>2, <2>3 DEF Entry
  <2> QED BY <2>4
<1>2. IInv =>
        [\A f \in Fetchers : Receive304(f) => ContentOf[got[f].ver] = ContentOf[cur]]_vars
  BY <1>1
<1> QED BY <1>2, Invariance, PTL DEF NotModifiedServesCurrent
-----------------------------------------------------------------------------
(***************************************************************************)
(* FeedCache implements FeedRead: a step that decides an answer is an      *)
(* Answer, the others of a call are stutters, and a kill ends the calls of *)
(* its process.                                                            *)
(***************************************************************************)
LEMMA Quiet ==
    ASSUME UNCHANGED <<now, cur, pubAt, floor>>, Opened' = Opened, Answers' = Answers
    PROVE  UNCHANGED Read!allVars
BY DEF Read!allVars

LEMMA InsideCall ==
    ASSUME NEW f \in Fetchers, OthersKeep(f), pc[f] # "idle", pc'[f] # "idle"
    PROVE  Opened' = Opened
<1>1. ASSUME NEW g \in Fetchers PROVE (pc'[g] # "idle") = (pc[g] # "idle")
  <2>1. CASE g = f
    BY <2>1
  <2>2. CASE g # f
    BY <2>2 DEF OthersKeep
  <2> QED BY <2>1, <2>2
<1> QED BY <1>1 DEF Opened

\* A step that decides an answer decides an acceptable one.
LEMMA Decide ==
    ASSUME TypeOK, TypeOK', NEW f \in Fetchers, OthersKeep(f), pc[f] # "idle",
           Opened' = Opened, UNCHANGED <<now, cur, pubAt, floor>>,
           res[f] = "none",
           \/ res'[f] = "error"
           \/ /\ res'[f] = "body" /\ got'[f].whole /\ got'[f].ver \in Versions
              /\ Read!Acceptable(f, got'[f].ver)
    PROVE  Read!Answer(f)
<1>1. Answers[f] = NoAnswer /\ Opened[f]
  BY DEF Answers, AnswerOf, Opened
<1>2. Answers' = [Answers EXCEPT ![f] = AnswerOf(f)']
  <2>1. ASSUME NEW g \in Fetchers \ {f} PROVE AnswerOf(g)' = AnswerOf(g)
    BY <2>1 DEF AnswerOf, OthersKeep
  <2> QED BY <2>1 DEF Answers
<1>3. CASE res'[f] = "error"
  <2>1. AnswerOf(f)' = ErrorAnswer
    BY <1>3 DEF AnswerOf
  <2> QED BY <1>1, <1>2, <2>1 DEF Read!Answer, Read!NoAnswer, Read!ErrorAnswer, NoAnswer, ErrorAnswer
<1>4. CASE res'[f] = "body"
  <2>1. AnswerOf(f)' = BodyAnswer([ver |-> got'[f].ver, whole |-> TRUE])
    BY <1>4 DEF AnswerOf, BodyAnswer, TypeOK, Bodies
  <2> QED BY <1>1, <1>2, <1>4, <2>1 DEF Read!Answer, Read!NoAnswer, Read!BodyAnswer, NoAnswer,
             BodyAnswer, Read!Versions, Versions
<1> QED BY <1>3, <1>4

\* A step inside a call that decides nothing is not seen by FeedRead.
LEMMA Undecided ==
    ASSUME NEW f \in Fetchers, OthersKeep(f), pc[f] # "idle", pc'[f] # "idle",
           UNCHANGED <<now, cur, pubAt, floor>>, res' = res,
           res[f] = "none" \/ got'[f] = got[f]
    PROVE  UNCHANGED Read!allVars
<1>1. Opened' = Opened
  BY InsideCall
<1>2. ASSUME NEW g \in Fetchers PROVE AnswerOf(g)' = AnswerOf(g)
  <2>1. CASE g = f
    BY <2>1 DEF AnswerOf, BodyAnswer
  <2>2. CASE g # f
    BY <2>2 DEF AnswerOf, OthersKeep
  <2> QED BY <2>1, <2>2
<1>3. Answers' = Answers
  BY <1>2 DEF Answers
<1> QED BY <1>1, <1>3, Quiet

LEMMA AnswerStep ==
    ASSUME NoRollback, IInv, TypeOK', NEW f \in Fetchers,
           ServeFresh(f) \/ Receive304(f) \/ RequestFails(f) \/ ReadBody(f)
    PROVE  Read!Answer(f)
<1>1. OthersKeep(f) /\ UNCHANGED <<now, cur, pubAt, flags>>
  BY ProgressKeepsOthers DEF Progress, IInv
<1>2. pc[f] \in {"check", "sent", "reading"} /\ pc'[f] # "idle" /\ floor' = floor
  BY DEF ServeFresh, Receive304, RequestFails, ReadBody, Goto, IInv, TypeOK
<1>3. Opened' = Opened /\ res[f] = "none"
  BY <1>1, <1>2, InsideCall DEF IInv, FetchInv, Answered, Storing
<1>4. /\ cur \in 1 .. MaxVersion /\ MaxVersion \in Nat /\ now \in Nat /\ floor[f] \in Nat
      /\ Timeout \in Nat /\ Ttl \in Nat /\ got[f] \in Bodies /\ gotMeta[f] \in Metas
      /\ floor[f] <= cur
  BY OriginAssumption, CacheAssumption DEF IInv, TypeOK, Versions, FetchInv, Asking
<1>5. CASE ServeFresh(f)
  <2>1. Entry(got[f], gotMeta[f]) /\ now - gotMeta[f].at < Ttl
    BY <1>5 DEF ServeFresh, MayServe, Fresh, Goto, IInv, FetchInv, Loading
  <2>2. /\ gotMeta[f].ver \in Versions /\ got[f].ver \in Versions
        /\ gotMeta[f].ver <= got[f].ver /\ got[f].ver <= cur /\ got[f].whole
        /\ gotMeta[f].at - Timeout \in Int /\ now - (Ttl + Timeout - 1) \in Int
        /\ now - (Ttl + Timeout - 1) <= gotMeta[f].at - Timeout
    BY <1>4, <2>1 DEF Entry, Truthful, Versions, Bodies, Metas
  <2>3. CurrentSince(got[f].ver, gotMeta[f].at - Timeout)
    BY <2>1, <2>2, NewerServed DEF Entry, Truthful, IInv
  <2>4. CurrentSince(got[f].ver, now - (Ttl + Timeout - 1))
    BY <2>2, <2>3, SinceEarlier DEF IInv
  <2>5. Read!Acceptable(f, got[f].ver)
    BY <2>2, <2>4 DEF Read!Acceptable, Read!CurrentSince, CurrentSince, Read!Versions, Versions
  <2>6. res'[f] = "body" /\ got' = got
    BY <1>5 DEF ServeFresh, IInv, TypeOK
  <2> QED BY <1>1, <1>2, <1>3, <2>2, <2>5, <2>6, Decide DEF IInv
<1>6. CASE Receive304(f)
  <2>1. Entry(got[f], gotMeta[f])
    BY <1>6 DEF Receive304, Conditional, Goto, IInv, FetchInv, Loading
  <2>2. gotMeta[f].ver = cur
    BY <1>4, <1>6, <2>1 DEF Receive304, NoRollback, Entry, Truthful, Versions
  <2>3. got[f].ver = cur /\ got[f].whole
    BY <1>4, <2>1, <2>2 DEF Entry, Bodies
  <2>4. Read!Acceptable(f, got[f].ver)
    BY <1>4, <2>3 DEF Read!Acceptable
  <2>5. res'[f] = "body" /\ got' = got
    BY <1>6 DEF Receive304, IInv, TypeOK
  <2> QED BY <1>1, <1>2, <1>3, <1>4, <2>3, <2>4, <2>5, Decide DEF IInv, Versions
<1>7. CASE RequestFails(f)
  <2>1. res'[f] = "error"
    BY <1>7 DEF RequestFails, IInv, TypeOK
  <2> QED BY <1>1, <1>2, <1>3, <2>1, Decide DEF IInv
<1>8. CASE ReadBody(f)
  <2>1. got[f].ver \in 1 .. cur /\ floor[f] <= got[f].ver
    BY <1>8 DEF ReadBody, Goto, IInv, FetchInv, Asking
  <2>2. res'[f] = "body" /\ got'[f].ver = got[f].ver /\ got'[f].whole
    BY <1>4, <1>8 DEF ReadBody, IInv, TypeOK, Bodies
  <2>3. Read!Acceptable(f, got'[f].ver) /\ got'[f].ver \in Versions
    BY <1>4, <2>1, <2>2 DEF Read!Acceptable, Versions
  <2> QED BY <1>1, <1>2, <1>3, <2>2, <2>3, Decide DEF IInv
<1> QED BY <1>5, <1>6, <1>7, <1>8

\* Return and Restart end the calls of the goroutines they reset.
LEMMA EndStep ==
    ASSUME NEW S, Forget(S), UNCHANGED <<now, cur, pubAt>>
    PROVE  Read!End(S)
<1>1. Opened' = [f \in Fetchers |-> IF f \in S THEN FALSE ELSE Opened[f]]
  <2>1. ASSUME NEW f \in Fetchers
        PROVE  (pc'[f] # "idle") = (IF f \in S THEN FALSE ELSE pc[f] # "idle")
    BY DEF Forget
  <2> QED BY <2>1 DEF Opened
<1>2. Answers' = [f \in Fetchers |-> IF f \in S THEN NoAnswer ELSE Answers[f]]
  <2>1. ASSUME NEW f \in Fetchers
        PROVE  AnswerOf(f)' = (IF f \in S THEN NoAnswer ELSE AnswerOf(f))
    <3>1. CASE f \in S
      BY <3>1 DEF Forget, AnswerOf
    <3>2. CASE f \notin S
      <4>1. res'[f] = res[f] /\ got'[f] = got[f]
        BY <3>2 DEF Forget
      <4>2. AnswerOf(f)' = AnswerOf(f)
        BY <4>1 DEF AnswerOf
      <4> QED BY <3>2, <4>2
    <3> QED BY <3>1, <3>2
  <2> QED BY <2>1 DEF Answers
<1> QED BY <1>1, <1>2 DEF Read!End, Forget, Read!NoAnswer, NoAnswer

LEMMA StepImplements ==
    ASSUME OneProcessOnly, NoRollback, IInv, TypeOK', Next
    PROVE  Read!Next \/ UNCHANGED Read!allVars
<1>1. CASE Environment
  <2>1. Opened' = Opened /\ Answers' = Answers /\ floor' = floor
    BY <1>1 DEF Environment, Opened, Answers, AnswerOf, BodyAnswer, localVars
  <2>2. Read!Publish \/ Read!AdvanceClock
    BY <1>1 DEF Environment, Tick, Publish, AdvanceClock, Read!Publish, Read!AdvanceClock
  <2> QED BY <2>1, <2>2 DEF Read!Next, Read!readVars
<1>2. ASSUME NEW f \in Fetchers, Begin(f) PROVE Read!Next
  <2>1. pc[f] = "idle" /\ pc'[f] # "idle" /\ OthersKeep(f)
    BY <1>2, ProgressKeepsOthers DEF Begin, Goto, IInv, TypeOK
  <2>2. Opened' = [Opened EXCEPT ![f] = TRUE]
    <3>1. ASSUME NEW g \in Fetchers \ {f} PROVE (pc'[g] # "idle") = (pc[g] # "idle")
      BY <2>1, <3>1 DEF OthersKeep
    <3> QED BY <2>1, <3>1 DEF Opened
  <2>3. Answers' = Answers
    BY <1>2 DEF Begin, Answers, AnswerOf
  <2>4. Read!Call(f)
    BY <1>2, <2>1, <2>2, <2>3 DEF Read!Call, Begin, originVars, Opened
  <2> QED BY <2>4 DEF Read!Next
<1>3. ASSUME NEW f \in Fetchers, Lock(f) \/ Progress(f) PROVE Read!Next \/ UNCHANGED Read!allVars
  <2>1. OthersKeep(f) /\ UNCHANGED <<now, cur, pubAt, flags>>
    BY <1>3, ProgressKeepsOthers DEF IInv
  <2>2. CASE ServeFresh(f) \/ Receive304(f) \/ RequestFails(f) \/ ReadBody(f)
    BY <2>2, AnswerStep DEF Read!Next
  <2>3. CASE Return(f)
    BY <2>1, <2>3, EndStep DEF Return, Read!Next
  <2>4. CASE LoadBody(f) \/ LoadMeta(f) \/ Receive200(f)
    <3>1. pc[f] \in {"loadBody", "loadMeta", "sent"} /\ pc'[f] # "idle" /\ res' = res /\ floor' = floor
      BY <2>4 DEF LoadBody, LoadMeta, Receive200, Goto, IInv, TypeOK
    <3>2. res[f] = "none"
      BY <3>1 DEF IInv, FetchInv, Answered, Storing
    <3> QED BY <2>1, <3>1, <3>2, Undecided
  <2>5. CASE Lock(f) \/ Send(f) \/ CreateTemp(f) \/ WriteTemp(f) \/ Rename(f)
                     \/ TruncMeta(f) \/ WriteMeta(f) \/ StoreFails(f)
    <3>1. pc[f] # "idle" /\ pc'[f] # "idle" /\ res' = res /\ floor' = floor /\ got' = got
      BY <2>5 DEF Lock, Send, CreateTemp, WriteTemp, Rename, TruncMeta, WriteMeta, StoreFails,
         Goto, IInv, TypeOK, localVars
    <3> QED BY <2>1, <3>1, Undecided
  <2> QED BY <1>3, <2>2, <2>3, <2>4, <2>5 DEF Progress
<1>4. ASSUME NEW p \in Procs, Restart(p) PROVE Read!Next
  <2> DEFINE S == {f \in Fetchers : ProcOf[f] = p}
  <2>1. Read!End(S)
    BY <1>4, EndStep DEF Restart, originVars
  <2> QED BY <2>1 DEF Read!Next
<1> QED BY <1>1, <1>2, <1>3, <1>4 DEF Next

\* FeedCache implements FeedRead, when one process uses the directory and the
\* origin is never rolled back: fetch.go's answers are as fresh as promised.
THEOREM Implementation ==
    ASSUME OneProcessOnly, NoRollback PROVE Spec => ImplementsRead
<1>1. Init => Read!Init
  BY DEF Init, OriginInit, Read!Init, Read!OriginInit, Opened, Answers, AnswerOf,
     Read!NoAnswer, NoAnswer, Read!Versions, Versions
<1>2. IInv /\ TypeOK' /\ [Next]_vars => [Read!Next]_(Read!allVars)
  <2>1. CASE UNCHANGED vars
    BY <2>1, Quiet DEF vars, Opened, Answers, AnswerOf, BodyAnswer
  <2> QED BY <2>1, StepImplements
<1>3. IInv => TypeOK
  BY DEF IInv
<1> QED BY <1>1, <1>2, <1>3, Invariance, PTL DEF Spec, ImplementsRead, Read!Spec
-----------------------------------------------------------------------------
(***************************************************************************)
(* What needs no lock: with any number of validator processes on one cache *)
(* directory, an entry is never partial, no answer is cut short and no     *)
(* store leaves its temporary file behind.                                 *)
(***************************************************************************)
Whole(b) == b.ver # 0 /\ b.whole

\* The body is only ever replaced by a whole one, and a meta comes after it.
EntryInv ==
    /\ body # NoBody => Whole(body)
    /\ meta # NoMeta => body # NoBody

\* What a goroutine took from the directory is whole, whoever put it there.
Reads(f) ==
    /\ pc[f] \in {"idle", "lock", "loadBody", "loadMeta"} => gotMeta[f] = NoMeta
    /\ pc[f] = "loadMeta" => Whole(got[f])
    /\ pc[f] \in {"check", "sent"} /\ Hit(f) => Whole(got[f])

\* ... and so is what it puts there.
Writes(f) ==
    /\ pc[f] = "reading" => got[f].ver # 0
    /\ pc[f] \in Storing => Whole(got[f])
    /\ pc[f] = "rename" => tmpWhole[f]
    /\ pc[f] \in {"truncMeta", "writeMeta"} => body # NoBody

Gives(f) ==
    /\ pc[f] \notin {"return"} \cup Storing => res[f] # "body"
    /\ res[f] = "body" => Whole(got[f])

HoldInv(f) == Reads(f) /\ Writes(f) /\ Gives(f)

TempInv == temps \subseteq Fetchers /\ NoTempLeft

SharedInv == TypeOK /\ EntryInv /\ (\A f \in Fetchers : HoldInv(f)) /\ TempInv

LEMMA SharedInit == TempInit => SharedInv
<1> SUFFICES ASSUME TempInit PROVE SharedInv
  OBVIOUS
<1>1. Init /\ TypeOK
  BY InitTypes DEF TempInit
<1>2. EntryInv /\ \A f \in Fetchers : HoldInv(f)
  BY <1>1 DEF Init, EntryInv, HoldInv, Reads, Writes, Gives, Storing
<1>3. TempInv
  BY DEF TempInit, TempInv, NoTempLeft
<1> QED BY <1>1, <1>2, <1>3 DEF SharedInv

\* The temporary files aside, the steps are those of FeedCache.
LEMMA TempNextNext == [TempNext]_tempVars => [Next]_vars
BY DEF TempNext, StoreStep, OtherStep, KillStep, Next, Progress, tempVars

\* The entry, and what a step leaves of it to those who have written it.
LEMMA EntryStep ==
    ASSUME SharedInv, TypeOK', [Next]_vars
    PROVE  EntryInv' /\ (body # NoBody => body' # NoBody)
<1> USE DEF SharedInv, EntryInv
<1>1. ASSUME NEW f \in Fetchers, Rename(f) PROVE Whole(body') /\ body' # NoBody /\ meta' = meta
  BY <1>1 DEF Rename, Goto, HoldInv, Writes, Storing, Whole, NoBody
<1>2. ASSUME NEW f \in Fetchers, TruncMeta(f) \/ WriteMeta(f) PROVE body # NoBody /\ body' = body
  BY <1>2 DEF TruncMeta, WriteMeta, Goto, HoldInv, Writes
<1>3. ASSUME NEW f \in Fetchers, Begin(f) \/ Lock(f) \/ Progress(f),
             ~Rename(f), ~TruncMeta(f), ~WriteMeta(f)
      PROVE  UNCHANGED diskVars
  BY <1>3 DEF Begin, Lock, Progress, LoadBody, LoadMeta, ServeFresh, Send, Receive304, Receive200,
     RequestFails, ReadBody, CreateTemp, WriteTemp, StoreFails, Return, diskVars
<1>4. CASE Environment \/ UNCHANGED vars \/ \E p \in Procs : Restart(p)
  BY <1>4 DEF Environment, vars, Restart, diskVars, Whole
<1>5. CASE \E f \in Fetchers : Begin(f) \/ Lock(f) \/ Progress(f)
  BY <1>1, <1>2, <1>3, <1>5 DEF diskVars, Whole
<1> QED BY <1>4, <1>5 DEF Next

\* The goroutine that moves.
LEMMA MoverHolds ==
    ASSUME SharedInv, TypeOK', body # NoBody => body' # NoBody,
           NEW f \in Fetchers, Begin(f) \/ Lock(f) \/ Progress(f)
    PROVE  HoldInv(f)'
<1> USE DEF HoldInv, Reads, Writes, Gives, Goto, Hit, Storing, Whole
<1>1. /\ HoldInv(f) /\ EntryInv
      /\ pc \in [Fetchers -> Steps] /\ got \in [Fetchers -> Bodies]
      /\ gotMeta \in [Fetchers -> Metas] /\ tmpWhole \in [Fetchers -> BOOLEAN]
      /\ res \in [Fetchers -> {"none", "error", "body"}]
      /\ cur \in Versions
  BY DEF SharedInv, TypeOK
<1>2. Mode(f)' = Mode(f)
  BY ProgressKeepsOthers DEF SharedInv, Mode
<1>3. CASE Begin(f)
  BY <1>1, <1>2, <1>3 DEF Begin
<1>4. CASE Lock(f)
  BY <1>1, <1>2, <1>4 DEF Lock, localVars
<1>5. CASE LoadBody(f)
  BY <1>1, <1>2, <1>5 DEF LoadBody, EntryInv
<1>6. CASE LoadMeta(f)
  BY <1>1, <1>2, <1>6 DEF LoadMeta
<1>7. CASE ServeFresh(f) \/ Receive304(f)
  BY <1>1, <1>2, <1>7 DEF ServeFresh, Receive304, MayServe, Conditional
<1>8. CASE Send(f)
  BY <1>1, <1>2, <1>8 DEF Send
<1>9. CASE Receive200(f)
  BY <1>1, <1>2, <1>9, OriginAssumption DEF Receive200, Versions
<1>10. CASE RequestFails(f)
  BY <1>1, <1>2, <1>10 DEF RequestFails
<1>11. CASE ReadBody(f)
  BY <1>1, <1>2, <1>11 DEF ReadBody, Bodies
<1>12. CASE CreateTemp(f) \/ WriteTemp(f)
  BY <1>1, <1>2, <1>12 DEF CreateTemp, WriteTemp
<1>13. CASE Rename(f)
  BY <1>1, <1>2, <1>13 DEF Rename, localVars, NoBody
<1>14. CASE TruncMeta(f) \/ WriteMeta(f) \/ StoreFails(f)
  BY <1>1, <1>2, <1>14 DEF TruncMeta, WriteMeta, StoreFails, localVars, diskVars
<1>15. CASE Return(f)
  BY <1>1, <1>2, <1>15 DEF Return, Forget, NoBody
<1> QED BY <1>3, <1>4, <1>5, <1>6, <1>7, <1>8, <1>9, <1>10, <1>11, <1>12, <1>13, <1>14, <1>15
        DEF Progress

\* A goroutine that a step leaves alone has lost nothing by it.
LEMMA OthersHold ==
    ASSUME SharedInv, body # NoBody => body' # NoBody, NEW g \in Fetchers,
           pc'[g] = pc[g], got'[g] = got[g], gotMeta'[g] = gotMeta[g],
           tmpWhole'[g] = tmpWhole[g], res'[g] = res[g], Mode(g)' = Mode(g)
    PROVE  HoldInv(g)'
BY DEF SharedInv, HoldInv, Reads, Writes, Gives, Hit, Whole

LEMMA HoldStep ==
    ASSUME SharedInv, TypeOK', [Next]_vars, NEW g \in Fetchers
    PROVE  HoldInv(g)'
<1>0. body # NoBody => body' # NoBody
  BY EntryStep
<1>1. CASE Environment \/ UNCHANGED vars
  BY <1>0, <1>1, OthersHold DEF Environment, vars, localVars, Mode
<1>2. ASSUME NEW f \in Fetchers, Begin(f) \/ Lock(f) \/ Progress(f) PROVE HoldInv(g)'
  <2>1. CASE g = f
    BY <1>0, <1>2, <2>1, MoverHolds
  <2>2. CASE g # f
    <3>1. OthersKeep(f) /\ flags' = flags
      BY <1>2, ProgressKeepsOthers DEF SharedInv
    <3> QED BY <1>0, <2>2, <3>1, OthersHold DEF OthersKeep, Mode
  <2> QED BY <2>1, <2>2
<1>3. ASSUME NEW p \in Procs, Restart(p) PROVE HoldInv(g)'
  <2>1. CASE ProcOf[g] = p
    BY <1>3, <2>1 DEF Restart, Forget, HoldInv, Reads, Writes, Gives, Hit, Storing
  <2>2. CASE ProcOf[g] # p
    <3>1. /\ pc'[g] = pc[g] /\ got'[g] = got[g] /\ gotMeta'[g] = gotMeta[g]
          /\ tmpWhole'[g] = tmpWhole[g] /\ res'[g] = res[g]
      BY <1>3, <2>2 DEF Restart, Forget
    <3>2. Mode(g)' = Mode(g)
      BY <1>3, <2>2 DEF Restart, Mode, SharedInv, TypeOK
    <3> QED BY <1>0, <3>1, <3>2, OthersHold
  <2> QED BY <2>1, <2>2
<1> QED BY <1>1, <1>2, <1>3 DEF Next

LEMMA TempStep == ASSUME SharedInv, [TempNext]_tempVars PROVE TempInv'
<1> USE DEF SharedInv, TempInv, NoTempLeft, TypeOK
<1>1. ASSUME NEW f \in Fetchers, StoreStep(f) PROVE TempInv'
  BY <1>1 DEF StoreStep, CreateTemp, Rename, StoreFails, Removed, Goto
<1>2. ASSUME NEW f \in Fetchers, OtherStep(f) PROVE TempInv'
  <2>1. temps' = temps /\ \A g \in Fetchers \ {f} : pc'[g] = pc[g]
    BY <1>2, ProgressKeepsOthers DEF OtherStep, OthersKeep, Progress
  <2>2. pc[f] \in {"write", "rename"} => pc'[f] \in {"write", "rename"}
    BY <1>2 DEF OtherStep, Begin, Lock, LoadBody, LoadMeta, ServeFresh, Send, Receive304,
       Receive200, RequestFails, ReadBody, WriteTemp, TruncMeta, WriteMeta, Return, Goto
  <2> QED BY <2>1, <2>2
<1>3. ASSUME NEW p \in Procs, KillStep(p) PROVE TempInv'
  BY <1>3 DEF KillStep, Restart, Forget
<1>4. CASE UNCHANGED tempVars \/ (Environment /\ UNCHANGED temps)
  BY <1>4 DEF tempVars, vars, Environment
<1> QED BY <1>1, <1>2, <1>3, <1>4 DEF TempNext

LEMMA SharedStep == SharedInv /\ [TempNext]_tempVars => SharedInv'
<1> SUFFICES ASSUME SharedInv, [TempNext]_tempVars PROVE SharedInv'
  OBVIOUS
<1>1. [Next]_vars
  BY TempNextNext
<1>2. TypeOK'
  BY <1>1, NextTypes DEF SharedInv
<1> QED BY <1>1, <1>2, EntryStep, HoldStep, TempStep DEF SharedInv

LEMMA SharedInvariance == TempSpec => []SharedInv
BY SharedInit, SharedStep, PTL DEF TempSpec

\* cache.go:69 for any number of processes: the rename alone, without the mutex, keeps a
\* parseable meta from standing beside a missing or partial body.
THEOREM EntryWholeShared == TempSpec => []NoPartialEntry
<1>1. SharedInv => NoPartialEntry
  BY DEF SharedInv, EntryInv, NoPartialEntry, Whole
<1> QED BY <1>1, SharedInvariance, PTL

\* No call of any process returns bytes cut short (fetch.go:53-101).
THEOREM AnswersWholeShared == TempSpec => []ServedIntact
<1>1. SharedInv => ServedIntact
  BY DEF SharedInv, HoldInv, Gives, ServedIntact, Whole
<1> QED BY <1>1, SharedInvariance, PTL

\* A store that is not killed removes its temporary file or gives it the name of the
\* body, whatever fails (cache.go:74-91).
THEOREM TempsRemoved == TempSpec => []NoTempLeft
<1>1. SharedInv => NoTempLeft
  BY DEF SharedInv, TempInv
<1> QED BY <1>1, SharedInvariance, PTL
=============================================================================
