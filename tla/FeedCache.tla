----------------------------- MODULE FeedCache ------------------------------
(***************************************************************************)
(* Fetcher.FetchStatic over the on-disk conditional-GET cache of one URL   *)
(* (feeds/fetch.go, feeds/cache.go): the goroutines of one or several      *)
(* validator processes call it, the mutex of the URL serialises those of   *)
(* one process, and all processes share the two files of the entry.  A     *)
(* step is one file or network operation of the code.                      *)
(***************************************************************************)
EXTENDS FeedOrigin

CONSTANTS
    Fetchers,       \* the goroutines that call FetchStatic for the URL
    Procs,          \* the validator processes that use one cache directory
    ProcOf,         \* the process a goroutine runs in
    NoOne,          \* the holder of a free mutex
    Ttl,            \* how long an entry without validators is served unasked
    Timeout,        \* http.Client.Timeout
    ContentOf       \* the bytes of each version: a rollback repeats earlier ones

ASSUME CacheAssumption ==
    /\ ProcOf \in [Fetchers -> Procs]
    /\ NoOne \notin Fetchers
    /\ Ttl \in Nat
    /\ Timeout \in Nat \ {0}
    /\ DOMAIN ContentOf = Versions

VARIABLES
    body,           \* the .body file
    meta,           \* the .meta.json file; NoMeta stands for a torn one too
    mutex,          \* mutex[p]: who holds the lock of the URL in process p
    flags,          \* flags[p]: the command-line mode of process p
    pc,             \* pc[f]: the next operation of f
    got,            \* got[f]: the body f has in memory, read from disk or network
    gotMeta,        \* gotMeta[f]: the cacheMeta that goes with it
    tmpWhole,       \* tmpWhole[f]: f's temporary file holds all of got[f]
    sentAt,         \* sentAt[f]: when f sent its request
    floor,          \* floor[f]: the version served when f's call began (history)
    res             \* res[f]: what f's call will return

diskVars == <<body, meta>>
localVars == <<got, gotMeta, tmpWhole, sentAt, floor, res>>
vars == <<now, cur, pubAt, body, meta, mutex, flags, pc, got, gotMeta, tmpWhole,
          sentAt, floor, res>>

Flags == {"cached", "refresh", "nocache"}
Steps == {"idle", "lock", "loadBody", "loadMeta", "check", "sent", "reading", "create",
          "write", "rename", "truncMeta", "writeMeta", "return"}
Bodies == [ver : 0 .. MaxVersion, whole : BOOLEAN]
Metas == [ver : 0 .. MaxVersion, tagged : BOOLEAN, at : 0 .. MaxTime]
NoBody == [ver |-> 0, whole |-> FALSE]
NoMeta == [ver |-> 0, tagged |-> FALSE, at |-> 0]

Init ==
    /\ OriginInit
    /\ body = NoBody
    /\ meta = NoMeta
    /\ mutex = [p \in Procs |-> NoOne]
    /\ flags \in [Procs -> Flags]
    /\ pc = [f \in Fetchers |-> "idle"]
    /\ got = [f \in Fetchers |-> NoBody]
    /\ gotMeta = [f \in Fetchers |-> NoMeta]
    /\ tmpWhole = [f \in Fetchers |-> FALSE]
    /\ sentAt = [f \in Fetchers |-> 0]
    /\ floor = [f \in Fetchers |-> 0]
    /\ res = [f \in Fetchers |-> "none"]

Mode(f) == flags[ProcOf[f]]
Hit(f) == gotMeta[f] # NoMeta

\* Mutant: an entry whose age is exactly the TTL is still served.
FreshToTheTtl(m) == ~m.tagged /\ now - m.at <= Ttl

Fresh(m) == ~m.tagged /\ now - m.at < Ttl
Conditional(f) == Hit(f) /\ Mode(f) # "refresh" /\ gotMeta[f].tagged

Goto(f, from, to) == pc[f] = from /\ pc' = [pc EXCEPT ![f] = to]

\* A goroutine calls FetchStatic; without a cache it goes straight to the network.
Begin(f) ==
    /\ Goto(f, "idle", IF Mode(f) = "nocache" THEN "check" ELSE "lock")
    /\ floor' = [floor EXCEPT ![f] = cur]
    /\ UNCHANGED <<originVars, diskVars, mutex, flags, got, gotMeta, tmpWhole, sentAt, res>>

\* Mutant: the mutex is not waited for.
LockUnasked(f) ==
    /\ mutex' = [mutex EXCEPT ![ProcOf[f]] = f]
    /\ Goto(f, "lock", "loadBody")
    /\ UNCHANGED <<originVars, diskVars, flags, localVars>>

Lock(f) ==
    /\ mutex[ProcOf[f]] = NoOne
    /\ mutex' = [mutex EXCEPT ![ProcOf[f]] = f]
    /\ Goto(f, "lock", "loadBody")
    /\ UNCHANGED <<originVars, diskVars, flags, localVars>>

\* load reads the body first and the meta next.  A file that is not there, does not
\* parse or cannot be read makes it a miss.
LoadBody(f) ==
    /\ \/ /\ body # NoBody
          /\ Goto(f, "loadBody", "loadMeta")
          /\ got' = [got EXCEPT ![f] = body]
       \/ /\ Goto(f, "loadBody", "check")
          /\ UNCHANGED got
    /\ UNCHANGED <<originVars, diskVars, mutex, flags, gotMeta, tmpWhole, sentAt, floor, res>>

LoadMeta(f) ==
    /\ Goto(f, "loadMeta", "check")
    /\ \/ /\ meta # NoMeta
          /\ gotMeta' = [gotMeta EXCEPT ![f] = meta]
          /\ UNCHANGED got
       \/ /\ got' = [got EXCEPT ![f] = NoBody]
          /\ UNCHANGED gotMeta
    /\ UNCHANGED <<originVars, diskVars, mutex, flags, tmpWhole, sentAt, floor, res>>

MayServe(f) == Hit(f) /\ Mode(f) # "refresh" /\ Fresh(gotMeta[f])

ServeFresh(f) ==
    /\ MayServe(f)
    /\ Goto(f, "check", "return")
    /\ res' = [res EXCEPT ![f] = "body"]
    /\ UNCHANGED <<originVars, diskVars, mutex, flags, got, gotMeta, tmpWhole, sentAt, floor>>

Send(f) ==
    /\ ~MayServe(f)
    /\ Goto(f, "check", "sent")
    /\ sentAt' = [sentAt EXCEPT ![f] = now]
    /\ UNCHANGED <<originVars, diskVars, mutex, flags, got, gotMeta, tmpWhole, floor, res>>

\* The origin finds that the validators of the request are those of its version.  The
\* code takes a 304 whenever it has an entry; an origin has none to give to a request
\* without validators (HTTP), and that it keeps to this is assumed.
Receive304(f) ==
    /\ Conditional(f)
    /\ ContentOf[gotMeta[f].ver] = ContentOf[cur]
    /\ Goto(f, "sent", "return")
    /\ res' = [res EXCEPT ![f] = "body"]
    /\ UNCHANGED <<originVars, diskVars, mutex, flags, got, gotMeta, tmpWhole, sentAt, floor>>

\* It answers with its version, with or without an ETag or Last-Modified header.
Receive200(f) ==
    /\ Goto(f, "sent", "reading")
    /\ got' = [got EXCEPT ![f] = [ver |-> cur, whole |-> FALSE]]
    /\ \E tagged \in BOOLEAN :
          gotMeta' = [gotMeta EXCEPT ![f] = [ver |-> cur, tagged |-> tagged, at |-> 0]]
    /\ UNCHANGED <<originVars, diskVars, mutex, flags, tmpWhole, sentAt, floor, res>>

\* No connection, another status, a body cut short, or the client's timeout.
RequestFails(f) ==
    /\ Goto(f, pc[f], "return")
    /\ pc[f] \in {"sent", "reading"}
    /\ res' = [res EXCEPT ![f] = "error"]
    /\ UNCHANGED <<originVars, diskVars, mutex, flags, got, gotMeta, tmpWhole, sentAt, floor>>

\* Mutant: the meta is stamped with the end of its TTL, which the clock has yet to reach.
ReadBodyExpiry(f) ==
    /\ Goto(f, "reading", IF Mode(f) = "nocache" THEN "return" ELSE "create")
    /\ got' = [got EXCEPT ![f].whole = TRUE]
    /\ gotMeta' = [gotMeta EXCEPT ![f].at = now + Ttl]
    /\ res' = [res EXCEPT ![f] = "body"]
    /\ UNCHANGED <<originVars, diskVars, mutex, flags, tmpWhole, sentAt, floor>>

\* io.ReadAll returns all of the body: from here on the call cannot fail.
ReadBody(f) ==
    /\ Goto(f, "reading", IF Mode(f) = "nocache" THEN "return" ELSE "create")
    /\ got' = [got EXCEPT ![f].whole = TRUE]
    /\ gotMeta' = [gotMeta EXCEPT ![f].at = now]
    /\ res' = [res EXCEPT ![f] = "body"]
    /\ UNCHANGED <<originVars, diskVars, mutex, flags, tmpWhole, sentAt, floor>>

\* store: temporary file, write, rename over the body, then truncate and write the meta.
CreateTemp(f) ==
    /\ Goto(f, "create", "write")
    /\ tmpWhole' = [tmpWhole EXCEPT ![f] = FALSE]
    /\ UNCHANGED <<originVars, diskVars, mutex, flags, got, gotMeta, sentAt, floor, res>>

\* Mutant: the error of a short write to the temporary file is dropped.
WriteTempUnchecked(f) ==
    /\ Goto(f, "write", "rename")
    /\ \E whole \in BOOLEAN : tmpWhole' = [tmpWhole EXCEPT ![f] = whole]
    /\ UNCHANGED <<originVars, diskVars, mutex, flags, got, gotMeta, sentAt, floor, res>>

WriteTemp(f) ==
    /\ Goto(f, "write", "rename")
    /\ tmpWhole' = [tmpWhole EXCEPT ![f] = TRUE]
    /\ UNCHANGED <<originVars, diskVars, mutex, flags, got, gotMeta, sentAt, floor, res>>

Rename(f) ==
    /\ Goto(f, "rename", "truncMeta")
    /\ body' = [ver |-> got[f].ver, whole |-> tmpWhole[f]]
    /\ UNCHANGED <<originVars, meta, mutex, flags, localVars>>

TruncMeta(f) ==
    /\ Goto(f, "truncMeta", "writeMeta")
    /\ meta' = NoMeta
    /\ UNCHANGED <<originVars, body, mutex, flags, localVars>>

WriteMeta(f) ==
    /\ Goto(f, "writeMeta", "return")
    /\ meta' = gotMeta[f]
    /\ UNCHANGED <<originVars, body, mutex, flags, localVars>>

\* Mutant: when the rename fails the meta is written all the same.
StoreFailsGoesOn(f) ==
    /\ Goto(f, pc[f], IF pc[f] = "rename" THEN "truncMeta" ELSE "return")
    /\ pc[f] \in {"create", "write", "rename", "truncMeta", "writeMeta"}
    /\ UNCHANGED <<originVars, diskVars, mutex, flags, localVars>>

\* Any operation of store may fail; the entry stays as the failure leaves it.
StoreFails(f) ==
    /\ Goto(f, pc[f], "return")
    /\ pc[f] \in {"create", "write", "rename", "truncMeta", "writeMeta"}
    /\ UNCHANGED <<originVars, diskVars, mutex, flags, localVars>>

\* The calls of S are over and their goroutines keep nothing of them.
Forget(S) ==
    /\ pc' = [f \in Fetchers |-> IF f \in S THEN "idle" ELSE pc[f]]
    /\ got' = [f \in Fetchers |-> IF f \in S THEN NoBody ELSE got[f]]
    /\ gotMeta' = [f \in Fetchers |-> IF f \in S THEN NoMeta ELSE gotMeta[f]]
    /\ tmpWhole' = [f \in Fetchers |-> IF f \in S THEN FALSE ELSE tmpWhole[f]]
    /\ sentAt' = [f \in Fetchers |-> IF f \in S THEN 0 ELSE sentAt[f]]
    /\ floor' = [f \in Fetchers |-> IF f \in S THEN 0 ELSE floor[f]]
    /\ res' = [f \in Fetchers |-> IF f \in S THEN "none" ELSE res[f]]

\* Mutant: the unlock is not deferred, and no path has it.
ReturnLocked(f) ==
    /\ pc[f] = "return"
    /\ Forget({f})
    /\ UNCHANGED <<originVars, diskVars, mutex, flags>>

\* FetchStatic returns; its deferred calls release the mutex if it was taken.
Return(f) ==
    /\ pc[f] = "return"
    /\ Forget({f})
    /\ mutex' = [mutex EXCEPT ![ProcOf[f]] = IF @ = f THEN NoOne ELSE @]
    /\ UNCHANGED <<originVars, diskVars, flags>>

\* Process p ends, finished or killed in the middle of its calls, and another
\* one takes its place with flags of its own.
Restart(p) ==
    /\ Forget({f \in Fetchers : ProcOf[f] = p})
    /\ mutex' = [mutex EXCEPT ![p] = NoOne]
    /\ \E m \in Flags : flags' = [flags EXCEPT ![p] = m]
    /\ UNCHANGED <<originVars, diskVars>>

\* The clock never runs past the deadline of a request: its client gives up.
Tick ==
    /\ \A f \in Fetchers : pc[f] \in {"sent", "reading"} => now < sentAt[f] + Timeout
    /\ AdvanceClock

Environment == (Publish \/ Tick) /\ UNCHANGED <<diskVars, mutex, flags, pc, localVars>>

Progress(f) ==
    \/ LoadBody(f) \/ LoadMeta(f) \/ ServeFresh(f) \/ Send(f)
    \/ Receive304(f) \/ Receive200(f) \/ RequestFails(f) \/ ReadBody(f)
    \/ CreateTemp(f) \/ WriteTemp(f) \/ Rename(f) \/ TruncMeta(f) \/ WriteMeta(f)
    \/ StoreFails(f) \/ Return(f)

Next ==
    \/ Environment
    \/ \E f \in Fetchers : Begin(f) \/ Lock(f) \/ Progress(f)
    \/ \E p \in Procs : Restart(p)

Spec == Init /\ [][Next]_vars

\* A started operation ends (the HTTP timeout bounds the only one that could
\* hang), and sync.Mutex lets no waiter starve.
Fairness == \A f \in Fetchers : WF_vars(Progress(f)) /\ SF_vars(Lock(f))

FairSpec == Spec /\ Fairness
-----------------------------------------------------------------------------
\* The variables keep their types.  In particular every FetchedAt is a time the clock
\* has shown (fetch.go:98).
TypeOK ==
    /\ now \in 0 .. MaxTime
    /\ cur \in Versions
    /\ pubAt \in [Versions -> 0 .. MaxTime]
    /\ body \in Bodies
    /\ meta \in Metas
    /\ mutex \in [Procs -> Fetchers \cup {NoOne}]
    /\ flags \in [Procs -> Flags]
    /\ pc \in [Fetchers -> Steps]
    /\ got \in [Fetchers -> Bodies]
    /\ gotMeta \in [Fetchers -> Metas]
    /\ tmpWhole \in [Fetchers -> BOOLEAN]
    /\ sentAt \in [Fetchers -> 0 .. MaxTime]
    /\ floor \in [Fetchers -> 0 .. MaxVersion]
    /\ res \in [Fetchers -> {"none", "error", "body"}]

\* cache.go:69 "a crash can never leave a valid meta pointing at a partial body":
\* whatever was killed or failed while storing, the body file a parseable meta
\* stands beside is a complete one.
NoPartialEntry == meta # NoMeta => body.ver # 0 /\ body.whole

\* No call returns bytes cut short, whether they come from the disk or the network.
ServedIntact == \A f \in Fetchers : res[f] = "body" => got[f].ver # 0 /\ got[f].whole

\* fetch.go:82: the body given for a 304 is the one the origin means by it, the
\* one it would have sent in full.
NotModifiedServesCurrent ==
    [][\A f \in Fetchers : Receive304(f) => ContentOf[got[f].ver] = ContentOf[cur]]_vars

\* A call that went to the network is given a version at least as new as the
\* one served when the call began; only the TTL may serve an older one, and
\* that one was still served less than Ttl + Timeout ago.  This is FeedRead.
AnswerOf(f) == CASE res[f] = "none" -> NoAnswer
                 [] res[f] = "error" -> ErrorAnswer
                 [] res[f] = "body" -> BodyAnswer(got[f])
Opened == [f \in Fetchers |-> pc[f] # "idle"]
Answers == [f \in Fetchers |-> AnswerOf(f)]
Read == INSTANCE FeedRead WITH Slack <- Ttl + Timeout - 1, open <- Opened, ans <- Answers
ImplementsRead == Read!Spec

\* fetch.go:59: at most one goroutine of a process is between the lock and the
\* return for the URL, whatever path the others leave by.
Exclusive ==
    \A f, g \in Fetchers :
        /\ f # g /\ ProcOf[f] = ProcOf[g] /\ Mode(f) # "nocache"
        /\ pc[f] \notin {"idle", "lock"}
        => pc[g] \in {"idle", "lock"}

\* Once the meta of an entry is parseable it describes a version no newer than
\* the body: the entry may be asked for again, never mistaken for a newer one.
MetaNotAhead == meta # NoMeta => meta.ver <= body.ver

\* Every call of FetchStatic returns, whatever fails and however many wait.
CallsReturn == \A f \in Fetchers : pc[f] # "idle" ~> pc[f] = "idle"
=============================================================================
