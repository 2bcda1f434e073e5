----------------------------- MODULE TempFiles ------------------------------
(***************************************************************************)
(* FeedCache with the temporary files of Cache.store: they have names of   *)
(* their own, beside the two files of the entry, and no one reads them.    *)
(***************************************************************************)
EXTENDS FeedCache

VARIABLE temps          \* the goroutines whose temporary file is in the directory

tempVars == <<vars, temps>>

TempInit == Init /\ temps = {}

\* Mutant: a failing rename returns without os.Remove.
RemovedUnlessRename(f) == IF pc[f] = "rename" THEN temps ELSE temps \ {f}

\* A failing write, close or rename removes the file before store returns.
Removed(f) == temps \ {f}

\* os.CreateTemp puts a file there, os.Rename gives it the name of the body.
StoreStep(f) ==
    \/ CreateTemp(f) /\ temps' = temps \cup {f}
    \/ Rename(f) /\ temps' = temps \ {f}
    \/ StoreFails(f) /\ temps' = Removed(f)

\* The file of a goroutine that is killed stays, but it is no one's.
KillStep(p) == Restart(p) /\ temps' = {f \in temps : ProcOf[f] # p}

OtherStep(f) ==
    /\ \/ Begin(f) \/ Lock(f) \/ LoadBody(f) \/ LoadMeta(f) \/ ServeFresh(f) \/ Send(f)
       \/ Receive304(f) \/ Receive200(f) \/ RequestFails(f) \/ ReadBody(f)
       \/ WriteTemp(f) \/ TruncMeta(f) \/ WriteMeta(f) \/ Return(f)
    /\ UNCHANGED temps

TempNext ==
    \/ Environment /\ UNCHANGED temps
    \/ \E f \in Fetchers : StoreStep(f) \/ OtherStep(f)
    \/ \E p \in Procs : KillStep(p)

TempSpec == TempInit /\ [][TempNext]_tempVars
-----------------------------------------------------------------------------
\* cache.go:79-91: whatever fails, and in however many processes at once, a store that
\* gets to its end leaves no copy of the feed behind; only a kill does.
NoTempLeft == \A f \in temps : pc[f] \in {"write", "rename"}
=============================================================================
