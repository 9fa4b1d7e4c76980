----------------------------- MODULE ClipCache -----------------------------
(***************************************************************************)
(* The clip cache of client/stt.py: executor threads of all client workers *)
(* ask one client for decoded clips.  Each path has a lock object of its   *)
(* own, and a cache lock guards the table of locks and the cache.          *)
(*                                                                         *)
(* The state is the record c:                                              *)
(*   cap      _CLIP_CACHE_MAX_CLIPS                                        *)
(*   pc       of a thread: "idle", "acquiring", "looking", "decoding",     *)
(*            "releasing"                                                  *)
(*   todo     the paths a thread still has to ask for                      *)
(*   lock     the lock object a thread has a reference to                  *)
(*   locks    _clip_locks: the lock object of a path, 0 without            *)
(*   owner    the thread that holds a lock object, 0 when unlocked         *)
(*   cache    _clip_cache: the cached paths, oldest first                  *)
(*   decodes  how often a path was decoded, or is being decoded            *)
(***************************************************************************)
EXTENDS Naturals, Sequences, FiniteSets, FiniteSetsExt

CONSTANTS
    Asks,  \* for each thread, the sequence of paths it asks for
    Caps   \* the caps to look at

VARIABLE c

Thread == DOMAIN Asks
Path == UNION {{Asks[t][i] : i \in DOMAIN Asks[t]} : t \in Thread}

\* What the constants are: 0 is no thread.
ClipsAssumption ==
    /\ 0 \notin Thread
    /\ IsFiniteSet(Path) /\ Asks \in [Thread -> Seq(Path)]
    /\ Caps \subseteq Nat

Init == \E cap \in Caps :
    c = [cap |-> cap, pc |-> [t \in Thread |-> "idle"], todo |-> Asks,
         lock |-> [t \in Thread |-> 0], locks |-> [p \in Path |-> 0], owner |-> <<>>,
         cache |-> <<>>, decodes |-> [p \in Path |-> 0]]

Asked(t) == Head(c.todo[t])
Cached(p) == p \in {c.cache[i] : i \in DOMAIN c.cache}

\* _clip_lock(): under the cache lock, the lock object of the path, made now
\* if there is none.
GetLock(t) ==
    /\ c.pc[t] = "idle"
    /\ c.todo[t] # <<>>
    /\ LET p == Asked(t) IN
         c' = IF c.locks[p] # 0
              THEN [c EXCEPT !.pc[t] = "acquiring", !.lock[t] = c.locks[p]]
              ELSE [c EXCEPT !.pc[t] = "acquiring", !.lock[t] = Len(c.owner) + 1,
                             !.locks[p] = Len(c.owner) + 1, !.owner = Append(@, 0)]

Acquire(t) ==
    /\ c.pc[t] = "acquiring"
    /\ c.owner[c.lock[t]] = 0
    /\ c' = [c EXCEPT !.pc[t] = "looking", !.owner[c.lock[t]] = t]

\* BUG: the cache is looked at before the clip's lock is taken only.
LookUpNever(t) ==
    /\ c.pc[t] = "looking"
    /\ c' = [c EXCEPT !.pc[t] = "decoding", !.decodes[Asked(t)] = @ + 1]

\* Under the clip's lock and the cache lock: a hit, or the decoding begins.
LookUp(t) ==
    /\ c.pc[t] = "looking"
    /\ c' = IF Cached(Asked(t))
            THEN [c EXCEPT !.pc[t] = "releasing"]
            ELSE [c EXCEPT !.pc[t] = "decoding", !.decodes[Asked(t)] = @ + 1]

\* The clip cannot be decoded: the with block lets go of the lock.
DecodeFails(t) ==
    /\ c.pc[t] = "decoding"
    /\ c' = [c EXCEPT !.pc[t] = "releasing", !.decodes[Asked(t)] = @ - 1]

\* An insertion at the end unless the path is cached already; beyond the cap
\* the oldest goes, and its lock with it unless that is held.
Inserted(p) == IF Cached(p) THEN c.cache ELSE Append(c.cache, p)
Evicted(p) == {Inserted(p)[i] : i \in 1 .. Len(Inserted(p)) - c.cap}

LocksAfter(p) ==
    [e \in Path |->
        IF e \in Evicted(p) /\ c.locks[e] # 0 /\ c.owner[c.locks[e]] = 0 THEN 0 ELSE c.locks[e]]

Store(t) ==
    /\ c.pc[t] = "decoding"
    /\ LET p == Asked(t) IN
         c' = [c EXCEPT !.pc[t] = "releasing",
                        !.cache = SubSeq(Inserted(p), Cardinality(Evicted(p)) + 1, Len(Inserted(p))),
                        !.locks = LocksAfter(p)]

Release(t) ==
    /\ c.pc[t] = "releasing"
    /\ c' = [c EXCEPT !.pc[t] = "idle", !.owner[c.lock[t]] = 0, !.lock[t] = 0, !.todo[t] = Tail(@)]

Step(t) == GetLock(t) \/ Acquire(t) \/ LookUp(t) \/ DecodeFails(t) \/ Store(t) \/ Release(t)
Next == \E t \in Thread : Step(t)
Spec == Init /\ [][Next]_c /\ \A t \in Thread : WF_c(Step(t))

-----------------------------------------------------------------------------
\* Two threads never decode the same clip at the same time.
OneDecoder ==
    \A t, u \in Thread :
        c.pc[t] = "decoding" /\ c.pc[u] = "decoding" /\ t # u => Asked(t) # Asked(u)

\* The cache respects its cap.  While nothing is evicted the herd at the start
\* decodes each clip once, and once more only after a failure.
HerdDecodesOnce ==
    /\ Len(c.cache) <= c.cap
    /\ Cardinality(Path) <= c.cap => OneDecoder /\ \A p \in Path : c.decodes[p] <= 1

\* Every thread gets through its requests: a lock that was dropped from the
\* table still lets its last holders go.
HerdEnds == \A t \in Thread : <>(c.todo[t] = <<>>)
=============================================================================
