----------------------------- MODULE ServerSweep -----------------------------
(***************************************************************************)
(* A sweep of benchmarks against managed servers: cli/benchmarks.py groups *)
(* the configurations by server, benchmark_orchestrator.managed_server     *)
(* wraps each group in one server's life, and the runners of               *)
(* managed_engines.py start and stop a process or a container.  All of it  *)
(* runs on the main thread; the server lives and dies on its own.          *)
(*                                                                         *)
(* The whole state is the record s:                                        *)
(*   flavor    "vajra" (a subprocess) or "docker" (a container)            *)
(*   auto      the GPU ids are to be found by the resource manager         *)
(*   pc        where the main thread is                                    *)
(*   todo      the groups left: sequences of configurations                *)
(*   ran       <<configuration, server key>> of the benchmarks run, in order *)
(*   key       the server key of the group at work                         *)
(*   server    the real process: "none", "made" (a container that never    *)
(*             ran), "booting", "ready" or "dead"                          *)
(*   handle    _process or _container_id is set                            *)
(*   streamer  a process copies the container's log                        *)
(*   logs      log files are open                                          *)
(*   holding   _allocated_job_id is set                                    *)
(*   ticks     polls of the readiness wait                                 *)
(*   raised    an exception is on its way out                              *)
(*   stuck     a SIGKILL was not obeyed within its timeout                 *)
(*   unremoved docker could not stop and remove the container              *)
(***************************************************************************)
EXTENDS Naturals, Sequences, FiniteSets

CONSTANTS
    Configs,      \* the sweep's configurations, in order
    KeyOf,        \* the server key of a configuration
    StartupPolls  \* polls of _wait_for_ready_or_raise before its timeout

VARIABLE s

Running == {"booting", "ready"}

\* is_alive(): poll() of the process, docker inspect for the container.
IsAlive == s.server \in Running /\ (s.flavor = "vajra" => s.handle)

-----------------------------------------------------------------------------
\* The configurations with key k, in their order.
WithKey(k) == SelectSeq(Configs, LAMBDA c : KeyOf[c] = k)

\* BUG: one group for each configuration that has the key.
GroupPerConfig == [i \in DOMAIN Configs |-> WithKey(KeyOf[Configs[i]])]

\* _group_configs_by_server(): one group for each key, in the order of the
\* first configuration that has it.
IsFirst(i) == \A h \in 1 .. i - 1 : KeyOf[Configs[h]] # KeyOf[Configs[i]]
GroupConfigs ==
    LET f[i \in 0 .. Len(Configs)] ==
          IF i = 0 THEN <<>>
          ELSE IF IsFirst(i) THEN Append(f[i - 1], WithKey(KeyOf[Configs[i]])) ELSE f[i - 1]
    IN  f[Len(Configs)]

Idle(flavor, auto) ==
    [flavor |-> flavor, auto |-> auto, pc |-> "next", todo |-> GroupConfigs, ran |-> <<>>,
     key |-> 0, server |-> "none", handle |-> FALSE, streamer |-> FALSE, logs |-> FALSE,
     holding |-> FALSE, ticks |-> 0, raised |-> FALSE, stuck |-> FALSE,
     unremoved |-> FALSE]

Init == \E flavor \in {"vajra", "docker"}, auto \in BOOLEAN : s = Idle(flavor, auto)

Goto(pc) == [s EXCEPT !.pc = pc]
\* Inside the try of start(): the except clause stops the engine, then raises.
Fail == [s EXCEPT !.pc = "cleanup", !.raised = TRUE]

-----------------------------------------------------------------------------
(* The main thread.                                                         *)

\* _is_port_in_use() finds a listener or not.
PortInUse == BOOLEAN

\* The next group of the sweep: managed_server() makes a manager and calls
\* start(), whose port check comes before anything else.  A group whose port
\* is taken raises outside the try of start().  A container that an earlier
\* group left running has a name of its own.
NextGroup ==
    /\ s.pc = "next"
    /\ s.todo # <<>>
    /\ \E busy \in PortInUse :
         s' = [s EXCEPT !.pc = IF busy THEN "finally" ELSE "allocate",
                        !.key = KeyOf[Head(Head(s.todo))],
                        !.server = "none", !.ticks = 0, !.unremoved = FALSE,
                        !.raised = busy]

\* All groups are done: write_sweep_summary() looks up the directory of every
\* configuration.
Summarise ==
    /\ s.pc = "next"
    /\ s.todo = <<>>
    /\ s' = Goto("done")

\* _ensure_gpu_allocation(): nothing when the ids are given; a refusal raises
\* outside the try of start().
EnsureGpuAllocation ==
    /\ s.pc = "allocate"
    /\ IF ~s.auto THEN s' = Goto("spawn")
       ELSE \/ s' = [s EXCEPT !.pc = "spawn", !.holding = TRUE]
            \/ s' = [s EXCEPT !.pc = "finally", !.raised = TRUE]

\* start() of the subprocess runner: the git record, the two log files, Popen;
\* each may fail, with the log files open or not.
SpawnProcess ==
    /\ s.pc = "spawn"
    /\ s.flavor = "vajra"
    /\ \/ \E opened \in BOOLEAN : s' = [Fail EXCEPT !.logs = opened]
       \/ s' = [s EXCEPT !.pc = "wait", !.logs = TRUE, !.handle = TRUE, !.server = "booting"]

\* start() of the container runner: a failed docker run may leave a container
\* that was created and never ran; then the record and the log streamer.
SpawnContainer ==
    /\ s.pc = "spawn"
    /\ s.flavor = "docker"
    /\ \/ \E left \in {"none", "made"} : s' = [Fail EXCEPT !.server = left]
       \/ s' = [s EXCEPT !.pc = "stream", !.handle = TRUE, !.server = "booting"]

StartLogStreamer ==
    /\ s.pc = "stream"
    /\ \/ \E opened \in BOOLEAN : s' = [Fail EXCEPT !.logs = opened]
       \/ s' = [s EXCEPT !.pc = "wait", !.logs = TRUE, !.streamer = TRUE]

\* BUG: only a server that died ends the wait.
WaitForever ==
    /\ s.pc = "wait"
    /\ s' = IF ~IsAlive THEN Fail ELSE IF s.server = "ready" THEN Goto("body") ELSE s

\* One round of _wait_for_ready_or_raise().
WaitForReady ==
    /\ s.pc = "wait"
    /\ s' = IF s.ticks >= StartupPolls \/ ~IsAlive THEN Fail
            ELSE IF s.server = "ready" THEN Goto("body")
            ELSE [s EXCEPT !.ticks = @ + 1]

\* run_benchmark_with_endpoint() for the next configuration of the group; it
\* may raise, which leaves the with block.
RunBenchmark ==
    /\ s.pc = "body"
    /\ Head(s.todo) # <<>>
    /\ LET c == Head(Head(s.todo)) IN
         \/ s' = [s EXCEPT !.ran = Append(@, <<c, s.key>>), !.todo[1] = Tail(@)]
         \/ s' = [s EXCEPT !.pc = "finally", !.raised = TRUE]

GroupDone ==
    /\ s.pc = "body"
    /\ Head(s.todo) = <<>>
    /\ s' = Goto("finally")

-----------------------------------------------------------------------------
(* stop(), called by the except clause of start() and by managed_server's   *)
(* finally; after a failed start it is called twice.                        *)

\* _release_allocated_resources().
Released(r) == [r EXCEPT !.holding = FALSE]
\* _close_logs() and the tail of _stop_log_streamer().
LogsClosed(r) == [r EXCEPT !.logs = FALSE]
StreamerStopped(r) == LogsClosed([r EXCEPT !.streamer = FALSE])

After == IF s.pc = "cleanup" THEN "finally" ELSE "left"

\* ProcessTerminator.terminate(): SIGTERM, a wait, SIGKILL, a wait.  The last
\* one raises when even SIGKILL did not help.
Terminated == {TRUE, FALSE}

StopProcess ==
    /\ s.pc \in {"cleanup", "finally"}
    /\ s.flavor = "vajra"
    /\ \E obeyed \in Terminated :
         /\ ~obeyed => s.handle /\ s.server \in Running
         /\ s' = Released(LogsClosed(
                    [s EXCEPT !.pc = After, !.handle = FALSE,
                              !.server = IF s.handle /\ obeyed THEN "dead" ELSE @,
                              !.raised = @ \/ ~obeyed, !.stuck = @ \/ ~obeyed]))

\* BUG: the early return for a container that never ran skips the release.
StopContainerKeepsGpus ==
    /\ s.pc \in {"cleanup", "finally"}
    /\ s.flavor = "docker"
    /\ s' = IF ~s.handle /\ ~IsAlive THEN [StreamerStopped(s) EXCEPT !.pc = After]
            ELSE Released([StreamerStopped(s) EXCEPT !.pc = After, !.handle = FALSE, !.server = "dead"])

\* Whether docker stop or docker rm -f ends the container: a timeout of the one
\* is passed over and the return code of the other is not looked at.
Removed == {TRUE, FALSE}

\* The log streamer goes first; if it cannot be killed, the rest of stop() is
\* skipped but for the release of the GPUs.  The handle is cleared whether the
\* container is removed or runs on.
StopContainer ==
    /\ s.pc \in {"cleanup", "finally"}
    /\ s.flavor = "docker"
    /\ \E obeyed \in Terminated, removed \in Removed :
         /\ ~obeyed => s.streamer /\ removed
         /\ ~removed => IsAlive
         /\ s' = Released(
              IF ~obeyed THEN [s EXCEPT !.pc = After, !.raised = TRUE, !.stuck = TRUE]
              ELSE [StreamerStopped(s) EXCEPT
                      !.pc = After, !.handle = FALSE, !.unremoved = ~removed,
                      !.server = IF (s.handle \/ IsAlive) /\ removed THEN "dead" ELSE @])

\* The with block is left: the exception ends the sweep.
Leave ==
    /\ s.pc = "left"
    /\ s' = IF s.raised THEN Goto("aborted")
            ELSE [s EXCEPT !.pc = "next", !.todo = Tail(@)]

-----------------------------------------------------------------------------
(* The server.                                                              *)
ServerReady == s.server = "booting" /\ s' = [s EXCEPT !.server = "ready"]
ServerDies == s.server \in Running /\ s' = [s EXCEPT !.server = "dead"]

MainThread ==
    \/ NextGroup \/ Summarise \/ EnsureGpuAllocation
    \/ SpawnProcess \/ SpawnContainer \/ StartLogStreamer \/ WaitForReady
    \/ RunBenchmark \/ GroupDone \/ StopProcess \/ StopContainer \/ Leave
Next == MainThread \/ ServerReady \/ ServerDies

\* The main thread goes on; nothing is promised of the server.
Spec == Init /\ [][Next]_s /\ WF_s(MainThread)

-----------------------------------------------------------------------------
\* However a lifecycle ends, its GPUs are given back and it keeps no handle;
\* and unless a process outlived SIGKILL, no log file is open and its engine
\* does not run, but for a container that docker could not remove, of which
\* nobody hears.  A start that fails at any of its steps is cleaned up by stop()
\* being called twice.
NothingLeftBehind ==
    s.pc \in {"left", "next", "done", "aborted"} =>
        /\ ~s.holding
        /\ ~s.stuck => ~s.handle /\ ~s.streamer /\ ~s.logs
        /\ ~s.stuck /\ ~s.unremoved => s.server \notin Running

\* A sweep that finishes has run every configuration exactly once, against the
\* server its own configuration describes, and configurations of one server
\* in their order; a sweep cut short has run no configuration twice.
SweepIsComplete ==
    /\ \A i, j \in DOMAIN s.ran : s.ran[i][1] = s.ran[j][1] => i = j
    /\ \A i \in DOMAIN s.ran : KeyOf[s.ran[i][1]] = s.ran[i][2]
    /\ s.pc = "done" => Len(s.ran) = Len(Configs)

\* Whatever the server does, the sweep comes to an end.
SweepEnds == <>(s.pc \in {"done", "aborted"})

=============================================================================
