------------------------------ MODULE TraceFiles ------------------------------
(***************************************************************************)
(* What happens on disk and on the hub to one trace of audio, command      *)
(* after command: a build downloads and unpacks annotations and writes the *)
(* trace in place (scripts/prepare_audio_traces.py), a fetch replaces it   *)
(* and a publication uploads it (scripts/audio_trace_hub.py).  Each        *)
(* command may fail, or be killed between any two steps.                   *)
(*                                                                         *)
(* The state is the record f.  A copy of the trace is [manifest, variant,  *)
(* audio]: the builds that the manifest, the manifest of a variant (a user *)
(* filters the rows) and the audio they share are of, 0 for none.          *)
(***************************************************************************)
EXTENDS Integers

CONSTANTS
    WordFiles,  \* the files in the archive of annotations
    MaxBuilds   \* bound

VARIABLE f

None == [manifest |-> 0, variant |-> 0, audio |-> 0]
\* stopped, killed and cut remember that a build stopped after it had written
\* audio, that a fetch was killed, and that an extraction was; outdated that new
\* audio came under a variant of an old build.
Init == f = [pc |-> "idle", build |-> 0, local |-> None, hub |-> None, staging |-> None,
             archive |-> FALSE, part |-> FALSE, words |-> 0, used |-> 0,
             stopped |-> FALSE, outdated |-> FALSE, killed |-> FALSE, cut |-> FALSE]

Goes(from, to) == f.pc = from /\ f' = [f EXCEPT !.pc = to]

\* validate_trace_dir: a manifest, and the files that it and its variants name;
\* every build names its files alike.
Valid(copy) == copy.manifest # 0 /\ copy.audio # 0

-----------------------------------------------------------------------------
(* A build.                                                                *)
StartBuild == /\ f.pc = "idle" /\ f.build < MaxBuilds
              /\ f' = [f EXCEPT !.pc = "annotations", !.build = @ + 1]

\* find_cached_words_dir: any file of words will do.
FindWords ==
    /\ f.pc = "annotations" /\ f.words > 0
    /\ f' = [f EXCEPT !.pc = "audio", !.used = f.words]

\* An archive that is there is not downloaded again.
FindArchive == f.words = 0 /\ f.archive /\ Goes("annotations", "extract")

\* BUG: the download is written where the archive belongs.
DownloadInPlace ==
    /\ f.pc = "annotations" /\ f.words = 0 /\ ~f.archive
    /\ f' = [f EXCEPT !.pc = "download", !.part = TRUE, !.archive = TRUE]
Download ==
    /\ f.pc = "annotations" /\ f.words = 0 /\ ~f.archive
    /\ f' = [f EXCEPT !.pc = "download", !.part = TRUE]
EndDownload ==
    /\ f.pc = "download"
    /\ \/ f' = [f EXCEPT !.pc = "annotations", !.part = FALSE, !.archive = TRUE]
       \/ f' = [f EXCEPT !.pc = "idle", !.part = FALSE]
\* A part of an archive has no directory and cannot be extracted.
Extract ==
    /\ f.pc = "extract" /\ ~f.part
    /\ f' = [f EXCEPT !.words = @ + 1, !.pc = IF f.words + 1 = WordFiles THEN "annotations" ELSE @]

\* The clips of the new build take the place of the old one's, which the old
\* manifests still name; with too few of them the build ends there.
WriteAudio ==
    /\ f.pc = "audio"
    /\ f' = [f EXCEPT !.pc = "manifest", !.local.audio = f.build,
                      !.outdated = @ \/ f.local.variant # 0]

\* The manifest is new, a variant is not.
WriteManifest ==
    /\ f.pc = "manifest"
    /\ \/ f' = [f EXCEPT !.pc = "idle", !.local.manifest = f.build]
       \/ f' = [f EXCEPT !.pc = "idle", !.stopped = TRUE]

\* The rows of the manifest are filtered into a variant.
FilterVariant == f.local.manifest # 0 /\ f.pc = "idle" /\ f' = [f EXCEPT !.local.variant = f.local.manifest]

-----------------------------------------------------------------------------
(* A fetch.                                                                *)

\* A trace that is there is only replaced on demand.
StartFetch == \E force \in BOOLEAN : (f.local = None \/ force) /\ Goes("idle", "fetch")
Stage ==
    /\ f.pc = "fetch"
    /\ \/ f.hub # None /\ f' = [f EXCEPT !.pc = "replace", !.staging = f.hub]
       \/ f' = [f EXCEPT !.pc = "idle", !.staging = None]

\* The old trace goes, in whatever order its files are listed, then the new comes.
RemoveSome ==
    /\ f.pc = "replace" /\ f.local # None
    /\ \E gone \in DOMAIN None : f' = [f EXCEPT !.local[gone] = 0]

\* BUG: the new trace is moved into what is left of the old one.
MoveOver ==
    /\ f.pc = "replace"
    /\ f' = [f EXCEPT !.pc = "check", !.staging = None, !.local.manifest = f.staging.manifest]
Move ==
    /\ f.pc = "replace" /\ f.local = None
    /\ \/ f' = [f EXCEPT !.pc = "check", !.staging = None, !.local = f.staging]
       \/ f' = [f EXCEPT !.pc = "idle", !.staging = None]
\* A trace that is not sound is reported, and stays.
CheckFetched == Goes("check", "idle")

-----------------------------------------------------------------------------
(* A publication; the hub takes an upload whole or not at all, and keeps   *)
(* the files it had that are not in it.                                    *)
StartPublish == Valid(f.local) /\ Goes("idle", "publish")
Upload ==
    /\ f.pc = "publish"
    /\ \/ f' = [f EXCEPT !.pc = "idle", !.hub = f.local,
                         !.hub.variant = IF f.local.variant = 0 THEN f.hub.variant ELSE f.local.variant,
                         !.outdated = @ \/ (f.local.variant = 0 /\ f.hub.variant # 0)]
       \/ f' = [f EXCEPT !.pc = "idle"]

Kill ==
    /\ f.pc # "idle"
    /\ f' = [f EXCEPT !.pc = "idle", !.stopped = @ \/ f.pc = "manifest",
                      !.killed = @ \/ f.pc \in {"fetch", "replace"},
                      !.cut = @ \/ (f.pc = "extract" /\ f.words > 0)]

Next ==
    \/ StartBuild \/ FindWords \/ FindArchive \/ Download \/ EndDownload \/ Extract
    \/ WriteAudio \/ WriteManifest \/ FilterVariant
    \/ StartFetch \/ Stage \/ RemoveSome \/ Move \/ CheckFetched \/ StartPublish \/ Upload \/ Kill
Spec == Init /\ [][Next]_f

-----------------------------------------------------------------------------
\* The manifest and the audio are of one build, unless one stopped; so is a
\* variant, unless audio or a publication came after it.
Agrees(copy) ==
    \/ f.stopped
    \/ /\ copy.manifest = copy.audio
       /\ copy.variant \in {0, copy.audio} \/ f.outdated

\* A trace that passes for sound, on disk or on the hub, is one build's: a fetch
\* that fails or is killed leaves the old trace, the new one, or none that
\* passes.  Only a build that stopped after it wrote audio leaves another, and
\* one that finds, or is published beside, a variant of an earlier build.
SoundTracesAreWhole ==
    /\ f.pc = "idle" /\ Valid(f.local) => Agrees(f.local)
    /\ f.hub # None => Valid(f.hub) /\ Agrees(f.hub)

\* A build has all of the annotations, unless an earlier extraction was killed;
\* a part of an archive is never taken for the archive; what a fetch staged is
\* gone when it ends, unless it was killed.
LeftoversAreKnown ==
    /\ f.used \in {0, WordFiles} \/ f.cut
    /\ f.archive => ~f.part
    /\ f.pc = "idle" /\ f.staging # None => f.killed

FilesAreWhole == SoundTracesAreWhole /\ LeftoversAreKnown
=============================================================================
