------------------------------ MODULE TtsStream ------------------------------
(***************************************************************************)
(* One request of client/streaming_tts.py: a task that sends the text in   *)
(* paced segments, a task that receives the audio, and a watchdog that may *)
(* hang up, in one task group under one timeout.  They change places at    *)
(* each await; a send has arrived when it begins.  When a task raises, the *)
(* group cancels the others, but only after the loop came round: a second  *)
(* one may raise before that.                                              *)
(*                                                                         *)
(* The state is the record q:                                              *)
(*   provider   one of Provider                                            *)
(*   duplex     words before the explicit trigger, 0 for after the input   *)
(*   segments   the segments of the text, each a word                      *)
(*   abort      [by, after]: the trigger of the hang-up                    *)
(*   pc         "begin", "run", "returned"                                 *)
(*   sender     "ready"; "text", "trigger", "finish" in an await; or as    *)
(*   receiver, watchdog   "live", "done", "raised", "cancelled"            *)
(*   sends      segments whose send has begun                              *)
(*   triggered  response_triggered                                         *)
(*   stamp      response_trigger_offset is set                             *)
(*   heard      the trigger has reached the provider                       *)
(*   whole      finish messages were sent, or there are none to send       *)
(*   link, inbox, emitted   as in SttStream                                *)
(*   chunks     len(audio_chunks)                                          *)
(*   ttfc       ttfc is set                                                *)
(*   ended      stream_completed is set                                    *)
(*   leaves     the exceptions raised inside the task group                *)
(*   expired    where the timeout struck: "no", "tasks", "close"           *)
(*   aborted, error         of the result                                  *)
(*   dispatched, sent       how often the callbacks were called            *)
(***************************************************************************)
EXTENDS Naturals, Sequences

CONSTANTS MaxSegments, MaxEvents

VARIABLE q

-----------------------------------------------------------------------------
(* The strategies: whether a message of its own triggers the synthesis, the *)
(* number of finish messages, and whether one event can be audio and end.   *)
OpenAIRealtime == [explicit |-> TRUE, finish |-> 0, joint |-> FALSE]
Vajra == [explicit |-> FALSE, finish |-> 1, joint |-> FALSE]
ElevenLabs == [explicit |-> FALSE, finish |-> 1, joint |-> TRUE]
Cartesia == [explicit |-> FALSE, finish |-> 1, joint |-> FALSE]
Deepgram == [explicit |-> FALSE, finish |-> 1, joint |-> FALSE]
Provider == {OpenAIRealtime, Vajra, ElevenLabs, Cartesia, Deepgram}

Event == {"audio", "last", "end", "error"}

Aborts(n) == {[by |-> "none", after |-> 0]}
                \cup [by : {"input"}, after : 1 .. (IF n = 0 THEN 1 ELSE n)]
                \cup [by : {"audio"}, after : 1 .. 2]
                \cup {[by |-> "clock", after |-> 0]}

Init == \E p \in Provider, n \in 0 .. MaxSegments :
        \E d \in IF p.explicit THEN 0 .. MaxSegments ELSE {0}, a \in Aborts(n) :
    q = [provider |-> p, duplex |-> d, segments |-> n, abort |-> a, pc |-> "begin",
         sender |-> "ready", receiver |-> "live",
         watchdog |-> IF a.by = "clock" THEN "live" ELSE "done",
         sends |-> 0, triggered |-> FALSE, stamp |-> FALSE, heard |-> FALSE, whole |-> FALSE,
         link |-> "open", inbox |-> <<>>, emitted |-> 0, chunks |-> 0, ttfc |-> FALSE,
         ended |-> FALSE, leaves |-> {}, expired |-> "no", aborted |-> FALSE, error |-> FALSE,
         dispatched |-> 0, sent |-> 0]

Raises(r, task, leaf) == [r EXCEPT ![task] = "raised", !.leaves = @ \cup {leaf}]
FireSent(r) == [r EXCEPT !.sent = 1]

-----------------------------------------------------------------------------
(* send_request() up to the task group.                                     *)

\* No TEXT channel: the early return calls nobody back.
RejectRequest == q.pc = "begin" /\ q' = [q EXCEPT !.pc = "returned", !.error = TRUE]

\* The connection is not opened in time, or at all.
ConnectFails == q.pc = "begin" /\ q' = FireSent([q EXCEPT !.pc = "returned", !.error = TRUE])

Connect == q.pc = "begin" /\ q' = [q EXCEPT !.pc = "run", !.dispatched = 1]

-----------------------------------------------------------------------------
(* send_loop().                                                             *)

Sending == q.pc = "run" /\ q.sender = "ready"

\* A send on a link that is gone raises.
Await(r, where) ==
    IF q.link = "open" THEN [r EXCEPT !.sender = where] ELSE Raises(r, "sender", "closed")

\* BUG: the trigger of an implicit provider is noted after the send.
SendTextStampLate ==
    /\ Sending
    /\ q.sends < q.segments
    /\ q' = Await([q EXCEPT !.sends = @ + 1, !.heard = @ \/ ~q.provider.explicit,
                            !.stamp = @ \/ (~q.provider.explicit /\ q.sends > 0)], "text")

\* The next segment, at its time.
SendText ==
    /\ Sending
    /\ q.sends < q.segments
    /\ q' = Await([q EXCEPT !.sends = @ + 1,
                            !.stamp = @ \/ ~q.provider.explicit,
                            !.triggered = @ \/ ~q.provider.explicit,
                            !.heard = @ \/ ~q.provider.explicit], "text")

HangUpDue == q.abort.by = "input" /\ q.sends >= q.abort.after
NextSegment(r) == IF HangUpDue THEN Raises(r, "sender", "abort") ELSE [r EXCEPT !.sender = "ready"]

\* response_trigger_message() is sent.
SendTrigger(r) == Await([r EXCEPT !.stamp = TRUE, !.heard = TRUE], "trigger")

\* The send of a segment returns; in duplex mode the trigger may follow it.
TextSent ==
    /\ q.pc = "run"
    /\ q.sender = "text"
    /\ q' = IF q.provider.explicit /\ ~q.triggered /\ q.duplex > 0 /\ q.sends >= q.duplex
            THEN SendTrigger(q) ELSE NextSegment(q)

TriggerSent ==
    /\ q.pc = "run"
    /\ q.sender = "trigger"
    /\ q' = NextSegment([q EXCEPT !.triggered = TRUE])

\* All text is sent: the trigger if it is still to come, then the finish
\* messages.
CompleteInput ==
    /\ Sending
    /\ q.sends = q.segments
    /\ q' = IF q.provider.explicit /\ ~q.triggered THEN SendTrigger(q)
            ELSE IF q.provider.finish = 0 THEN [q EXCEPT !.sender = "done", !.whole = TRUE]
            ELSE Await([q EXCEPT !.whole = q.link = "open"], "finish")

FinishSent == q.pc = "run" /\ q.sender = "finish" /\ q' = [q EXCEPT !.sender = "done"]

SendLoop == SendText \/ TextSent \/ TriggerSent \/ CompleteInput \/ FinishSent

-----------------------------------------------------------------------------
(* recv_loop() and abort_watchdog().                                        *)

Audible(r) ==
    LET heard == [r EXCEPT !.chunks = @ + 1, !.ttfc = TRUE] IN
    IF ~r.ttfc /\ ~r.stamp THEN Raises([heard EXCEPT !.ttfc = FALSE], "receiver", "early")
    ELSE IF r.abort.by = "audio" /\ heard.chunks >= r.abort.after
    THEN Raises(FireSent(heard), "receiver", "abort")
    ELSE FireSent(heard)

Ending(r) == IF r.receiver = "raised" THEN r ELSE [r EXCEPT !.receiver = "done", !.ended = TRUE]

Receive ==
    /\ q.pc = "run"
    /\ q.receiver = "live"
    /\ q.inbox # <<>>
    /\ LET r == [q EXCEPT !.inbox = Tail(@)] IN
         q' = CASE Head(q.inbox) = "error" -> Raises(r, "receiver", "server")
                [] Head(q.inbox) = "audio" -> Audible(r)
                [] Head(q.inbox) = "last" -> Ending(Audible(r))
                [] Head(q.inbox) = "end" -> Ending(r)

ReceiveClose ==
    /\ q.pc = "run"
    /\ q.receiver = "live"
    /\ q.inbox = <<>>
    /\ q.link # "open"
    /\ q' = Raises(q, "receiver", "closed")

Watch ==
    /\ q.pc = "run"
    /\ q.watchdog = "live"
    /\ q' = IF q.ended THEN [q EXCEPT !.watchdog = "done"] ELSE Raises(q, "watchdog", "abort")

-----------------------------------------------------------------------------
(* The task group, and the result.                                          *)

Over == {"done", "raised", "cancelled"}
Tasks == {"sender", "receiver", "watchdog"}
Cancel(r) == [k \in DOMAIN r |-> IF k \in Tasks /\ r[k] \notin Over THEN "cancelled" ELSE r[k]]

\* A task has raised: the group cancels the others.
CancelOthers ==
    /\ q.pc = "run"
    /\ q.leaves # {}
    /\ \E k \in Tasks : q[k] \notin Over
    /\ q' = Cancel(q)

\* asyncio.timeout() of the request, while tasks run; a task that raised before
\* takes its place.
TimeOut ==
    /\ q.pc = "run"
    /\ q.expired = "no"
    /\ \E k \in Tasks : q[k] \notin Over
    /\ q' = Cancel([q EXCEPT !.expired = "tasks", !.leaves = IF @ = {} THEN {"timeout"} ELSE @])

\* BUG: the priorities of the transport errors only.
FlattenTransport(leaves) == CHOOSE e \in leaves : e = "abort" => leaves = {"abort"}

\* flatten_ws_exception() with _ABORT_ERROR_PRIORITY: what the provider said
\* before what became of the transport, the hang-up before either.
Flatten(leaves) ==
    CHOOSE e \in leaves :
        /\ "abort" \in leaves => e = "abort"
        /\ leaves \cap {"server", "early"} # {} /\ "abort" \notin leaves => e \in {"server", "early"}

\* The group is left; connect() awaits the closing handshake of the websocket,
\* still under the timeout.
Closing == q.pc = "run" /\ \A k \in Tasks : q[k] \in Over

\* The timeout strikes in the handshake: it takes the place of what the group
\* raised, a hang-up too, and of a success.
CloseTimesOut ==
    /\ Closing
    /\ q.expired = "no"
    /\ q' = FireSent([q EXCEPT !.pc = "returned", !.expired = "close", !.error = TRUE])

Return ==
    /\ Closing
    /\ LET hungUp == q.leaves # {} /\ Flatten(q.leaves) = "abort" IN
         q' = FireSent([q EXCEPT !.pc = "returned", !.aborted = hungUp,
                                 !.error = ~hungUp /\ (q.leaves # {} \/ q.chunks = 0)])

Client ==
    \/ RejectRequest \/ ConnectFails \/ Connect
    \/ SendLoop \/ Receive \/ ReceiveClose \/ Watch
    \/ CancelOthers \/ TimeOut \/ CloseTimesOut \/ Return

-----------------------------------------------------------------------------
(* The provider: no audio before the trigger has reached it.               *)
Emit ==
    /\ q.pc = "run"
    /\ q.link = "open"
    /\ q.emitted < MaxEvents
    /\ \E e \in Event :
         /\ e \in {"audio", "last"} => q.heard
         /\ e = "last" => q.provider.joint
         /\ q' = [q EXCEPT !.inbox = Append(@, e), !.emitted = @ + 1]
CloseLink == q.pc = "run" /\ q.link = "open" /\ q' = [q EXCEPT !.link = "closed"]

Next == Client \/ Emit \/ CloseLink
Spec == Init /\ [][Next]_q /\ WF_q(Client)

-----------------------------------------------------------------------------
\* A provider that waits for the trigger is never blamed for audio "before the
\* synthesis trigger", however fast it answers: the offset is noted before
\* the send is awaited, in each of the three places where a trigger is sent.
NeverTooEarly == "early" \notin q.leaves

\* A hang-up of the client is an outcome of its own, not an error, also when
\* the server fails in the same moment, unless the timeout strikes while the
\* websocket closes.  Success without one means that the whole text went out,
\* that audio came and that the provider said it was over.  Once connected, both
\* callbacks are called.
OutcomeIsRight ==
    q.pc = "returned" =>
        /\ "abort" \in q.leaves /\ q.expired # "close" => q.aborted /\ ~q.error
        /\ q.aborted => q.abort.by # "none" /\ ~q.error
        /\ ~q.aborted /\ ~q.error => q.whole /\ q.ended /\ q.chunks > 0
        /\ q.dispatched = 1 => q.sent = 1
        /\ ~q.error => q.dispatched = 1

TtsReturns == <>(q.pc = "returned")
=============================================================================
