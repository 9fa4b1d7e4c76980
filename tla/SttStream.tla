------------------------------ MODULE SttStream ------------------------------
(***************************************************************************)
(* One request of client/stt.py: a sender task that streams the chunks of  *)
(* a clip and a receiver that assembles the transcript, over one           *)
(* WebSocket, under one timeout.  Both are tasks of one event loop: they   *)
(* change places at each await.  A send counts as arrived when it begins,  *)
(* so that an answer can be there before the sender goes on.               *)
(*                                                                         *)
(* Text is a piece: "" (empty, or a control token alone), "word", or       *)
(* "half1", "half2", the two halves of a control token split over two      *)
(* events.  A transcript is a sequence of pieces.  Times are counted in    *)
(* messages received; 0 is None.                                           *)
(*                                                                         *)
(* The state is the record q:                                              *)
(*   provider, chunks   the provider, the chunks of the clip               *)
(*   pc                 "begin", "recv", "lastSend", "closing", "returned" *)
(*   sender             "off", "ready", "sending", "ended", "failed", "cancelled" *)
(*   sends              messages sent: the chunks, then the finish messages*)
(*   link               "open", "clean" or "broken"                        *)
(*   inbox, emitted     events on their way, and how many there were       *)
(*   started, ended     audio_started_at and audio_end_at are set          *)
(*   now                messages received                                  *)
(*   ttfc, visible, partial, final                                         *)
(*                      the four times of STTStreamResult                  *)
(*   deltas, committed, provisional, provisionalIsDelta, finalText, count  *)
(*                      the locals of _stream of these names               *)
(*   error              an exception is on its way out                     *)
(*   dispatched, sent   how often the two callbacks were called            *)
(***************************************************************************)
EXTENDS Naturals, Sequences, SequencesExt

CONSTANTS MaxChunks, MaxEvents

VARIABLE q

Piece == {"", "word", "half1", "half2"}

-----------------------------------------------------------------------------
(* The providers: what they wait for when a session opens, how many messages *)
(* say that the audio is over, which events they send, and whether a clean   *)
(* close ends the transcript.                                                *)
VllmRealtime == [greets |-> TRUE, finish |-> 1, kinds |-> {"delta", "done", "error"}, closeIsEnd |-> FALSE]
VajraOpenAIRealtime == [greets |-> TRUE, finish |-> 1, kinds |-> {"delta", "done", "error"}, closeIsEnd |-> FALSE]
Together == [greets |-> TRUE, finish |-> 1, kinds |-> {"snapshot", "done", "error"}, closeIsEnd |-> FALSE]
DeepgramNova == [greets |-> FALSE, finish |-> 1, kinds |-> {"commit", "snapshot", "done", "error"}, closeIsEnd |-> FALSE]
DeepgramFlux == [greets |-> FALSE, finish |-> 1, kinds |-> {"commit", "snapshot", "done", "error"}, closeIsEnd |-> TRUE]
ElevenLabs == [greets |-> TRUE, finish |-> 0, kinds |-> {"snapshot", "done", "error"}, closeIsEnd |-> FALSE]
Mistral == [greets |-> TRUE, finish |-> 2, kinds |-> {"delta", "done", "error"}, closeIsEnd |-> FALSE]
Cartesia == [greets |-> FALSE, finish |-> 2, kinds |-> {"partial_delta", "final_delta", "done", "error"}, closeIsEnd |-> FALSE]

\* _STT_PROTOCOLS.
Provider == {VllmRealtime, VajraOpenAIRealtime, Together, DeepgramNova, DeepgramFlux, ElevenLabs,
             Mistral, Cartesia}

-----------------------------------------------------------------------------
\* A text is the sequence of its pieces, joined: blanks and whole control
\* tokens leave none.
Text(piece) == IF piece = "" THEN <<>> ELSE <<piece>>

\* _clean_transcript(): the control tokens that the pieces make up go.
Clean(t) ==
    FoldLeft(LAMBDA acc, p :
               IF p = "half2" /\ acc # <<>> /\ Last(acc) = "half1" THEN Front(acc)
               ELSE Append(acc, p), <<>>, t)

\* assembled_transcript(): what is committed, the deltas joined and then
\* cleaned, and a provisional text that is not a delta.
Assembled(r) ==
    r.committed
        \o Clean(r.deltas \o (IF r.provisionalIsDelta THEN r.provisional ELSE <<>>))
        \o (IF r.provisionalIsDelta THEN <<>> ELSE r.provisional)

Init == \E p \in Provider, c \in 0 .. MaxChunks :
    q = [provider |-> p, chunks |-> c, pc |-> "begin", sender |-> "off", sends |-> 0,
         link |-> "open", inbox |-> <<>>, emitted |-> 0, started |-> FALSE, ended |-> FALSE,
         now |-> 0, ttfc |-> 0, visible |-> 0, partial |-> 0, final |-> 0,
         deltas |-> <<>>, committed |-> <<>>, provisional |-> <<>>, provisionalIsDelta |-> FALSE,
         finalText |-> <<>>, count |-> 0, error |-> FALSE, dispatched |-> 0, sent |-> 0]

\* fire_sent_once() and fire_dispatched_once().
FireSent(r) == IF r.sent = 0 THEN [r EXCEPT !.sent = 1] ELSE r
FireDispatched(r) == IF r.dispatched = 0 THEN [r EXCEPT !.dispatched = 1] ELSE r
\* BUG: no fallback for the second ordering.
ReturnUnsent(r) == FireDispatched([r EXCEPT !.pc = "returned"])

\* finish_callbacks(), then the result is returned.
Return(r) == FireSent(FireDispatched([r EXCEPT !.pc = "returned"]))
Raise(r) == [r EXCEPT !.pc = "closing", !.error = TRUE]

-----------------------------------------------------------------------------
(* The request, up to the streaming.                                         *)

\* No AUDIO channel, no file, or no clip that can be decoded and sliced.
RejectRequest == q.pc = "begin" /\ q' = Return([q EXCEPT !.error = TRUE])

\* The connection and the session are opened, or not.
OpenSession ==
    /\ q.pc = "begin"
    /\ \/ q' = Return([q EXCEPT !.error = TRUE])
       \/ q' = FireDispatched([q EXCEPT !.pc = "recv", !.sender = "ready"])

-----------------------------------------------------------------------------
(* _send(): the chunks at the pace of playback, then the finish messages.    *)

AllSends == q.chunks + q.provider.finish

SendNext ==
    /\ q.sender = "ready"
    /\ q.sends < AllSends
    /\ LET r == [q EXCEPT !.started = @ \/ q.chunks > 0] IN
         q' = IF q.link # "open" THEN [r EXCEPT !.sender = "failed"]
              ELSE [r EXCEPT !.sender = "sending", !.sends = @ + 1]

SendReturns == q.sender = "sending" /\ q' = [q EXCEPT !.sender = "ready"]

SendEnds ==
    /\ q.sender = "ready"
    /\ q.sends = AllSends
    /\ q' = [q EXCEPT !.sender = "ended", !.ended = TRUE]

Send == SendNext \/ SendReturns \/ SendEnds

-----------------------------------------------------------------------------
(* The receiver.                                                             *)

\* The locals after an event that carries text.
Noted(r, e) ==
    CASE e.kind = "delta" -> [r EXCEPT !.deltas = @ \o Text(e.text)]
      [] e.kind = "snapshot" -> [r EXCEPT !.provisional = Clean(Text(e.text)), !.provisionalIsDelta = FALSE]
      [] e.kind = "partial_delta" -> [r EXCEPT !.provisional = Text(e.text), !.provisionalIsDelta = TRUE]
      [] e.kind = "final_delta" ->
            [r EXCEPT !.deltas = @ \o Text(e.text), !.provisional = <<>>, !.provisionalIsDelta = FALSE]
      [] e.kind = "commit" ->
            [r EXCEPT !.committed = @ \o Clean(Text(e.text)), !.deltas = <<>>,
                      !.provisional = <<>>, !.provisionalIsDelta = FALSE]

\* BUG: a keepalive without text counts as the first content.
FirstContentLax(r, text) == IF r.ttfc = 0 THEN FireSent([r EXCEPT !.ttfc = r.now]) ELSE r

\* The first event whose own text is not empty stops the first clock.
FirstContent(r, text) ==
    IF r.ttfc = 0 /\ Clean(Text(text)) # <<>> THEN FireSent([r EXCEPT !.ttfc = r.now]) ELSE r

\* The first moment the assembled text is not empty stops the second one, and
\* the first such moment after the end of the audio the third.
FirstVisible(r) ==
    IF r.visible = 0 /\ Assembled(r) # <<>> THEN [r EXCEPT !.visible = r.now] ELSE r
FirstPartial(r) ==
    IF r.ended /\ r.partial = 0 /\ Assembled(r) # <<>> THEN [r EXCEPT !.partial = r.now] ELSE r

OnText(r, e) ==
    IF Clean(Text(e.text)) # <<>> /\ ~r.started THEN Raise(r)
    ELSE LET n == Noted(FirstContent(r, e.text), e)
             c == IF Clean(Text(e.text)) = <<>> THEN n ELSE [n EXCEPT !.count = @ + 1]
         IN  FirstPartial(FirstVisible(c))

OnDone(r, text) ==
    LET f == IF text = "" THEN Clean(Assembled(r)) ELSE Clean(Text(text))
        d == [r EXCEPT !.pc = "closing", !.finalText = f,
                       !.final = IF r.ended THEN r.now ELSE 0]
    IN  IF f = <<>> THEN d
        ELSE IF r.ttfc = 0 /\ ~r.started THEN Raise(r)
        ELSE FireSent([d EXCEPT !.ttfc = IF @ = 0 THEN r.now ELSE @,
                                !.visible = IF @ = 0 THEN r.now ELSE @,
                                !.count = IF @ = 0 THEN 1 ELSE @])

Receive ==
    /\ q.pc = "recv"
    /\ q.inbox # <<>>
    /\ LET e == Head(q.inbox)
           r == [q EXCEPT !.inbox = Tail(@), !.now = @ + 1]
       IN  q' = CASE e.kind = "error" -> Raise(r)
                  [] e.kind = "done" -> OnDone(r, e.text)
                  [] OTHER -> OnText(r, e)

\* recv() finds the connection closed.  A clean close of Flux stands for
\* "done", once the sender has finished.
ReceiveClose ==
    /\ q.pc = "recv"
    /\ q.inbox = <<>>
    /\ q.link # "open"
    /\ q' = IF q.link = "clean" /\ q.provider.closeIsEnd THEN [q EXCEPT !.pc = "lastSend"] ELSE Raise(q)

AwaitSender ==
    /\ q.pc = "lastSend"
    /\ q.sender \in {"ended", "failed"}
    /\ q' = IF q.sender = "failed" THEN Raise(q) ELSE OnDone([q EXCEPT !.now = @ + 1], "")

\* BUG: the timeout is about the last wait only.
TimeOutLate == q.pc = "lastSend" /\ q' = Raise(q)

\* asyncio.timeout() of the request.
TimeOut == q.pc \in {"recv", "lastSend"} /\ q' = Raise(q)

\* The finally clause: the sender is cancelled unless it is done, and a send
\* that failed takes the place of whatever else happened; then the websocket
\* is closed, where the timeout may still strike.
CloseStream ==
    /\ q.pc = "closing"
    /\ \E timedOut \in BOOLEAN :
         q' = Return([q EXCEPT !.sender = IF @ \in {"ready", "sending"} THEN "cancelled" ELSE @,
                               !.error = @ \/ q.sender = "failed" \/ timedOut,
                               !.finalText = IF @ = <<>> THEN Assembled(q) ELSE @])

-----------------------------------------------------------------------------
(* The provider's side.                                                      *)
\* Only the models behind "delta" events write control tokens.
Carries(k) == CASE k = "error" -> {""}
                [] k = "delta" -> Piece
                [] OTHER -> {"", "word"}
Emit ==
    /\ q.link = "open"
    /\ q.pc # "begin"
    /\ q.emitted < MaxEvents
    /\ \E k \in q.provider.kinds : \E t \in Carries(k) :
         q' = [q EXCEPT !.inbox = Append(@, [kind |-> k, text |-> t]), !.emitted = @ + 1]
CloseLink ==
    /\ q.link = "open"
    /\ q.pc # "begin"
    /\ \E how \in {"clean", "broken"} : q' = [q EXCEPT !.link = how]

Client == RejectRequest \/ OpenSession \/ Send \/ Receive \/ ReceiveClose \/ AwaitSender
          \/ TimeOut \/ CloseStream
Next == q.pc # "returned" /\ (Client \/ Emit \/ CloseLink)
Spec == Init /\ [][Next]_q /\ WF_q(q.pc # "returned" /\ Client)

-----------------------------------------------------------------------------
\* A result is never returned before both orderings of the dispatch tracker
\* had their call, and neither was called twice; the first text never comes
\* before the dispatch.
SttCallbacks ==
    /\ q.sent <= q.dispatched
    /\ q.pc = "returned" => q.dispatched = 1 /\ q.sent = 1

\* The two notions of a first text agree on a well-formed stream, one that splits
\* no control token over two deltas; a successful answer that has text has a
\* first text, and the times of a stream come in their order.
FirstTextAgrees ==
    /\ (\A i \in DOMAIN q.deltas : q.deltas[i] = "word") => q.ttfc = q.visible
    /\ q.partial # 0 => q.ended /\ q.visible # 0 /\ q.visible <= q.partial
    /\ q.pc = "returned" /\ ~q.error => (q.finalText # <<>> => q.ttfc # 0)

SttReturns == <>(q.pc = "returned")
=============================================================================
