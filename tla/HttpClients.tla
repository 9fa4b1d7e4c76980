----------------------------- MODULE HttpClients -----------------------------
(***************************************************************************)
(* One request of the HTTP clients: client/openai_chat.py (events streamed *)
(* as text lines), client/openai_completions.py (one answer), client/tts.py *)
(* (audio bytes, or Mistral's event stream).  The response comes in chunks *)
(* of the network that need not end where a line ends.                     *)
(*                                                                         *)
(* The state is the record h:                                              *)
(*   client   "chat", "completions", "tts", "mistral"                      *)
(*   pc       "begin", "stream", "returned"                                *)
(*   script   the lines of the answer; the last one may lack its end       *)
(*   cut      it does                                                      *)
(*   wire     the halves of the lines that have not come yet               *)
(*   buffer   the half of a line that was read without its end             *)
(*   named    event_name of Mistral's stream, "" without                   *)
(*   over     "[DONE]", the end event or an error event was read           *)
(*   texts, audios    text deltas and audio chunks received                *)
(*   error    error_code is set                                            *)
(*   dispatched, sent     how often the callbacks were called              *)
(***************************************************************************)
EXTENDS Naturals, Sequences, SequencesExt

CONSTANT MaxLines

VARIABLE h

\* "other" has no choices, no delta or no content; "junk" is not JSON; a bare
\* "audio" of Mistral has no type of its own.
Line(client) ==
    CASE client = "chat" -> {"text", "audio", "other", "junk", "error", "done"}
      [] client = "completions" -> {"text", "junk"}
      [] client = "tts" -> {"audio"}
      [] client = "mistral" -> {"name delta", "name done", "name error", "audio", "junk"}

Halves(lines, cut) ==
    LET all == FlattenSeq([i \in DOMAIN lines |-> << <<lines[i], 1>>, <<lines[i], 2>> >>]) IN
    IF cut THEN Front(all) ELSE all

Init == \E client \in {"chat", "completions", "tts", "mistral"}, cut \in BOOLEAN :
        \E lines \in UNION {[1 .. n -> Line(client)] : n \in 0 .. MaxLines} :
    /\ cut => lines # <<>> /\ client \notin {"completions", "tts"}
    /\ h = [client |-> client, pc |-> "begin", script |-> lines, cut |-> cut,
            wire |-> Halves(lines, cut), buffer |-> <<>>, named |-> "", over |-> FALSE,
            texts |-> 0, audios |-> 0, error |-> FALSE, dispatched |-> 0, sent |-> 0]

IsSpeech == h.client \in {"tts", "mistral"}
Dispatch(r) == [r EXCEPT !.dispatched = @ + 1]
\* fire_sent_once(), and the sent_notified of the chat client.
FireSent(r) == IF r.sent = 0 THEN [r EXCEPT !.sent = 1] ELSE r

\* The result is built; the speech client calls back whatever happened.
Returned(r) == LET e == [r EXCEPT !.pc = "returned"] IN IF IsSpeech THEN FireSent(e) ELSE e
Failed(r) == Returned([r EXCEPT !.error = TRUE])

-----------------------------------------------------------------------------
\* The speech client without a TEXT channel returns before its callbacks.
RejectRequest ==
    /\ h.pc = "begin"
    /\ IsSpeech
    /\ h' = [h EXCEPT !.pc = "returned", !.error = TRUE]

\* No connection, a timeout, an HTTP error, or a Content-Type that is not audio.
Refused == h.pc = "begin" /\ h' = Failed(h)

\* Status 200.
Opened ==
    /\ h.pc = "begin"
    /\ h.client # "completions"
    /\ h' = Dispatch([h EXCEPT !.pc = "stream"])

\* The whole answer of the completions client: both callbacks, then the JSON.
Answered ==
    /\ h.pc = "begin"
    /\ h.client = "completions"
    /\ h.script # <<>>
    /\ LET r == FireSent(Dispatch(h)) IN
         h' = IF h.script[1] = "junk" THEN Failed(r) ELSE Returned([r EXCEPT !.texts = 1])

-----------------------------------------------------------------------------
\* The stream is over; audio that never came is an error of the speech client.
Ended(r) == Returned([r EXCEPT !.error = @ \/ (IsSpeech /\ r.audios = 0)])

\* BUG: an empty delta calls back too.
OnChatLineAny(r, line) ==
    CASE line = "done" -> [r EXCEPT !.over = TRUE]
      [] line = "error" -> [r EXCEPT !.over = TRUE, !.error = TRUE]
      [] line = "text" -> FireSent([r EXCEPT !.texts = @ + 1])
      [] line = "audio" -> [r EXCEPT !.audios = @ + 1]
      [] OTHER -> FireSent(r)

\* The chat client's event loop: only text calls back.
OnChatLine(r, line) ==
    CASE line = "done" -> [r EXCEPT !.over = TRUE]
      [] line = "error" -> [r EXCEPT !.over = TRUE, !.error = TRUE]
      [] line = "text" -> FireSent([r EXCEPT !.texts = @ + 1])
      [] line = "audio" -> [r EXCEPT !.audios = @ + 1]
      [] OTHER -> r

OnAudio(r) == FireSent([r EXCEPT !.audios = @ + 1])

\* Mistral's iter_audio_chunks(): the name of an event is kept until the next
\* line of data, and only a line of data acts on it.
OnMistralLine(r, line) ==
    LET u == [r EXCEPT !.named = ""] IN
    CASE line = "name delta" -> [r EXCEPT !.named = "delta"]
      [] line = "name done" -> [r EXCEPT !.named = "done"]
      [] line = "name error" -> [r EXCEPT !.named = "error"]
      [] line = "junk" -> [u EXCEPT !.over = TRUE, !.error = TRUE]
      [] line = "audio" /\ r.named = "done" -> [u EXCEPT !.over = TRUE]
      [] line = "audio" /\ r.named = "error" -> [u EXCEPT !.over = TRUE, !.error = TRUE]
      [] OTHER -> OnAudio(u)

OnLine(r, line) ==
    IF r.over THEN r
    ELSE CASE h.client = "chat" -> OnChatLine(r, line)
           [] h.client = "tts" -> OnAudio(r)
           [] h.client = "mistral" -> OnMistralLine(r, line)

\* The lines that are complete when the halves hs have come.
Complete(hs) == LET ends == SelectSeq(hs, LAMBDA p : p[2] = 2) IN [i \in DOMAIN ends |-> ends[i][1]]
Rest(hs) == IF hs # <<>> /\ Last(hs)[2] = 1 THEN <<Last(hs)>> ELSE <<>>

\* BUG: what was read without its end is forgotten.
ReadAfresh(n) ==
    LET hs == SubSeq(h.wire, 1, n)
        r == [h EXCEPT !.wire = SubSeq(@, n + 1, Len(@))]
    IN  FoldLeft(OnLine, r, Complete(IF Head(hs)[2] = 2 THEN Tail(hs) ELSE hs))

\* _process_stream(): the buffer, the chunk, and every complete line of both.
Read(n) ==
    LET hs == h.buffer \o SubSeq(h.wire, 1, n)
        r == [h EXCEPT !.wire = SubSeq(@, n + 1, Len(@)), !.buffer = Rest(hs)]
    IN  FoldLeft(OnLine, r, Complete(hs))

Chunk ==
    /\ h.pc = "stream"
    /\ \E n \in 1 .. Len(h.wire) :
         h' = IF Read(n).over THEN Ended(Read(n)) ELSE Read(n)

\* The connection breaks or times out in mid-stream.
Broken == h.pc = "stream" /\ h' = Failed(h)

\* The end of the body ends the last line too, for the lines of httpx in the
\* Mistral stream; the chat client's own buffer drops a line without its end.
EndOfBody ==
    /\ h.pc = "stream"
    /\ h.wire = <<>>
    /\ h' = Ended(IF h.client = "mistral" /\ h.buffer # <<>> THEN OnLine(h, h.buffer[1][1]) ELSE h)

Next == RejectRequest \/ Refused \/ Opened \/ Answered \/ Chunk \/ Broken \/ EndOfBody
Spec == Init /\ [][Next]_h /\ WF_h(Next)

-----------------------------------------------------------------------------
\* The outcome does not depend on where the network cuts the answer: whatever
\* was read so far is what the complete lines say, up to the end or the error.
Told(lines, what) ==
    LET stop == SelectInSeq(lines, LAMBDA l : l \in {"done", "error"})
        seen == IF stop = 0 THEN lines ELSE SubSeq(lines, 1, stop - 1)
    IN  Len(SelectSeq(seen, LAMBDA l : l = what))

CutsDoNotMatter ==
    h.client = "chat" /\ h.pc # "begin" =>
        LET came == Complete(SubSeq(Halves(h.script, h.cut), 1, 2 * Len(h.script) - Len(h.wire)
                                       - (IF h.cut THEN 1 ELSE 0)))
        IN  h.texts = Told(came, "text") /\ h.audios = Told(came, "audio")

\* Success was dispatched.  The speech client called back for every request it
\* did not reject; the chat client exactly when there was text.
CalledBack ==
    /\ h.dispatched <= 1 /\ h.sent <= 1
    /\ h.pc = "returned" =>
        /\ ~h.error => h.dispatched = 1
        /\ IsSpeech /\ h.dispatched = 1 => h.sent = 1
        /\ IsSpeech /\ ~h.error => h.audios > 0
        /\ h.client = "chat" => (h.sent = 1) = (h.texts > 0)

HttpReturns == <>(h.pc = "returned")
=============================================================================
