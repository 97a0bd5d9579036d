-------------------------- MODULE ResponseCompression --------------------------
(* One response of the API behind the compression middleware                 *)
(* (apps/api/src/compression.middleware.ts): the handler writes its body in  *)
(* chunks, the middleware holds them back to compress the whole, gives up on *)
(* a body that outgrows its buffer, and compresses while the event loop goes *)
(* on. A chunk is its number, and all have the same size.                    *)
EXTENDS Integers, Sequences, SequencesExt

CONSTANTS MinBytes,    \* COMPRESSION_MIN_BYTES, in chunks
          MaxBuffer,   \* COMPRESSION_MAX_BUFFER_BYTES, in chunks
          MaxChunks    \* bound: chunks of a body

ASSUME CompressionAssumption == MinBytes \in Nat /\ MaxBuffer \in Nat /\ MaxChunks \in Nat

Absent == -1
Codings == {"br", "gzip"}
Identity == "identity"

VARIABLES accepts,      \* Accept-Encoding: the weight of each name in tenths, or Absent
          exempt,       \* disabled, an excluded path, HEAD, or an upgrade
          hooked,       \* res.write and res.end are the middleware's
          produced,     \* chunks the handler has produced
          held,         \* chunks
          headersSent,
          transformable,\* the handler's headers and status allow compression
          coding,       \* Content-Encoding
          payload,      \* what was sent: each piece with the coding of its bytes
          phase

compressionVars == <<accepts, exempt, hooked, produced, held, headersSent, transformable,
                     coding, payload, phase>>

CompressionInit ==
    /\ accepts \in [Codings \cup {"*"} -> {Absent, 0, 5, 10}]
    /\ exempt \in BOOLEAN
    /\ hooked = FALSE
    /\ produced = 0
    /\ held = <<>>
    /\ headersSent = FALSE
    /\ transformable \in BOOLEAN
    /\ coding = Identity
    /\ payload = <<>>
    /\ phase = "arrived"

\* weightOf of negotiateEncoding: a name that is absent has the weight of '*'.
WeightOf(name) ==
    IF accepts[name] # Absent THEN accepts[name]
    ELSE IF accepts["*"] # Absent THEN accepts["*"] ELSE 0

\* The same with gzip winning ties.
NegotiateGzip ==
    IF WeightOf("br") <= 0 /\ WeightOf("gzip") <= 0 THEN Identity
    ELSE IF WeightOf("br") > WeightOf("gzip") THEN "br" ELSE "gzip"

\* negotiateEncoding.
NegotiateEncoding ==
    IF WeightOf("br") <= 0 /\ WeightOf("gzip") <= 0 THEN Identity
    ELSE IF WeightOf("br") >= WeightOf("gzip") THEN "br" ELSE "gzip"

Plain(chunks) == [as |-> Identity, chunks |-> chunks]

-----------------------------------------------------------------------------

\* use.
Use ==
    /\ phase = "arrived"
    /\ phase' = "handling"
    /\ hooked' = (~exempt /\ NegotiateEncoding # Identity)
    /\ UNCHANGED <<accepts, exempt, produced, held, headersSent, transformable, coding, payload>>

\* The handler sends its headers ahead of the body.
SendHeaders ==
    /\ phase = "handling"
    /\ headersSent' = TRUE
    /\ UNCHANGED <<accepts, exempt, hooked, produced, held, transformable, coding, payload, phase>>

Produce ==
    /\ phase = "handling"
    /\ produced < MaxChunks
    /\ produced' = produced + 1

\* res.write as it was.
WriteThrough ==
    /\ ~hooked
    /\ Produce
    /\ payload' = Append(payload, Plain(<<produced'>>))
    /\ headersSent' = TRUE
    /\ UNCHANGED <<accepts, exempt, hooked, held, transformable, coding, phase>>

\* The middleware's res.write below the cap.
HoldChunk ==
    /\ hooked
    /\ Produce
    /\ Len(held) + 1 <= MaxBuffer
    /\ held' = Append(held, produced')
    /\ UNCHANGED <<accepts, exempt, hooked, headersSent, transformable, coding, payload, phase>>

\* What switchToPassthrough sends: all that was held, the new chunk last; and a
\* switch that sends the new chunk alone.
FlushedLast(chunks) == <<Plain(<<Last(chunks)>>)>>
Flushed(chunks) == <<Plain(chunks)>>

\* The middleware's res.write at the cap.
SwitchToPassthrough ==
    /\ hooked
    /\ Produce
    /\ Len(held) + 1 > MaxBuffer
    /\ hooked' = FALSE
    /\ payload' = payload \o Flushed(Append(held, produced'))
    /\ held' = <<>>
    /\ headersSent' = TRUE
    /\ UNCHANGED <<accepts, exempt, transformable, coding, phase>>

\* skipReason.
Skipped(body) == \/ body = <<>> \/ headersSent \/ ~transformable \/ Len(body) < MinBytes

\* res.end, the body's last chunk with it or not.
LastChunk == IF produced < MaxChunks THEN {<<>>, <<produced + 1>>} ELSE {<<>>}

EndThrough ==
    /\ phase = "handling" /\ ~hooked
    /\ \E more \in LastChunk :
          /\ produced' = produced + Len(more)
          /\ payload' = IF more = <<>> THEN payload ELSE Append(payload, Plain(more))
    /\ headersSent' = TRUE
    /\ phase' = "sent"
    /\ UNCHANGED <<accepts, exempt, hooked, held, transformable, coding>>

\* The middleware's res.end: the hooks are gone when compression begins.
EndHeld ==
    /\ phase = "handling" /\ hooked
    /\ hooked' = FALSE
    /\ \E more \in LastChunk :
          LET body == held \o more
          IN /\ produced' = produced + Len(more)
             /\ IF Skipped(body)
                THEN /\ payload' = payload \o <<Plain(body)>>
                     /\ headersSent' = TRUE
                     /\ phase' = "sent"
                     /\ held' = <<>>
                ELSE /\ phase' = "compressing"
                     /\ held' = body
                     /\ UNCHANGED <<payload, headersSent>>
    /\ UNCHANGED <<accepts, exempt, transformable, coding>>

\* The callback of compress.
Compressed ==
    /\ phase = "compressing"
    /\ coding' = IF headersSent THEN coding ELSE NegotiateEncoding
    /\ payload' = Append(payload, [as |-> NegotiateEncoding, chunks |-> held])
    /\ held' = <<>>
    /\ headersSent' = TRUE
    /\ phase' = "sent"
    /\ UNCHANGED <<accepts, exempt, hooked, produced, transformable>>

CompressionFails ==
    /\ phase = "compressing"
    /\ payload' = Append(payload, Plain(held))
    /\ held' = <<>>
    /\ headersSent' = TRUE
    /\ phase' = "sent"
    /\ UNCHANGED <<accepts, exempt, hooked, produced, transformable, coding>>

CompressionNext ==
    \/ Use \/ SendHeaders \/ WriteThrough \/ HoldChunk \/ SwitchToPassthrough
    \/ EndThrough \/ EndHeld \/ Compressed \/ CompressionFails

-----------------------------------------------------------------------------
\* What the client has got, decoded piece by piece.
Received == FlattenSeq([i \in DOMAIN payload |-> payload[i].chunks])

CompressionTypeOK ==
    /\ accepts \in [Codings \cup {"*"} -> {Absent} \cup (0..10)]
    /\ exempt \in BOOLEAN /\ hooked \in BOOLEAN /\ headersSent \in BOOLEAN
    /\ transformable \in BOOLEAN
    /\ produced \in 0..MaxChunks
    /\ held \in Seq(1..MaxChunks)
    /\ coding \in Codings \cup {Identity}
    /\ phase \in {"arrived", "handling", "compressing", "sent"}

\* Whatever path a body takes - whole, streamed past the cap, skipped at the
\* end, compressed or given up by zlib - the client gets every chunk once and
\* in order, in bytes of the coding its headers name; that coding has a
\* positive weight in Accept-Encoding and no other has a greater one, br
\* winning ties; and the middleware never holds more than its cap of what was
\* written (compression.middleware.ts:252-320).
ResponseWhole ==
    /\ Received \o held = [i \in 1..produced |-> i]
    /\ \A i \in DOMAIN payload : payload[i].as = coding /\ (payload[i].as # Identity => phase = "sent")
    /\ coding # Identity => /\ accepts[coding] > 0 \/ (accepts[coding] = Absent /\ accepts["*"] > 0)
                            /\ \A c \in Codings : WeightOf(c) <= WeightOf(coding)
                            /\ coding = "gzip" => WeightOf("br") < WeightOf("gzip")
                            /\ ~exempt /\ transformable /\ produced >= MinBytes
    /\ phase = "handling" => Len(held) <= MaxBuffer
    /\ phase = "sent" => held = <<>>
=============================================================================
