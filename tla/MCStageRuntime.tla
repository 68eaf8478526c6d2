--------------------------- MODULE MCStageRuntime ---------------------------
EXTENDS StageRuntime, TLC
CONSTANTS r1, a, b, c

\* a streams; b and c forward the payloads that are aggregated.
StreamAndPayloads ==
    a :> <<"chunk", "chunk", "done">> @@ b :> <<"payload">> @@ c :> <<"payload">>

Wired(early, x, y, z) ==
    [early |-> early, via |-> a :> x @@ b :> y @@ c :> z, entry |-> FALSE]

\* Each way of delivery for chunks and payloads, with and without early stream
\* data.
Wirings ==
    {Wired(TRUE, "relay", "ipc", "local"), Wired(FALSE, "ipc", "relay", "local"),
     Wired(FALSE, "local", "local", "ipc"),
     [Wired(FALSE, "relay", "relay", "relay") EXCEPT !.entry = TRUE]}

\* Three messages of one stream are under way together.
OneStream == a :> <<"chunk", "chunk", "chunk">> @@ b :> <<>> @@ c :> <<>>
Relayed == {Wired(TRUE, "relay", "relay", "relay")}
=============================================================================
