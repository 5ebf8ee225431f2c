------------------------- MODULE MCAttachmentUpload -------------------------
(* The batch goes to s1; in other runs s2 is alone, or s3 and s4 send    *)
(* good and bad requests in any order.                                     *)
EXTENDS AttachmentUpload

CONSTANTS s1, s2, s3, s4, x, y

File(ext, ctype, charset, sum) ==
    [named |-> TRUE, ext |-> ext, ctype |-> ctype, charset |-> charset,
     size |-> Len(sum), sum |-> sum]

Rune  == File("txt", "text/plain", "utf-8", <<"lead", "cont">>)
Image == File("png", "image/png", "none", <<"png">>)
Markup == File("md", "text/plain", "none", <<"markup">>)
Exe   == File("exe", "text/plain", "none", <<"text">>)

MCBatch == <<[id |-> x, file |-> Rune], [id |-> y, file |-> Image]>>

\* The client of s2 tries everything; those of s3 and s4 compete for the aggregate.
MCCasts == {{s1}, {s2}, {s3, s4}}

MCRequests ==
    [s \in {s2, s3, s4} |->
        IF s # s2 THEN {[kind |-> "begin", id |-> x, file |-> Rune], [kind |-> "cancel", id |-> x]}
        ELSE {[kind |-> "begin", id |-> x, file |-> f] : f \in {Rune, Exe}}
             \cup {[kind |-> "begin", id |-> y, file |-> f] : f \in {Markup, Rune}}
             \cup {[kind |-> "chunk", id |-> x, off |-> o, data |-> <<d>>, intact |-> TRUE] :
                      o \in 0 .. 1, d \in {"lead", "cont"}}
             \cup {[kind |-> "chunk", id |-> y, off |-> 0, data |-> <<"markup">>, intact |-> b] :
                      b \in BOOLEAN}
             \cup {[kind |-> "complete", id |-> i] : i \in Ids}
             \cup {[kind |-> k, id |-> x] : k \in {"cancel", "status"}}
             \cup {[kind |-> "discard", ids |-> ids] : ids \in {<<x, y>>, <<x, x>>}}
             \cup {[kind |-> "prepare", ids |-> <<x>>]}]

=============================================================================
