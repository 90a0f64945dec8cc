-------------------------------- MODULE MCTools --------------------------------
(* Short trackers, images, drawings and sources.                            *)
EXTENDS Tools

CONSTANTS a, b, odd

MCLines == {<<"CORE_RD_REQ", a>>, <<"CORE_RD_REQ", b>>, <<"CACHE_RD_RSP", a>>, <<"FILL", a>>}
MCTrackers == UNION {[1..n -> MCLines] : n \in 0..3}

MCGlyphs == [c \in {"A", "B"} |-> IF c = "A" THEN <<a, b>> ELSE <<b, a>>]

(* Sections of up to four lines of up to one line of the .mif file, two     *)
(* sections a gap apart, and lines that objcopy does not write.             *)
Body == {<<"bytes", s>> : s \in {<<1>>, <<1, 2>>, <<3, 4, 5>>, <<3, 4, 5, 6>>, <<7, 8, 1, 2, 3, 4>>}}
Sections == UNION {[1..n -> Body] : n \in 1..3}
Short == UNION {[1..n -> Body] : n \in 1..2}
At(x) == <<<<"@", x>>>>
MCMifFiles == {At(8) \o s : s \in Sections} \cup {At(8) \o s \o At(x) \o t : s \in Sections, t \in Short, x \in {28, 32}}

MCDrawings == UNION {[1..n -> {<<r, c, g[1], g[2]>> : r \in 0..2, c \in {0, 3}, g \in {<<a, b>>, <<b, a>>, <<a, odd>>}}] : n \in 0..3}

Declared == [kind : {"declared", "header", "behind", "typed"}, name : {"P", "Q"}, value : {"1", "2"}]
Prose == [kind |-> "other", name |-> "", value |-> ""]
MCTrees == {("tb" :> <<l, m>> @@ "pkg" :> <<n, Prose>>) : l \in Declared, m \in Declared, n \in Declared}
MCOverrides == {("P" :> "3"), ("P" :> "3" @@ "Q" :> "1")}
===============================================================================
