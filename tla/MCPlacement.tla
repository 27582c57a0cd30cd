---------------------------- MODULE MCPlacement ----------------------------
(* Small instances of Placement.                                          *)
EXTENDS Placement

\* The sources that differ in what is known of their length and in who pulls,
\* each with the trouble that is hardest for it.
Disk == [kind |-> "disk", sized |-> TRUE, ends |-> TRUE, trouble |-> "seek"]
Still == [Disk EXCEPT !.kind = "still", !.trouble = "die"]
Gif == [Still EXCEPT !.kind = "gif"]
Embed == [Disk EXCEPT !.kind = "embed", !.sized = FALSE, !.trouble = "fail"]
Track == [Disk EXCEPT !.kind = "url", !.trouble = "none"]
Chunked(trouble) == [Track EXCEPT !.sized = FALSE, !.trouble = trouble]
Radio == [Chunked("leave") EXCEPT !.ends = FALSE]

Everything ==
    {Disk, Still, Gif, Embed, Track, Radio} \cup {Chunked(t) : t \in {"fail", "die", "end"}}
StillPicture == {[Still EXCEPT !.trouble = "none"]}
=============================================================================
