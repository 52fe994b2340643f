------------------------------ MODULE MCSamples ------------------------------
(* Three boots (a good one, one cut short, one after it); recordings of    *)
(* none to four periods over a file of up to six units; three anchors a    *)
(* page; answers of up to three pieces; a letter, ~, a blank, a newline    *)
(* and a byte above 127, raw bytes whose encodings have all of + / and     *)
(* letters, buffers from nothing to enough; three addresses, so that two   *)
(* continuations may overlap a third; two runs, the second of which starts *)
(* from every file the first can leave behind; three runs that share a     *)
(* database, one in the middle, one that meets its database, one after     *)
(* both, and two cars, so that a listing can be incomplete.                *)
EXTENDS Samples

Attribute(key, value) == [key |-> key, value |-> value]
PageAnchors ==
    LET title == Attribute("title", "") class == Attribute("class", "")
        href(kind) == Attribute("href", kind)
    IN  {<<class, href("watch"), title>>, <<title, class, href("channel"), class>>,
         <<href("unknown"), title>>, <<href("playlist"), class>>, <<title>>}
=============================================================================
