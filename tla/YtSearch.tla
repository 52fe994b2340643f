------------------------------ MODULE YtSearch ------------------------------
(***************************************************************************)
(* c/YoutubeSearch/ytsearch.c: build a search URL, fetch the page with     *)
(* libcurl, collect the links that have a title and lead to a video, a     *)
(* playlist or a channel, print and release them.  Memory may run out at   *)
(* every allocation.  libcurl, myhtml and malloc are external.             *)
(***************************************************************************)
EXTENDS Naturals, Sequences

CONSTANTS
    Anchors,        \* <a> elements a page may have: sequences of attributes
    MaxAnchors      \* bound: anchors of a page

VARIABLES
    pc,         \* where the program is
    url, curl,  \* the URL is allocated, the curl handle is open
    sent,       \* the anchors the server has sent, one a chunk
    page,       \* <<>> for NULL, or <<the chunks in the buffer>>
    parser,     \* myhtml, tree and collection have been created
    i,          \* the next anchor parse_youtube_search_result_page looks at
    results,    \* the list: numbers of anchors, 0 for an entry never set
    items,      \* anchors whose description is allocated and not freed
    listed,     \* the anchors main has printed
    faults      \* what went wrong: "memory", "overread"

vars == <<pc, url, curl, sent, page, parser, i, results, items, listed, faults>>

Init ==
    /\ pc = "create_url" /\ url = FALSE /\ curl = FALSE
    /\ sent = <<>> /\ page = <<>> /\ parser = FALSE /\ i = 1 /\ results = <<>>
    /\ items = {} /\ listed = <<>> /\ faults = {}

-----------------------------------------------------------------------------
\* main returns when it is not given a query.  create_search_request_url: when
\* one of its two allocations fails nothing is left.  The URL's buffer is one
\* byte short, and the NUL behind it may damage the heap.
CreateUrl ==
    /\ pc = "create_url"
    /\ \/ url' = TRUE /\ pc' \in {"http_get", "crash"} /\ UNCHANGED faults
       \/ pc' = "fail" /\ faults' = faults \cup {"memory"} /\ UNCHANGED url
       \/ pc' = "exit" /\ UNCHANGED <<url, faults>>
    /\ UNCHANGED <<curl, sent, page, parser, i, results, items, listed>>

\* http_get: curl_easy_init.
CurlInit ==
    /\ pc = "http_get"
    /\ \/ curl' = TRUE /\ pc' = "perform"
       \/ pc' = "fail" /\ UNCHANGED curl
    /\ UNCHANGED <<url, sent, page, parser, i, results, items, listed, faults>>

\* curl_write_function_cb: the new chunk goes behind strlen of what is there.
\* That is no string: with luck a zero follows it, otherwise strlen goes on and
\* the chunk is put behind something else, or the program dies.  A failing
\* realloc forgets what there was and is not reported.
Chunk ==
    /\ pc = "perform" /\ Len(sent) < MaxAnchors
    /\ \E a \in Anchors :
          /\ sent' = Append(sent, a)
          /\ \/ /\ page' = IF page = <<>> THEN <<<<a>>>> ELSE <<Append(page[1], a)>>
                /\ UNCHANGED <<pc, faults>>
             \/ /\ page # <<>> /\ faults' = faults \cup {"overread"}
                /\ \/ page' = <<page[1] \o <<<<>>, a>>>> /\ UNCHANGED pc
                   \/ pc' = "crash" /\ UNCHANGED page
             \/ page' = <<>> /\ faults' = faults \cup {"memory"} /\ UNCHANGED pc
    /\ UNCHANGED <<url, curl, parser, i, results, items, listed>>

\* curl_easy_perform returns and the handle is cleaned up; a failed transfer's
\* data is freed, and without data youtube_search fails.
Performed ==
    /\ pc = "perform" /\ curl' = FALSE /\ page' \in {page, <<>>}
    /\ pc' = IF page' = <<>> THEN "fail" ELSE "parser"
    /\ UNCHANGED <<url, sent, parser, i, results, items, listed, faults>>

\* parse_youtube_search_result_page creates myhtml, tree and collection, whose
\* results it uses unchecked, and nothing destroys them.  What there is of the
\* page is parsed with strlen as its length, too.
StartParser ==
    /\ pc = "parser"
    /\ \/ pc' = "parse" /\ parser' = TRUE /\ UNCHANGED <<page, faults>>
       \/ /\ pc' \in {"parse", "crash"} /\ parser' = TRUE
          /\ page' = <<Append(page[1], <<>>)>> /\ faults' = faults \cup {"overread"}
       \/ /\ pc' = "crash" /\ faults' = faults \cup {"memory"}
          /\ UNCHANGED <<page, parser>>
    /\ UNCHANGED <<url, curl, sent, i, results, items, listed>>

\* Fault: the pair is looked for only where an href comes.
BothAtHref(a) ==
    LET ks == {k \in DOMAIN a : /\ a[k].key = "href"
                                /\ \E j \in 1 .. k : a[j].key = "title"}
    IN  IF ks = {} THEN 0 ELSE CHOOSE k \in ks : \A m \in ks : k <= m

\* Where an anchor's attributes first include both href and title, with the
\* last href so far; 0 when they never do.
Both(a) ==
    LET has(k, name) == \E j \in 1 .. k : a[j].key = name
        ks == {k \in DOMAIN a : has(k, "href") /\ has(k, "title")}
    IN  IF ks = {} THEN 0 ELSE CHOOSE k \in ks : \A m \in ks : k <= m
Href(a, k) == a[CHOOSE j \in 1 .. k : /\ a[j].key = "href"
                                      /\ \A m \in j + 1 .. k : a[m].key # "href"].value

\* The attribute loop leaves the anchor with a description to make.
Wanted(a) == Both(a) # 0 /\ Href(a, Both(a)) # "unknown"

\* results[l_count++] = new_item
AddItem(k) == results' = Append(results, k)

\* One anchor.  youtube_media_description_create gives nothing for another kind
\* of address, and frees what it has when memory runs out.
Parse ==
    /\ pc = "parse" /\ i <= Len(page[1]) /\ i' = i + 1
    /\ IF ~Wanted(page[1][i]) THEN UNCHANGED <<results, items, faults>>
       ELSE \/ AddItem(i) /\ items' = items \cup {i} /\ UNCHANGED faults
            \/ faults' = faults \cup {"memory"} /\ UNCHANGED <<results, items>>
    /\ UNCHANGED <<pc, url, curl, sent, page, parser, listed>>

\* The realloc of the list fails: the list is forgotten but not its length, and
\* the items in it are lost, as are the new item's title and address.
ParseListLost ==
    /\ pc = "parse" /\ i <= Len(page[1]) /\ i' = i + 1
    /\ Wanted(page[1][i])
    /\ results' = [k \in DOMAIN results |-> 0] /\ items' = items \cup {i}
    /\ faults' = faults \cup {"memory"}
    /\ UNCHANGED <<pc, url, curl, sent, page, parser, listed>>

\* *descriptions and *count are set; the page and the URL are freed.
Parsed ==
    /\ pc = "parse" /\ i > Len(page[1])
    /\ page' = <<>> /\ url' = FALSE /\ pc' = "list"
    /\ UNCHANGED <<curl, sent, parser, i, results, items, listed, faults>>

\* youtube_search fails, and main goes on with items and count unset: what it
\* prints and frees then is anything, or nothing.
Failed ==
    /\ pc = "fail" /\ url' = FALSE /\ pc' \in {"exit", "crash"}
    /\ UNCHANGED <<curl, sent, page, parser, i, results, items, listed, faults>>

\* main prints an item, without its address when there is no memory to put one
\* together; an item that was never set is no pointer.
List ==
    /\ pc = "list" /\ Len(listed) < Len(results)
    /\ LET k == results[Len(listed) + 1]
       IN  IF k = 0 THEN pc' = "crash" /\ UNCHANGED <<listed, faults>>
           ELSE /\ listed' = Append(listed, k) /\ UNCHANGED pc
                /\ faults' \in {faults, faults \cup {"memory"}}
    /\ UNCHANGED <<url, curl, sent, page, parser, i, results, items>>

\* youtube_destroy_search_results.
Destroy ==
    /\ pc = "list" /\ Len(listed) = Len(results) /\ pc' = "exit"
    /\ items' = items \ {results[k] : k \in DOMAIN results}
    /\ UNCHANGED <<url, curl, sent, page, parser, i, results, listed, faults>>

Next == \/ CreateUrl \/ CurlInit \/ Chunk \/ Performed \/ StartParser \/ Parse
        \/ ParseListLost \/ Parsed \/ Failed \/ List \/ Destroy

Spec == Init /\ [][Next]_vars

-----------------------------------------------------------------------------
(* Properties.                                                             *)

\* What the program has opened or allocated, and neither closed nor freed.
Held == {x \in {"url", "curl", "page", "parser", "items"} :
            \/ x = "url" /\ url
            \/ x = "curl" /\ curl
            \/ x = "page" /\ page # <<>>
            \/ x = "parser" /\ parser
            \/ x = "items" /\ items # {}}

\* The program exits holding nothing but the parser's objects, which it has no
\* code to destroy, and, when memory ran out, descriptions it lost.
OnlyParserKept ==
    pc = "exit" => Held \subseteq {"parser"} \cup (IF "memory" \in faults THEN {"items"} ELSE {})

\* When nothing went wrong the program has listed the titled links to videos,
\* playlists and channels, each once, in the order of the page.
SearchComplete ==
    LET matches(a) == /\ \E j \in DOMAIN a : a[j].key = "title"
                      /\ \E j \in DOMAIN a : a[j].key = "href" /\ a[j].value # "unknown"
        found == {k \in DOMAIN sent : matches(sent[k])}
    IN  pc = "exit" /\ faults = {} /\ i > 1 =>
            /\ {listed[j] : j \in DOMAIN listed} = found
            /\ \A j, k \in DOMAIN listed : j < k => listed[j] < listed[k]
=============================================================================
