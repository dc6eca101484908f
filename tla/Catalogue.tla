----------------------------- MODULE Catalogue ------------------------------
(***************************************************************************)
(* The Online Library: searching configured sites page by page, and        *)
(* installing what was found by the token each result was shown with       *)
(* (src/app/catalog_service.py, src/app/routes/catalog.py).                *)
(*                                                                         *)
(* Two of the configured kinds of source are followed.  The "listing" is   *)
(* crawled folder by folder and kept whole; the "index" is one page of     *)
(* titles whose own pages say, one window at a time, whether there is      *)
(* anything to download.  What the parsers find on a page is given.  An    *)
(* hour is one step of the clock, a day is DayLength steps.                *)
(***************************************************************************)
EXTENDS Naturals, FiniteSets, SequencesExt

CONSTANTS
    MediaOf,        \* [title |-> sequence of the suffixes its page links], for each title
    Window,         \* resultValidationLimit
    MaxAnswered,    \* rows of one answer
    DayLength,
    MaxNow, MaxRequests,   \* bounds on time, and on requests and changes together
    NoSources       \* catalog-sources.json is absent

VARIABLES
    saved,          \* the listing's saved URL, or NoSources
    index,          \* the titles the index names now
    requests, now,
    pages,          \* pages in memory: expiry and body
    crawled,        \* the listing as it was crawled, and until when
    knownItems,          \* results in memory, by token
    itemFiles,      \* the same on disk
    walk,           \* the search that is being paged through
    offered,        \* results of searches, and until when they are good
    itemInstalled       \* what the last installation brought

catalogueVars == <<saved, index, requests, now, pages, crawled, knownItems, itemFiles,
                   walk, offered, itemInstalled>>
-----------------------------------------------------------------------------
(***************************************************************************)
(* Sites.                                                                  *)
(***************************************************************************)
Titles == DOMAIN MediaOf
DefaultUrl == "site"
Urls == {DefaultUrl, "mirror"}
FoldersOf(url) == IF url = DefaultUrl THEN {"f1", "f2"} ELSE {"f2"}
\* Files of a folder: title and suffix.
FilesIn(folder) ==
    IF folder = "f1" THEN {<<"oids", "st">>, <<"oids", "zip">>} ELSE {<<"vroom", "st">>}
PageKeys == {"index"} \cup Titles \cup {"f1", "f2"}

ASSUME CatalogueAssumption ==
    /\ IsFiniteSet(Titles) /\ Titles \cap {"index", "f1", "f2"} = {}
    /\ DayLength \in Nat /\ Window \in Nat
    /\ \A title \in Titles : MediaOf[title] \in Seq({"st", "zip"})

Forgotten == [key \in PageKeys |-> [expires |-> 0, body |-> <<>>]]
NotCrawled == [expires |-> 0, rows |-> {}]

Counted == requests < MaxRequests /\ requests' = requests + 1

\* sources(): what was saved, completed by the defaults.
ListingUrl == IF saved = NoSources THEN DefaultUrl ELSE saved
-----------------------------------------------------------------------------
(***************************************************************************)
(* _fetch(): from memory while it lasts, else from the site, if it is up.  *)
(***************************************************************************)
InMemory(key) == pages[key].expires > now
Reached(key, down) == InMemory(key) \/ key \notin down
Body(key, there) == IF InMemory(key) THEN pages[key].body ELSE there

\* What a page says now.
Contents(key) == IF key = "index" THEN index ELSE IF key \in Titles THEN MediaOf[key] ELSE <<>>
\* The index page is kept for an hour, the page of one title for a day.
LifeOf(key) == IF key = "index" THEN 1 ELSE DayLength

Fetched(keys, down) ==
    [key \in PageKeys |->
        IF key \in keys /\ ~InMemory(key) /\ key \notin down
        THEN [expires |-> now + LifeOf(key), body |-> Contents(key)] ELSE pages[key]]
-----------------------------------------------------------------------------
(***************************************************************************)
(* Rows and their tokens.  A row has a page, a title and the addresses it  *)
(* can be downloaded from, in the order of the page.                       *)
(***************************************************************************)
Row(page, title, suffixes) ==
    [page |-> page, title |-> title,
     choices |-> [k \in DOMAIN suffixes |-> <<page, title, suffixes[k]>>]]

\* Mistake: the token does not say which of the files of a page it stands for.
TokenOfPage(row) == <<row.page, row.title>>

\* search_page(): the hash over source, first address, page and title.
Token(row) == <<row.page, row.title, Head(row.choices)>>

\* _load_directory_listing(): a folder that cannot be read is left out, and
\* what was found is kept for a day as the whole listing.
ListingRows(down) ==
    IF crawled.expires > now THEN crawled.rows
    ELSE UNION {{Row(f, found[1], <<found[2]>>) : found \in FilesIn(f)} :
                    f \in {f \in FoldersOf(ListingUrl) : Reached(f, down)}}

\* _resolve_row(): what the title's own page offers; nothing when it cannot be
\* read or links no media.
Resolved(title, down) ==
    IF Reached(title, down) THEN Row(title, title, Body(title, MediaOf[title])) ELSE Row(title, title, <<>>)

\* _remember_item(): in memory and on disk, for an hour.
Remembered(store, rows) ==
    [t \in DOMAIN store \cup {Token(r) : r \in rows} |->
        IF \E r \in rows : Token(r) = t
        THEN [expires |-> now + 1, choices |-> (CHOOSE r \in rows : Token(r) = t).choices]
        ELSE store[t]]

\* The titles of a list that are in a set, in the order of the list.
Matching(list, set) ==
    LET hits == {k \in DOMAIN list : list[k] \in set}
    IN  [n \in 1 .. Cardinality(hits) |->
            list[CHOOSE k \in hits : Cardinality({j \in hits : j < k}) = n - 1]]
-----------------------------------------------------------------------------
(***************************************************************************)
(* search_page()                                                           *)
(***************************************************************************)
Idle == [query |-> {}, next |-> 0, seen |-> <<>>, over |-> <<>>, missed |-> {}, sound |-> TRUE, open |-> FALSE]

\* Mistake: the next page starts behind as many titles as had something to offer.
WindowEndAfterFound(start, candidates, found) == start + Cardinality(found)

\* Where the next page starts: behind the titles that were looked at.
WindowEnd(start, candidates, found) ==
    IF start + Window < Len(candidates) THEN start + Window ELSE Len(candidates)

\* One page.  The first page asks both sources, a later one those that said
\* there is more.  Every row gets its token; an answer holds MaxAnswered rows.
SearchPage(query, start, listingToo, down) ==
    LET body == Body("index", index)
        candidates == Matching(body, query)
        looked == SubSeq(candidates, start + 1,
                         IF start + Window < Len(candidates) THEN start + Window ELSE Len(candidates))
        indexUp == Reached("index", down)
        found == {t \in Titles : indexUp /\ t \in Range(looked) /\ Resolved(t, down).choices # <<>>}
        listed == IF listingToo THEN {r \in ListingRows(down) : r.title \in query} ELSE {}
        rows == {Resolved(t, down) : t \in found} \cup listed
        end == WindowEnd(start, candidates, found)
        before == IF listingToo THEN Idle ELSE walk
        fetched == (IF indexUp THEN Range(looked) \cup {"index"} ELSE {})
                     \cup (IF listingToo /\ crawled.expires <= now THEN FoldersOf(ListingUrl) ELSE {})
    IN  /\ Counted
        /\ \E answered \in SUBSET rows :
            /\ Cardinality(answered) = (IF Cardinality(rows) < MaxAnswered THEN Cardinality(rows) ELSE MaxAnswered)
            /\ knownItems' = Remembered(knownItems, rows)
            /\ itemFiles' = Remembered(itemFiles, rows)
            /\ offered' = offered \cup {[token |-> Token(r), page |-> r.page, choices |-> r.choices, until |-> now + 1] : r \in rows}
            /\ crawled' = IF listingToo /\ crawled.expires <= now
                          THEN [expires |-> now + DayLength, rows |-> ListingRows(down)] ELSE crawled
            /\ pages' = Fetched(fetched, down)
            /\ walk' = [query |-> query, next |-> end,
                        seen |-> before.seen \o Matching(looked, {t \in found : Resolved(t, down) \in answered}),
                        missed |-> before.missed \cup {t \in Range(looked) : ~Reached(t, down)},
                        over |-> body,
                        sound |-> before.sound /\ indexUp /\ (listingToo \/ body = walk.over) /\ answered = rows,
                        open |-> indexUp /\ end < Len(candidates)]
            /\ UNCHANGED <<saved, index, now, itemInstalled>>

Downs == {{}} \cup {{key} : key \in {"index", "f1"} \cup Titles}
Search == \E query \in {Titles \cup {"oids", "vroom"}, {"oids"}}, down \in Downs : SearchPage(query, 0, TRUE, down)
FindMore == walk.open /\ \E down \in Downs : SearchPage(walk.query, walk.next, FALSE, down)
-----------------------------------------------------------------------------
(***************************************************************************)
(* item(), download() and the install route.                               *)
(***************************************************************************)
Live(store) == {t \in DOMAIN store : store[t].expires >= now}
Preferred(choices) ==
    IF \E a \in Range(choices) : a[3] = "st" THEN CHOOSE a \in Range(choices) : a[3] = "st" ELSE Head(choices)

\* Mistake: what is on disk is taken whatever its age.
KnownAtAnyAge(token) == token \in Live(knownItems) \/ token \in DOMAIN itemFiles

\* From memory while it lasts, else from disk; out of date is as good as gone.
Known(token) == token \in Live(knownItems) \/ token \in Live(itemFiles)
ItemAt(token) == IF token \in Live(knownItems) THEN knownItems[token] ELSE itemFiles[token]

\* The route takes the chosen results one by one and notes what went wrong with
\* each.  To report a result it asks for it again, so one that is out of date
\* ends the request, and the middleware puts back what the others had written;
\* so does a batch in which nothing could be had.
Install(batch, failing) ==
    LET got == {t \in batch \ failing : Known(t)} IN
    /\ Counted
    /\ itemInstalled' = IF \A t \in batch : Known(t)
                    THEN {[token |-> t, address |-> Preferred(ItemAt(t).choices)] : t \in got} ELSE {}
    /\ knownItems' = [t \in DOMAIN knownItems \cup got |-> IF t \in got THEN ItemAt(t) ELSE knownItems[t]]
    /\ itemFiles' = [t \in DOMAIN itemFiles \ {u \in batch : ~Known(u)} |-> itemFiles[t]]
    /\ UNCHANGED <<saved, index, now, pages, crawled, walk, offered>>

InstallSome ==
    \E t, u \in {o.token : o \in offered} : \E failing \in {{}, {t}} : Install({t, u}, failing)
-----------------------------------------------------------------------------
\* save_sources() forgets the pages, and not what was crawled.
SaveSources(url) ==
    /\ Counted
    /\ saved' = url
    /\ pages' = Forgotten
    /\ UNCHANGED <<index, now, crawled, knownItems, itemFiles, walk, offered, itemInstalled>>

\* The site takes its first title off the page.
IndexChanges ==
    /\ Counted
    /\ index # <<>> /\ index' = Tail(index)
    /\ UNCHANGED <<saved, now, pages, crawled, knownItems, itemFiles, walk, offered, itemInstalled>>

TimePasses ==
    /\ now < MaxNow /\ now' = now + 1
    /\ UNCHANGED <<saved, index, requests, pages, crawled, knownItems, itemFiles, walk, offered, itemInstalled>>

RestartCatalogue ==
    /\ Counted
    /\ pages' = Forgotten /\ crawled' = NotCrawled
    /\ knownItems' = [t \in {} |-> 0]
    /\ UNCHANGED <<saved, index, now, itemFiles, walk, offered, itemInstalled>>

CatalogueInit ==
    /\ saved = NoSources
    /\ index = SetToSeq(Titles) /\ requests = 0 /\ now = 1
    /\ pages = Forgotten /\ crawled = NotCrawled
    /\ knownItems = [t \in {} |-> 0] /\ itemFiles = [t \in {} |-> 0]
    /\ walk = Idle /\ offered = {} /\ itemInstalled = {}
CatalogueNext ==
    \/ Search \/ FindMore \/ InstallSome
    \/ \E url \in Urls : SaveSources(url)
    \/ IndexChanges \/ TimePasses \/ RestartCatalogue
CatalogueSpec == CatalogueInit /\ [][CatalogueNext]_catalogueVars
-----------------------------------------------------------------------------
CatalogueTypeOK ==
    /\ saved \in Urls \cup {NoSources}
    /\ \A key \in PageKeys : pages[key].expires \in 0..(MaxNow + DayLength)
    /\ \A t \in Live(knownItems) : t \in DOMAIN itemFiles /\ knownItems[t] = itemFiles[t]
    /\ \A i \in itemInstalled : i.address[3] \in {"st", "zip"}

\* "Selected result tokens expire after an hour" (README.md:623-624), and until
\* then, over a restart too, a token installs one of the files its row was shown
\* with: nothing is installed that was not offered under that token within the
\* hour, or that belongs to another row.
InstalledWasOffered ==
    [][\A i \in itemInstalled' \ itemInstalled :
         LET shown == {o \in offered : o.token = i.token /\ o.until >= now}
         IN  shown # {} /\ \A o \in shown : i.address \in Range(o.choices)]_catalogueVars

\* "Choose Find more downloadable results [...]; repeat until the status says
\* that all matching catalogue entries have been checked" (README.md:506-509):
\* when there is no more, every title of the index whose page could be read and
\* links media was offered, and offered once, as long as the index stayed as it
\* was and no answer was cut short.
PagesCoverTheIndex ==
    walk.sound /\ ~walk.open /\ walk # Idle =>
        /\ IsInjective(walk.seen)
        /\ Range(walk.seen) = {t \in Range(walk.over) : t \in walk.query /\ MediaOf[t] # <<>> /\ t \notin walk.missed}
=============================================================================
