------------------------------- MODULE Viewer -------------------------------
(***************************************************************************)
(* The list of clips and its readers.  The indexer inserts clips, the          *)
(* correlator relabels them, and meanwhile the page fetches the list for the    *)
(* filter chosen in it, shows the answer, and opens clips from it; another       *)
(* client of the API pages through a list by limit and offset.                   *)
(*                                                                         *)
(* A query is one step.  A fetch of the page is three: the request, the           *)
(* query, the answer's arrival; fetches overlap, and arrive in any order.  Readers     *)
(* change nothing another reader sees: a behaviour has the page or the client.      *)
(***************************************************************************)
EXTENDS Naturals, Sequences, FiniteSets, SequencesExt

CONSTANTS
  Clips,           \* clip files, by path
  StartOf,         \* [Clips -> Nat]
  CameraOf,        \* [Clips -> camera keys]
  DayOf,           \* [Clips -> Nat], the days in their order
  Types,           \* types of detections
  DefaultLimit,    \* 200
  MaxLimit,        \* 500
  PageLimits,      \* limits the paging client may ask for
  MaxFetches,      \* bound on the page's fetches
  MaxIndex,        \* bound on the player's index, which has none in a list that is an error
  All,             \* no filter
  Failure,         \* {"error": "internal error"}
  NoRow, Nothing

ASSUME ViewerAssumption ==
  /\ IsFiniteSet(Clips) /\ StartOf \in [Clips -> Nat] /\ DayOf \in [Clips -> Nat]
  /\ DefaultLimit \in Nat \ {0} /\ MaxLimit \in Nat \ {0} /\ MaxFetches \in Nat
  /\ MaxIndex \in Nat /\ MaxIndex >= DefaultLimit
  /\ NoRow \notin [id : Nat, types : SUBSET Types] /\ Nothing \notin [id : Nat, clip : Clips]
  /\ Failure \notin Seq([id : Nat, clip : Clips])

VARIABLES
  rows,       \* table clips: [Clips -> [id, types] or NoRow]
  lastId,     \* the largest id given
  menu,       \* the camera and the day menu, and how far loading each has come
  filter,     \* state.camera, state.day, state.type
  fetches,    \* how often fetchClips has been called
  asked,      \* requests on their way to the server: [n, filter]
  answers,    \* answers on their way back: [n, filter, clips]
  list,       \* state.clips: a list, or the error a fetch was answered with
  shown,      \* the answer it came from: [n, filter]
  modal,      \* state.modalIndex; 0: closed
  playing,    \* the clip the player was given, or Nothing
  pager       \* the paging client: [limit, filter, offset, seen, present, done], or Nothing

tableVars == << rows, lastId >>
fetchVars == << fetches, asked, answers >>
shownVars == << list, shown >>
modalVars == << modal, playing >>
pageVars  == << menu, filter, fetchVars, shownVars, modalVars >>
vars == << tableVars, pageVars, pager >>

Indexed == {c \in Clips : rows[c] # NoRow}
NoFilter == [camera |-> All, day |-> All, type |-> All]

\* The clips of an answer or of the page's list; an error has none.
Cards(answer) == IF answer = Failure THEN << >> ELSE answer

Init ==
  /\ rows = [c \in Clips |-> NoRow] /\ lastId = 0
  /\ menu = [k \in {"cameras", "days"} |-> [at |-> "asked", options |-> {}]]
  /\ filter = NoFilter
  /\ fetches = 0 /\ asked = {} /\ answers = {}
  /\ list = << >> /\ shown = [n |-> 0, filter |-> NoFilter]
  /\ modal = 0 /\ playing = Nothing
  /\ pager = Nothing

-----------------------------------------------------------------------------
(* The database. *)

\* INSERT OR REPLACE: the row gets a new id each time.
ReplacingUpsertClip(c) ==
  /\ rows' = [rows EXCEPT ![c] = [id |-> lastId + 1, types |-> {}]]
  /\ lastId' = lastId + 1
  /\ UNCHANGED << pageVars, pager >>

\* A clip that has a row keeps it, id, names, times and labels included.
UpsertClip(c) ==
  /\ IF rows[c] = NoRow
     THEN /\ rows' = [rows EXCEPT ![c] = [id |-> lastId + 1, types |-> {}]]
          /\ lastId' = lastId + 1
     ELSE UNCHANGED tableVars
  /\ UNCHANGED << pageVars, pager >>

Relabel(c, T) ==
  /\ rows[c] # NoRow
  /\ rows' = [rows EXCEPT ![c].types = T]
  /\ UNCHANGED << lastId, pageVars, pager >>

Matches(c, f) ==
  /\ f.day \in {All, DayOf[c]} /\ f.camera \in {All, CameraOf[c]}
  /\ f.type = All \/ f.type \in rows[c].types

Newer(c, d) == StartOf[c] > StartOf[d]

\* The listings of S that the database may return: the order of clips with the
\* same start is its choice, and may differ from one query to the next.
NewestFirst(S) == {s \in SetToSeqs(S) : \A i, j \in DOMAIN s : i < j => ~Newer(s[j], s[i])}

\* LIMIT and OFFSET.
Window(s, limit, offset) ==
  SubSeq(s, offset + 1, IF offset + limit < Len(s) THEN offset + limit ELSE Len(s))

Matching(f) == {c \in Indexed : Matches(c, f)}

\* The offset counts pages.
ListPages(f, limit, offset) == {Window(s, limit, limit * offset) : s \in NewestFirst(Matching(f))}

ListClips(f, limit, offset) == {Window(s, limit, offset) : s \in NewestFirst(Matching(f))}

ClipByID(id) == {c \in Indexed : rows[c].id = id}

-----------------------------------------------------------------------------
(* handleListClips, and what the page gets from it. *)

EffectiveLimit(limit) == IF limit \in 1..MaxLimit THEN limit ELSE DefaultLimit

toClipJSON(c) == [id |-> rows[c].id, clip |-> c]

Answer(r, clips) == answers' = answers \cup {[n |-> r.n, filter |-> r.filter, clips |-> clips]}

\* The page sends neither limit nor offset; the answer is what the table holds
\* now, or the error when the query fails.
Query(r) ==
  /\ r \in asked
  /\ asked' = asked \ {r}
  /\ \/ \E found \in ListClips(r.filter, DefaultLimit, 0) :
          Answer(r, [i \in DOMAIN found |-> toClipJSON(found[i])])
     \/ Answer(r, Failure)
  /\ UNCHANGED << tableVars, menu, filter, fetches, shownVars, modalVars, pager >>

\* handleCameras, handleDays.
QueryMenu(k) ==
  /\ menu[k].at = "asked"
  /\ menu' = [menu EXCEPT ![k] =
       [at |-> "answered",
        options |-> IF k = "days" THEN {DayOf[c] : c \in Indexed} ELSE {CameraOf[c] : c \in Indexed}]]
  /\ UNCHANGED << tableVars, filter, fetchVars, shownVars, modalVars, pager >>

-----------------------------------------------------------------------------
(* The page. *)

fetchClips(f) ==
  /\ fetches < MaxFetches
  /\ fetches' = fetches + 1
  /\ asked' = asked \cup {[n |-> fetches + 1, filter |-> f]}
  /\ UNCHANGED answers

Newest(D) == IF D = {} THEN All ELSE CHOOSE d \in D : \A e \in D : e <= d

Options(k) == IF menu[k].at = "loaded" THEN menu[k].options ELSE {}
Loaded(k)  == menu[k].at = "loaded"

\* loadCameras and loadDays run side by side; loadDays chooses the newest day, if
\* there is one, and with both menus there init fetches its list.
MenuArrives(k) ==
  /\ menu[k].at = "answered"
  /\ menu' = [menu EXCEPT ![k].at = "loaded"]
  /\ filter' = IF k = "days" /\ menu[k].options # {}
               THEN [filter EXCEPT !.day = Newest(menu[k].options)]
               ELSE filter
  /\ IF \A m \in DOMAIN menu : m = k \/ Loaded(m) THEN fetchClips(filter') ELSE UNCHANGED fetchVars
  /\ UNCHANGED << tableVars, shownVars, modalVars, pager >>

\* No answer, or an error in place of the options: the other menu still loads,
\* and init's fetch is not made.
MenuFails(k) ==
  /\ menu[k].at = "asked"
  /\ menu' = [menu EXCEPT ![k].at = "failed"]
  /\ UNCHANGED << tableVars, filter, fetchVars, shownVars, modalVars, pager >>

\* A filter change that is not followed by a fetch.
SilentChoose(f) ==
  /\ \/ f \in [camera : Options("cameras") \cup {All}, day : {filter.day}, type : {filter.type}]
     \/ f \in [camera : {filter.camera}, day : Options("days"), type : {filter.type}]
     \/ f \in [camera : {filter.camera}, day : {filter.day}, type : Types \cup {All}]
  /\ modal = 0
  /\ filter' = f
  /\ UNCHANGED << tableVars, menu, fetchVars, shownVars, modalVars, pager >>

\* A menu or a chip; the chips can be used before the menus are there.  The
\* player's backdrop covers them all.
Choose(f) ==
  /\ \/ f \in [camera : Options("cameras") \cup {All}, day : {filter.day}, type : {filter.type}]
     \/ f \in [camera : {filter.camera}, day : Options("days"), type : {filter.type}]
     \/ f \in [camera : {filter.camera}, day : {filter.day}, type : Types \cup {All}]
  /\ modal = 0
  /\ filter' = f
  /\ fetchClips(f)
  /\ UNCHANGED << tableVars, menu, shownVars, modalVars, pager >>

\* The answer replaces the list, whichever request it answers, and whether or
\* not the player is open.
Arrive(a) ==
  /\ a \in answers
  /\ answers' = answers \ {a}
  /\ list' = a.clips /\ shown' = [n |-> a.n, filter |-> a.filter]
  /\ UNCHANGED << tableVars, menu, filter, fetches, asked, modalVars, pager >>

\* No answer comes, or one that is no JSON, or a 401, with which the page is left:
\* api or json throws, and nothing catches it.
Lose(r) ==
  /\ r \in asked
  /\ asked' = asked \ {r}
  /\ UNCHANGED << tableVars, menu, filter, fetches, answers, shownVars, modalVars, pager >>

\* Without a clip at the index only the index moves.
openModal(i) ==
  /\ modal' = i
  /\ playing' = IF i \in DOMAIN Cards(list) THEN list[i] ELSE playing
  /\ UNCHANGED << tableVars, menu, filter, fetchVars, shownVars, pager >>

\* The grid has the list's cards, and none when the list is an error.
Click(i) == modal = 0 /\ i \in DOMAIN Cards(list) /\ openModal(i)

\* From the index that was opened, in the list there is now; an error has no
\* length, and stops no index.
Navigate(i) ==
  /\ modal # 0 /\ i \in {modal - 1, modal + 1} \cap 1..MaxIndex
  /\ list = Failure \/ i \in DOMAIN Cards(list)
  /\ openModal(i)

\* The index stays.
HalfCloseModal ==
  /\ modal # 0 /\ playing # Nothing
  /\ playing' = Nothing
  /\ UNCHANGED << tableVars, menu, filter, fetchVars, shownVars, modal, pager >>

closeModal ==
  /\ modal # 0
  /\ modal' = 0 /\ playing' = Nothing
  /\ UNCHANGED << tableVars, menu, filter, fetchVars, shownVars, pager >>

-----------------------------------------------------------------------------
(* A client that pages, by as many clips as it got, until it gets none. *)

BeginPaging(limit, f) ==
  /\ pager = Nothing /\ fetches = 0
  /\ pager' = [limit |-> limit, filter |-> f, offset |-> 0, seen |-> {}, done |-> FALSE,
               present |-> Matching(f)]
  /\ UNCHANGED << tableVars, pageVars >>

NextPage ==
  /\ pager # Nothing /\ ~pager.done
  /\ \E page \in ListClips(pager.filter, EffectiveLimit(pager.limit), pager.offset) :
       pager' = [pager EXCEPT !.offset = @ + Len(page), !.seen = @ \cup ToSet(page),
                              !.done = (page = << >>)]
  /\ UNCHANGED << tableVars, pageVars >>

PagerFilters == [camera : {All} \cup {CameraOf[c] : c \in Clips},
                 day : {All} \cup {DayOf[c] : c \in Clips}, type : {All}]

-----------------------------------------------------------------------------
Filters == [camera : {All} \cup {CameraOf[c] : c \in Clips},
            day : {All} \cup {DayOf[c] : c \in Clips}, type : {All} \cup Types]

Store == \E c \in Clips : UpsertClip(c) \/ \E T \in SUBSET Types : Relabel(c, T)

Browse ==
  /\ pager = Nothing
  /\ \/ \E k \in DOMAIN menu : QueryMenu(k) \/ MenuArrives(k) \/ MenuFails(k)
     \/ \E f \in Filters : Choose(f)
     \/ \E r \in asked : Query(r) \/ Lose(r)
     \/ \E a \in answers : Arrive(a)
     \/ \E i \in 1..MaxIndex : Click(i) \/ Navigate(i)
     \/ closeModal

Page == NextPage \/ \E l \in PageLimits, f \in PagerFilters : BeginPaging(l, f)

Next == Store \/ Browse \/ Page

Spec == Init /\ [][Next]_vars

-----------------------------------------------------------------------------
\* The variables keep their shape; the player is open exactly while it has a
\* clip, no two rows share an id, and no list the page holds names a clip twice.
TypeOK ==
  /\ rows \in [Clips -> [id : 1..lastId, types : SUBSET Types] \cup {NoRow}]
  /\ \A c, d \in Indexed : rows[c].id = rows[d].id => c = d
  /\ DOMAIN menu = {"cameras", "days"}
  /\ \A k \in DOMAIN menu : menu[k].at \in {"asked", "answered", "loaded", "failed"}
  /\ menu["cameras"].options \subseteq {CameraOf[c] : c \in Clips}
  /\ menu["days"].options \subseteq {DayOf[c] : c \in Clips}
  /\ filter \in Filters /\ shown.filter \in Filters
  /\ fetches \in 0..MaxFetches /\ shown.n \in 0..fetches
  /\ \A r \in asked \cup answers : r.n \in 1..fetches
  /\ Len(Cards(list)) <= DefaultLimit /\ IsInjective(Cards(list))
  /\ modal \in 0..MaxIndex /\ ((modal = 0) <=> (playing = Nothing))

\* However long a page stays open while the indexer rescans and the correlator
\* relabels, the links it holds lead to the clips it shows: the ids in its list,
\* in answers on their way and in the player are those of the same clips' rows
\* still (UpsertClip updates a row it finds).
LinksResolve ==
  \A e \in ToSet(Cards(list)) \cup (UNION {ToSet(Cards(a.clips)) : a \in answers})
            \cup ({playing} \ {Nothing}) :
    ClipByID(e.id) = {e.clip}

\* While the answer to the last fetch is shown, the clips on the screen are of the
\* camera the controls show and of their day, whatever was chosen before the menus
\* came and whichever of them failed to: only before init's fetch, and for good
\* when the cameras do not come, may the day menu show a day for which no list has
\* been fetched (init, loadDays, fetchClips).  An older answer that arrives after
\* it replaces the list, and an error leaves none.
SettledListMatches ==
  shown.n = fetches =>
    /\ shown.filter.camera = filter.camera /\ shown.filter.type = filter.type
    /\ shown.filter.day # filter.day => Loaded("days") /\ ~Loaded("cameras") /\ shown.filter.day = All
    /\ \A e \in ToSet(Cards(list)) : /\ shown.filter.day \in {All, DayOf[e.clip]}
                                     /\ filter.camera \in {All, CameraOf[e.clip]}

\* A client that pages without a type filter until a page is empty has got every
\* clip there was when it began, although clips have been put in front of them and
\* among them meanwhile, and whether or not its limit was accepted; only of clips
\* that start in the same second may one be passed over, as the database may order
\* them anew for each page (ListClips, handleListClips).
Tied(c, f) == \E d \in Matching(f) \ {c} : StartOf[d] = StartOf[c]

PagesMissNothing ==
  pager # Nothing /\ pager.done =>
    \A c \in pager.present : c \in pager.seen \/ Tied(c, pager.filter)
=============================================================================
