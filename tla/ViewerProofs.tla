---------------------------- MODULE ViewerProofs ----------------------------
(***************************************************************************)
(* Proofs, for any clips, filters, limits and numbers of fetches, that the    *)
(* page's links keep leading to the clips it shows, that its list is the one   *)
(* asked for once the last fetch is answered, and that a client that pages     *)
(* misses no clip that has its second to itself: see LinksResolve,             *)
(* SettledListMatches and PagesMissNothing in Viewer.                          *)
(***************************************************************************)
EXTENDS Viewer, Integers, FiniteSetTheorems, SequenceTheorems, TLAPS

-----------------------------------------------------------------------------
(* Finite sets of numbers. *)

LEMMA LeastNatural ==
  ASSUME NEW T \in SUBSET Nat, T # {}
  PROVE  \E n \in T : \A m \in T : n <= m
<1> DEFINE R == {p \in Nat \X Nat : p[1] < p[2]}
<1>1. IsWellFoundedOn(R, Nat)
  BY NatLessThanWellFounded DEF OpToRel
<1>2. \A x, y \in Nat : << x, y >> \in R <=> x < y
  OBVIOUS
<1> HIDE DEF R
<1>3. PICK x \in T : \A y \in T : ~ (<< y, x >> \in R)
  BY <1>1, WFMin
<1>4. SUFFICES ASSUME NEW m \in T PROVE x <= m
  OBVIOUS
<1>5. x \in Nat /\ m \in Nat /\ ~(m < x)
  BY <1>2, <1>3
<1> QED
  BY <1>5

\* A menu of days has a newest one, so that Newest is one of them.  Were there a
\* set without, the smallest such would lose an element and be none.
LEMMA NewestIsOne ==
  ASSUME NEW D \in SUBSET Nat, IsFiniteSet(D)
  PROVE  Newest(D) \in D \cup {All}
<1> DEFINE Topped(E) == \E d \in E : \A e \in E : e <= d
           Bad == {E \in SUBSET D : E # {} /\ ~Topped(E)}
           Sizes == {Cardinality(E) : E \in Bad}
<1>1. \A E \in SUBSET D : IsFiniteSet(E) /\ Cardinality(E) \in Nat
  BY FS_Subset, FS_CardinalityType
<1>2. Bad = {}
  <2>1. SUFFICES ASSUME Bad # {} PROVE FALSE
    OBVIOUS
  <2>2. Sizes \in SUBSET Nat /\ Sizes # {}
    BY <1>1, <2>1
  <2>3. PICK n \in Sizes : \A m \in Sizes : n <= m
    BY <2>2, LeastNatural
  <2>4. PICK E \in Bad : Cardinality(E) = n
    BY <2>3
  <2>5. PICK d \in E : TRUE
    OBVIOUS
  <2> DEFINE F == E \ {d}
  <2>6. F \in SUBSET D /\ Cardinality(F) < n
    <3>1. Cardinality(F) = Cardinality(E) - 1
      BY <1>1, <2>5, FS_RemoveElement
    <3> QED
      BY <1>1, <2>4, <3>1
  <2>7. F \notin Bad
    <3>1. n \in Nat /\ Cardinality(F) \in Nat
      BY <1>1, <2>2, <2>6
    <3>2. ~(n <= Cardinality(F))
      BY <2>6, <3>1
    <3>3. Cardinality(F) \notin Sizes
      BY <2>3, <3>2
    <3> QED
      BY <3>3
  <2>8. CASE F = {}
    <3>1. E = {d}
      BY <2>5, <2>8
    <3> QED
      BY <2>4, <3>1
  <2>9. CASE F # {}
    <3>1. PICK e \in F : \A x \in F : x <= e
      BY <2>6, <2>7, <2>9
    <3>2. d \in Nat /\ e \in Nat /\ E \subseteq Nat
      BY <2>4, <2>5, <3>1
    <3>3. CASE d <= e
      <4>1. \A x \in E : x <= e
        BY <3>1, <3>3
      <4> QED
        BY <2>4, <3>1, <4>1
    <3>4. CASE e < d
      <4>1. \A x \in E : x <= d
        BY <3>1, <3>2, <3>4
      <4> QED
        BY <2>4, <2>5, <4>1
    <3> QED
      BY <3>2, <3>3, <3>4
  <2> QED
    BY <2>8, <2>9
<1>3. D # {} => Topped(D)
  BY <1>2
<1>4. D # {} => Newest(D) \in D
  BY <1>3 DEF Newest
<1> QED
  BY <1>4 DEF Newest

-----------------------------------------------------------------------------
(* The table. *)

TableOK ==
  /\ lastId \in Nat
  /\ rows \in [Clips -> [id : 1..lastId, types : SUBSET Types] \cup {NoRow}]
  /\ \A c, d \in Indexed : rows[c].id = rows[d].id => c = d

\* What a step may never do to the table: lose a row or give it another id.
KeepsRows == \A c \in Indexed : c \in Indexed' /\ rows'[c].id = rows[c].id

LEMMA InitTableOK == Init => TableOK
BY DEF Init, TableOK, Indexed

LEMMA UpsertKeepsRows ==
  ASSUME TableOK, NEW c \in Clips, UpsertClip(c)
  PROVE  TableOK' /\ KeepsRows
<1>1. CASE rows[c] # NoRow
  BY <1>1 DEF TableOK, UpsertClip, tableVars, KeepsRows, Indexed
<1>2. CASE rows[c] = NoRow
  <2> DEFINE row == [id |-> lastId + 1, types |-> {}]
  <2>1. rows' = [rows EXCEPT ![c] = row] /\ lastId' = lastId + 1
    BY <1>2 DEF UpsertClip
  <2>2. lastId \in Nat /\ lastId + 1 \in Nat /\ 1 .. lastId \subseteq 1 .. (lastId + 1)
    BY DEF TableOK
  <2>3. row \in [id : 1 .. (lastId + 1), types : SUBSET Types] /\ row.id = lastId + 1
    BY <2>2
  <2> HIDE DEF row
  <2>4. \A d \in Indexed : rows[d] \in [id : 1 .. lastId, types : SUBSET Types]
    BY DEF TableOK, Indexed
  <2>5. \A d \in Indexed' : d = c \/ (d \in Indexed /\ rows'[d] = rows[d])
    BY <2>1 DEF TableOK, Indexed
  <2>6. rows'[c] = row
    BY <2>1 DEF TableOK
  <2>7. \A d \in Indexed : d # c /\ rows'[d] = rows[d] /\ rows[d].id # lastId + 1
    BY <1>2, <2>1, <2>2, <2>4 DEF TableOK, Indexed
  <2>8. \A d, e \in Indexed' : rows'[d].id = rows'[e].id => d = e
    BY <2>3, <2>5, <2>6, <2>7 DEF TableOK
  <2>9. rows' \in [Clips -> [id : 1..lastId', types : SUBSET Types] \cup {NoRow}]
    BY <2>1, <2>2, <2>3 DEF TableOK
  <2> QED
    BY <2>1, <2>2, <2>7, <2>8, <2>9 DEF TableOK, KeepsRows, Indexed
<1> QED
  BY <1>1, <1>2

LEMMA RelabelKeepsRows ==
  ASSUME TableOK, NEW c \in Clips, NEW T \in SUBSET Types, Relabel(c, T)
  PROVE  TableOK' /\ KeepsRows
<1> DEFINE row == [rows[c] EXCEPT !.types = T]
<1>1. rows' = [rows EXCEPT ![c] = row] /\ lastId' = lastId /\ rows[c] # NoRow
  BY DEF Relabel
<1>2. /\ rows[c] \in [id : 1 .. lastId, types : SUBSET Types]
      /\ row \in [id : 1 .. lastId, types : SUBSET Types] /\ row.id = rows[c].id
  BY <1>1 DEF TableOK
<1>3. row # NoRow
  <2>1. 1 .. lastId \subseteq Nat
    BY DEF TableOK
  <2> QED
    BY <1>2, <2>1, ViewerAssumption
<1> HIDE DEF row
<1>4. \A d \in Clips : rows'[d] = IF d = c THEN row ELSE rows[d]
  BY <1>1 DEF TableOK
<1>5. Indexed' = Indexed
  BY <1>1, <1>3, <1>4 DEF Indexed
<1>6. \A d \in Indexed : rows'[d].id = rows[d].id
  BY <1>2, <1>4 DEF Indexed
<1>7. rows' \in [Clips -> [id : 1..lastId', types : SUBSET Types] \cup {NoRow}]
  BY <1>1, <1>2 DEF TableOK
<1> QED
  BY <1>1, <1>5, <1>6, <1>7 DEF TableOK, KeepsRows

\* Nothing else writes to the table.
LEMMA NextKeepsRows ==
  ASSUME TableOK, [Next]_vars
  PROVE  TableOK' /\ KeepsRows
<1>1. CASE UNCHANGED tableVars
  BY <1>1 DEF TableOK, KeepsRows, tableVars, Indexed
<1>2. CASE Store
  BY <1>2, UpsertKeepsRows, RelabelKeepsRows DEF Store
<1>3. CASE Browse
  BY <1>1, <1>3
     DEF Browse, QueryMenu, MenuArrives, MenuFails, Choose, Query, Lose, Arrive, Click, Navigate, openModal, closeModal
<1>4. CASE Page
  BY <1>1, <1>4 DEF Page, BeginPaging, NextPage
<1> QED
  BY <1>1, <1>2, <1>3, <1>4 DEF Next, vars

-----------------------------------------------------------------------------
(* Listings and pages of them. *)

LEMMA FiniteTable == \A f : IsFiniteSet(Matching(f)) /\ Matching(f) \subseteq Indexed
<1> SUFFICES ASSUME NEW f
             PROVE  IsFiniteSet(Matching(f)) /\ Matching(f) \subseteq Indexed
  OBVIOUS
<1>1. Matching(f) \in SUBSET Clips /\ Matching(f) \subseteq Indexed
  BY DEF Matching, Indexed
<1> QED
  BY <1>1, ViewerAssumption, FS_Subset

\* A listing of S has each of its clips once.
LEMMA ListingIs ==
  ASSUME NEW S, IsFiniteSet(S), NEW s \in NewestFirst(S)
  PROVE  /\ Cardinality(S) \in Nat /\ Len(s) = Cardinality(S)
         /\ s \in [1..Cardinality(S) -> S]
         /\ \A i, j \in 1..Cardinality(S) : i # j => s[i] # s[j]
         /\ \A i, j \in 1..Cardinality(S) : i < j => ~Newer(s[j], s[i])
         /\ \A c \in S : \E i \in 1..Cardinality(S) : s[i] = c
<1> DEFINE n == Cardinality(S)
<1>1. n \in Nat
  BY FS_CardinalityType
<1>2. s \in [1..n -> S] /\ \A i, j \in 1..n : i # j => s[i] # s[j]
  BY DEF NewestFirst, SetToSeqs
<1>3. Len(s) = n /\ s \in Seq(S)
  BY <1>1, <1>2
<1>4. \A i, j \in 1..n : i < j => ~Newer(s[j], s[i])
  BY <1>2 DEF NewestFirst
<1>5. s \in Surjection(1..n, S)
  <2>1. s \in Injection(1..n, S)
    BY <1>2 DEF Injection, IsInjective
  <2>2. Cardinality(1..n) = n
    BY <1>1, FS_Interval
  <2> QED
    BY <2>1, <2>2, FS_Injection
<1>6. \A c \in S : \E i \in 1..n : s[i] = c
  BY <1>5 DEF Surjection
<1> QED
  BY <1>1, <1>2, <1>3, <1>4, <1>6

\* A page is that part of the listing, and stops short of the limit only at its end.
LEMMA WindowIs ==
  ASSUME NEW S, IsFiniteSet(S), NEW s \in NewestFirst(S),
         NEW limit \in Nat, NEW offset \in Nat, NEW w, w = Window(s, limit, offset)
  PROVE  /\ w \in Seq(S) /\ Len(w) <= limit
         /\ \A i, j \in 1..Len(w) : w[i] = w[j] => i = j
         /\ \A i \in 1..Len(w) : offset + i \in 1..Cardinality(S) /\ w[i] = s[offset + i]
         /\ Len(w) < limit => Cardinality(S) <= offset + Len(w)
<1> DEFINE n == Cardinality(S)
           k == IF offset + limit < n THEN offset + limit ELSE n
<1>1. /\ n \in Nat /\ Len(s) = n
      /\ s \in [1..n -> S] /\ \A i, j \in 1..n : i # j => s[i] # s[j]
  BY ListingIs
<1>2. k \in Nat /\ k <= n /\ k <= offset + limit /\ (k < offset + limit => k = n)
  BY <1>1
<1>3. w = SubSeq(s, offset + 1, k)
  BY <1>1 DEF Window
<1> HIDE DEF n, k
<1>4. \A i \in offset + 1..k : s[i] \in S
  BY <1>1, <1>2
<1>5. /\ w \in Seq(S)
      /\ Len(w) = (IF offset + 1 <= k THEN k - (offset + 1) + 1 ELSE 0)
      /\ \A i \in 1..k - (offset + 1) + 1 : w[i] = s[(offset + 1) + i - 1]
  <2>1. offset + 1 \in Int /\ k \in Int
    BY <1>2
  <2> QED
    BY <1>3, <1>4, <2>1, SubSeqProperties
<1> DEFINE m == Len(w)
<1>6. m \in Nat /\ m = (IF offset < k THEN k - offset ELSE 0)
  BY <1>2, <1>5
<1>7. \A i \in 1..m : offset + i \in 1..n /\ w[i] = s[offset + i]
  <2> SUFFICES ASSUME NEW i \in 1..m PROVE offset + i \in 1..n /\ w[i] = s[offset + i]
    OBVIOUS
  <2> HIDE DEF m
  <2>1. i \in 1..k - (offset + 1) + 1 /\ (offset + 1) + i - 1 = offset + i
    BY <1>2, <1>6
  <2>2. offset + i \in 1..n
    BY <1>1, <1>2, <1>6
  <2> QED
    BY <1>5, <2>1, <2>2
<1>8. \A i, j \in 1..m : w[i] = w[j] => i = j
  <2> HIDE DEF m
  <2>1. ASSUME NEW i \in 1..m, NEW j \in 1..m, i # j PROVE w[i] # w[j]
    <3>1. offset + i \in 1..n /\ offset + j \in 1..n /\ offset + i # offset + j
      BY <1>6, <1>7, <2>1
    <3> QED
      BY <1>1, <1>7, <3>1
  <2> QED
    BY <2>1
<1> HIDE DEF m
<1>9. m <= limit /\ (m < limit => n <= offset + m)
  BY <1>1, <1>2, <1>6
<1> QED
  BY <1>5, <1>7, <1>8, <1>9 DEF m, n

-----------------------------------------------------------------------------
(* The page. *)

Links == [id : Nat, clip : Clips]

\* A list that came as an answer for f.
ListOK(s, f) ==
  /\ s \in Seq(Links) /\ Len(s) <= DefaultLimit /\ IsInjective(s)
  /\ \A i \in 1..Len(s) : /\ f.day \in {All, DayOf[s[i].clip]}
                          /\ f.camera \in {All, CameraOf[s[i].clip]}

FetchesOK ==
  /\ fetches \in 0..MaxFetches /\ filter \in Filters
  /\ shown \in [n : 0..fetches, filter : Filters]
  /\ asked \subseteq [n : 1..fetches, filter : Filters]
  /\ \A a \in answers : a.n \in 1..fetches /\ a.filter \in Filters

ListsOK == ListOK(Cards(list), shown.filter) /\ \A a \in answers : ListOK(Cards(a.clips), a.filter)

PlayerOK == modal \in 0..MaxIndex /\ ((modal = 0) <=> (playing = Nothing))

Steps == {"asked", "answered", "loaded", "failed"}

MenuOK ==
  /\ menu \in [{"cameras", "days"} -> [at : Steps, options : SUBSET (menu["cameras"].options
                                                                   \cup menu["days"].options)]]
  /\ menu["cameras"].options \subseteq {CameraOf[c] : c \in Clips}
  /\ menu["days"].options \subseteq {DayOf[c] : c \in Clips}

\* No day can be chosen before there are any.
NoDayYet == ~Loaded("days") => filter.day = All

\* A filter that is the controls', or was before loadDays set their day.
Current(f) ==
  /\ f.camera = filter.camera /\ f.type = filter.type
  /\ f.day # filter.day => Loaded("days") /\ ~Loaded("cameras") /\ f.day = All

LatestIsCurrent ==
  \A x \in asked \cup answers \cup {shown} : x.n = fetches => Current(x.filter)

PageInv ==
  /\ TableOK /\ FetchesOK /\ ListsOK /\ PlayerOK /\ MenuOK
  /\ NoDayYet /\ LatestIsCurrent /\ LinksResolve

\* An answer links the clips the table holds, by the ids they have there.
LEMMA AnswerIs ==
  ASSUME TableOK, NEW f, NEW found \in ListClips(f, DefaultLimit, 0),
         NEW answer, answer = [i \in DOMAIN found |-> toClipJSON(found[i])]
  PROVE  /\ ListOK(answer, f)
         /\ \A i \in DOMAIN answer : ClipByID(answer[i].id) = {answer[i].clip}
<1>1. PICK s \in NewestFirst(Matching(f)) : found = Window(s, DefaultLimit, 0)
  BY DEF ListClips
<1>2. /\ found \in Seq(Matching(f)) /\ Len(found) <= DefaultLimit
      /\ \A i, j \in 1..Len(found) : found[i] = found[j] => i = j
  BY <1>1, FiniteTable, WindowIs, ViewerAssumption
<1>3. DOMAIN found = 1..Len(found) /\ Len(found) \in Nat
  BY <1>2
<1>4. \A i \in 1..Len(found) :
        /\ found[i] \in Matching(f) /\ found[i] \in Indexed /\ found[i] \in Clips
        /\ answer[i] = [id |-> rows[found[i]].id, clip |-> found[i]]
  BY <1>2, <1>3, FiniteTable DEF toClipJSON, Indexed
<1>5. \A c \in Indexed : rows[c].id \in Nat
  BY DEF TableOK, Indexed
<1>6. answer \in Seq(Links) /\ Len(answer) = Len(found) /\ DOMAIN answer = 1..Len(found)
  <2>1. ASSUME NEW i \in 1..Len(found) PROVE answer[i] \in Links
    <3>1. rows[found[i]].id \in Nat /\ found[i] \in Clips
      BY <1>4, <1>5
    <3>2. [id |-> rows[found[i]].id, clip |-> found[i]] \in Links
      BY <3>1 DEF Links
    <3> QED
      BY <1>4, <3>2
  <2>2. answer \in [1..Len(found) -> Links]
    BY <1>3, <2>1
  <2> QED
    BY <1>3, <2>2
<1>7. IsInjective(answer)
  BY <1>2, <1>4, <1>6 DEF IsInjective
<1>8. ListOK(answer, f)
  BY <1>2, <1>4, <1>6, <1>7 DEF ListOK, Matching, Matches
<1>9. \A c \in Indexed : ClipByID(rows[c].id) = {c}
  BY DEF ClipByID, TableOK, Indexed
<1> QED
  BY <1>4, <1>6, <1>8, <1>9

LEMMA CardsOfFailure == Cards(Failure) = << >> /\ \A f : ListOK(<< >>, f)
BY ViewerAssumption DEF Cards, ListOK, IsInjective

LEMMA CardsOfList == \A s \in Seq(Links) : Cards(s) = s
BY ViewerAssumption DEF Cards, Links

LEMMA InitPageInv == Init => PageInv
<1> SUFFICES ASSUME Init PROVE PageInv
  OBVIOUS
<1> USE ViewerAssumption DEF Init
<1>1. NoFilter \in Filters /\ NoFilter.day = All
  BY DEF NoFilter, Filters
<1>2. FetchesOK /\ NoDayYet
  BY <1>1 DEF FetchesOK, NoDayYet
<1>3. LatestIsCurrent
  BY DEF LatestIsCurrent, Current
<1>4. Cards(list) = << >>
  BY DEF Cards
<1>5. ListsOK
  BY <1>4, CardsOfFailure DEF ListsOK
<1>6. PlayerOK
  BY DEF PlayerOK
<1>7. MenuOK
  BY DEF MenuOK, Steps
<1>8. LinksResolve
  BY <1>4 DEF LinksResolve, ToSet
<1> QED
  BY <1>2, <1>3, <1>5, <1>6, <1>7, <1>8, InitTableOK DEF PageInv

\* What resolved still does when rows only come and keep their ids.
LEMMA LinksKept ==
  ASSUME TableOK, TableOK', KeepsRows, NEW e, ClipByID(e.id) = {e.clip}
  PROVE  (ClipByID(e.id) = {e.clip})'
<1>1. e.clip \in Indexed /\ rows[e.clip].id = e.id
  BY DEF ClipByID
<1>2. e.clip \in Indexed' /\ rows'[e.clip].id = e.id
  BY <1>1 DEF KeepsRows
<1>3. \A c, d \in Indexed' : rows'[c].id = rows'[d].id => c = d
  BY DEF TableOK
<1> QED
  BY <1>2, <1>3 DEF ClipByID

\* The links the page holds, wherever it holds them.
Held ==
  ToSet(Cards(list)) \cup (UNION {ToSet(Cards(a.clips)) : a \in answers}) \cup ({playing} \ {Nothing})

LEMMA NoNewLinks ==
  ASSUME TableOK, TableOK', KeepsRows, LinksResolve, Held' \subseteq Held
  PROVE  LinksResolve'
<1> SUFFICES ASSUME NEW e \in Held' PROVE (ClipByID(e.id) = {e.clip})'
  BY DEF LinksResolve, Held
<1>1. ClipByID(e.id) = {e.clip}
  BY DEF LinksResolve, Held
<1> QED
  BY <1>1, LinksKept

\* A fetch for the filter chosen now.
LEMMA FetchKeepsOK ==
  ASSUME FetchesOK, ListsOK, LatestIsCurrent, NEW f \in Filters,
         filter' = f, fetchClips(f), UNCHANGED shownVars
  PROVE  (FetchesOK /\ ListsOK /\ LatestIsCurrent)'
<1> DEFINE r == [n |-> fetches + 1, filter |-> f]
<1>1. /\ fetches \in Nat /\ fetches < MaxFetches /\ MaxFetches \in Nat
      /\ fetches' = fetches + 1 /\ asked' = asked \cup {r} /\ answers' = answers
      /\ shown' = shown /\ list' = list
  BY ViewerAssumption DEF FetchesOK, fetchClips, shownVars
<1>2. r \in [n : 1..fetches', filter : Filters] /\ r.n = fetches' /\ r.filter = f
  BY <1>1
<1> HIDE DEF r
<1>3. /\ 0..fetches \subseteq 0..fetches' /\ 1..fetches \subseteq 1..fetches'
      /\ fetches' \in 0..MaxFetches
  BY <1>1
<1>4. FetchesOK'
  <2>1. shown' \in [n : 0..fetches', filter : Filters]
    BY <1>1, <1>3 DEF FetchesOK
  <2>2. asked' \subseteq [n : 1..fetches', filter : Filters]
    BY <1>1, <1>2, <1>3 DEF FetchesOK
  <2>3. \A a \in answers' : a.n \in 1..fetches' /\ a.filter \in Filters
    BY <1>1, <1>3 DEF FetchesOK
  <2> QED
    BY <1>3, <2>1, <2>2, <2>3 DEF FetchesOK
<1>5. ListsOK'
  BY <1>1 DEF ListsOK, Cards
<1>6. LatestIsCurrent'
  <2>1. \A x \in asked \cup answers \cup {shown} : x.n \in 0..fetches
    BY <1>1 DEF FetchesOK
  <2>2. \A x \in asked \cup answers \cup {shown} : x.n # fetches'
    BY <1>1, <2>1
  <2> QED
    BY <1>1, <1>2, <2>2 DEF LatestIsCurrent, Current
<1> QED
  BY <1>4, <1>5, <1>6

\* The player shows a clip of the list, or the one it had.
LEMMA OpenModalKeepsOK ==
  ASSUME ListsOK, PlayerOK, NEW i \in 1..MaxIndex, openModal(i), i \in DOMAIN Cards(list) \/ modal # 0
  PROVE  PlayerOK' /\ Held' \subseteq Held
<1>1. Cards(list) \in Seq(Links) /\ i # 0 /\ i \in 0..MaxIndex
  BY ViewerAssumption DEF ListsOK, ListOK
<1>2. modal' = i /\ list' = list /\ answers' = answers
  BY DEF openModal, shownVars, fetchVars
<1>3. CASE i \in DOMAIN Cards(list)
  <2>1. list # Failure
    BY <1>3 DEF Cards
  <2>2. playing' = Cards(list)[i] /\ Cards(list)[i] \in Links
    BY <1>1, <1>3, <2>1 DEF openModal, Cards
  <2>3. playing' # Nothing /\ playing' \in ToSet(Cards(list))
    BY <1>3, <2>2, ViewerAssumption DEF Links, ToSet
  <2> QED
    BY <1>1, <1>2, <2>3 DEF PlayerOK, Held, Cards
<1>4. CASE i \notin DOMAIN Cards(list)
  <2>1. playing' = playing /\ playing # Nothing
    BY <1>4 DEF openModal, PlayerOK
  <2> QED
    BY <1>1, <1>2, <2>1 DEF PlayerOK, Held, Cards
<1> QED
  BY <1>3, <1>4

\* What the menus' answers and failures leave alone.
LEMMA MenuFrame ==
  ASSUME NEW k \in DOMAIN menu, QueryMenu(k) \/ MenuArrives(k) \/ MenuFails(k), ListsOK, PlayerOK
  PROVE  /\ UNCHANGED << shownVars, modalVars, answers >>
         /\ PlayerOK' /\ Held' \subseteq Held
<1>1. UNCHANGED << shownVars, modalVars, answers >>
  BY DEF QueryMenu, MenuArrives, MenuFails, fetchClips, fetchVars
<1> QED
  BY <1>1 DEF shownVars, modalVars, PlayerOK, Held, Cards, ToSet

\* A menu that does not become loaded changes nothing for the list.
LEMMA UnloadedMenuKeepsPage ==
  ASSUME PageInv, NEW k \in DOMAIN menu, QueryMenu(k) \/ MenuFails(k)
  PROVE  (FetchesOK /\ ListsOK /\ MenuOK /\ NoDayYet /\ LatestIsCurrent)'
<1> USE DEF PageInv
<1>1. /\ UNCHANGED << filter, fetchVars, shownVars >>
      /\ menu[k].at = "asked"
  BY DEF QueryMenu, MenuFails
<1>2. k \in {"cameras", "days"}
  BY DEF MenuOK
<1>3. PICK options :
        /\ \/ menu' = [menu EXCEPT ![k] = [at |-> "answered", options |-> options]]
           \/ menu' = [menu EXCEPT ![k] = [at |-> "failed", options |-> options]]
        /\ k = "cameras" => options \subseteq {CameraOf[c] : c \in Clips}
        /\ k = "days" => options \subseteq {DayOf[c] : c \in Clips}
  <2>1. CASE QueryMenu(k)
    <3>1. CASE k = "days"
      <4>1. menu' = [menu EXCEPT ![k] = [at |-> "answered", options |-> {DayOf[c] : c \in Indexed}]]
        BY <2>1, <3>1 DEF QueryMenu
      <4>2. {DayOf[c] : c \in Indexed} \subseteq {DayOf[c] : c \in Clips}
        BY DEF Indexed
      <4> QED
        BY <3>1, <4>1, <4>2
    <3>2. CASE k = "cameras"
      <4>1. menu' = [menu EXCEPT ![k] = [at |-> "answered", options |-> {CameraOf[c] : c \in Indexed}]]
        BY <2>1, <3>2 DEF QueryMenu
      <4>2. {CameraOf[c] : c \in Indexed} \subseteq {CameraOf[c] : c \in Clips}
        BY DEF Indexed
      <4> QED
        BY <3>2, <4>1, <4>2
    <3> QED
      BY <1>2, <3>1, <3>2
  <2>2. CASE MenuFails(k)
    <3> DEFINE same == menu[k].options
               failed == [at |-> "failed", options |-> same]
    <3>1. menu' = [menu EXCEPT ![k] = failed]
      <4>1. [menu[k] EXCEPT !.at = "failed"] = failed
        BY <1>2 DEF MenuOK
      <4>2. menu' = [menu EXCEPT ![k] = [menu[k] EXCEPT !.at = "failed"]]
        BY <2>2 DEF MenuFails
      <4> QED
        BY <4>1, <4>2
    <3>2. /\ k = "cameras" => same \subseteq {CameraOf[c] : c \in Clips}
          /\ k = "days" => same \subseteq {DayOf[c] : c \in Clips}
      BY DEF MenuOK
    <3> HIDE DEF same
    <3> QED
      BY <3>1, <3>2
  <2> QED
    BY <2>1, <2>2
<1>4. MenuOK'
  BY <1>2, <1>3 DEF MenuOK, Steps
<1>5. Loaded("days")' = Loaded("days") /\ Loaded("cameras")' = Loaded("cameras")
  BY <1>1, <1>2, <1>3 DEF MenuOK, Loaded
<1> QED
  BY <1>1, <1>4, <1>5
     DEF FetchesOK, ListsOK, Cards, NoDayYet, LatestIsCurrent, Current, fetchVars, shownVars

\* loadDays sets the day; the last menu to come fetches the list for it.
LEMMA LoadedMenuKeepsPage ==
  ASSUME PageInv, NEW k \in DOMAIN menu, MenuArrives(k)
  PROVE  (FetchesOK /\ ListsOK /\ MenuOK /\ NoDayYet /\ LatestIsCurrent)'
<1> USE DEF PageInv
<1>1. k \in {"cameras", "days"} /\ menu' = [menu EXCEPT ![k].at = "loaded"] /\ menu[k].at = "answered"
  BY DEF MenuArrives, MenuOK
<1>2. MenuOK'
  BY <1>1 DEF MenuOK, Steps
<1>3. /\ Loaded(k)' /\ ~Loaded(k)
      /\ \A m \in {"cameras", "days"} \ {k} : Loaded(m)' = Loaded(m)
  BY <1>1 DEF MenuOK, Loaded
<1>4. Newest(menu["days"].options) \in {All} \cup {DayOf[c] : c \in Clips}
  <2> DEFINE D == {DayOf[c] : c \in Clips}
             day == [c \in Clips |-> DayOf[c]]
  <2>1. D \in SUBSET Nat /\ menu["days"].options \in SUBSET D
    BY ViewerAssumption DEF MenuOK
  <2>2. IsFiniteSet(D)
    <3>1. day \in Surjection(Clips, D)
      BY DEF Surjection
    <3> QED
      BY <3>1, ViewerAssumption, FS_Surjection
  <2>3. IsFiniteSet(menu["days"].options)
    BY <2>1, <2>2, FS_Subset
  <2> QED
    BY <2>1, <2>3, NewestIsOne
<1>5. /\ filter' = filter \/ (k = "days" /\ filter' = [filter EXCEPT !.day = Newest(menu["days"].options)])
      /\ filter' \in Filters
  BY <1>1, <1>4 DEF MenuArrives, FetchesOK, Filters
<1>6. NoDayYet'
  BY <1>1, <1>3, <1>5 DEF NoDayYet
<1>7. CASE \A m \in DOMAIN menu : m = k \/ Loaded(m)
  <2>1. fetchClips(filter') /\ UNCHANGED shownVars
    BY <1>7 DEF MenuArrives
  <2> QED
    BY <1>2, <1>5, <1>6, <2>1, FetchKeepsOK
<1>8. CASE ~\A m \in DOMAIN menu : m = k \/ Loaded(m)
  <2>1. UNCHANGED << fetchVars, shownVars >>
    BY <1>8 DEF MenuArrives
  <2>2. FetchesOK' /\ ListsOK'
    BY <1>5, <2>1 DEF FetchesOK, ListsOK, Cards, fetchVars, shownVars
  <2>3. /\ ~Loaded("cameras") \/ ~Loaded("days")
        /\ k = "days" => ~Loaded("cameras") /\ ~Loaded("cameras")' /\ filter.day = All
        /\ k = "cameras" => ~Loaded("days") /\ ~Loaded("days")'
    BY <1>1, <1>3, <1>8 DEF MenuOK, NoDayYet
  <2>4. ASSUME NEW f \in Filters, Current(f) PROVE Current(f)'
    <3>1. CASE k = "days"
      <4>1. f.day = All
        BY <1>3, <2>3, <2>4, <3>1 DEF Current
      <4>2. filter'.camera = filter.camera /\ filter'.type = filter.type
        BY <1>5 DEF FetchesOK, Filters
      <4> QED
        BY <1>3, <2>3, <2>4, <3>1, <4>1, <4>2 DEF Current
    <3>2. CASE k = "cameras"
      BY <1>5, <2>3, <2>4, <3>2 DEF Current
    <3> QED
      BY <1>1, <3>1, <3>2
  <2>5. \A x \in asked \cup answers \cup {shown} : x.filter \in Filters
    BY DEF FetchesOK
  <2>6. LatestIsCurrent'
    BY <2>1, <2>4, <2>5 DEF LatestIsCurrent, fetchVars, shownVars
  <2> QED
    BY <1>2, <1>6, <2>2, <2>6
<1> QED
  BY <1>7, <1>8

\* What a query puts on its way: a list of the filter's clips, with their ids, or
\* an error, which has none.
LEMMA AnswersAre ==
  ASSUME TableOK, FetchesOK, NEW r \in asked, Query(r)
  PROVE  \E clips : /\ answers' = answers \cup {[n |-> r.n, filter |-> r.filter, clips |-> clips]}
                    /\ ListOK(Cards(clips), r.filter)
                    /\ \A e \in ToSet(Cards(clips)) : ClipByID(e.id) = {e.clip}
<1>1. r.filter \in Filters
  BY DEF FetchesOK
<1>2. CASE answers' = answers \cup {[n |-> r.n, filter |-> r.filter, clips |-> Failure]}
  <2>1. ListOK(Cards(Failure), r.filter) /\ ToSet(Cards(Failure)) = {}
    BY CardsOfFailure DEF ToSet
  <2> QED
    BY <1>2, <2>1
<1>3. ASSUME NEW found \in ListClips(r.filter, DefaultLimit, 0),
             NEW links, links = [i \in DOMAIN found |-> toClipJSON(found[i])],
             answers' = answers \cup {[n |-> r.n, filter |-> r.filter, clips |-> links]}
      PROVE  /\ ListOK(Cards(links), r.filter)
             /\ \A e \in ToSet(Cards(links)) : ClipByID(e.id) = {e.clip}
  <2>1. ListOK(links, r.filter) /\ \A i \in DOMAIN links : ClipByID(links[i].id) = {links[i].clip}
    BY <1>1, <1>3, AnswerIs
  <2>2. Cards(links) = links
    BY <2>1, CardsOfList DEF ListOK
  <2> QED
    BY <2>1, <2>2 DEF ToSet
<1>4. \/ \E found \in ListClips(r.filter, DefaultLimit, 0) :
           answers' = answers \cup {[n |-> r.n, filter |-> r.filter,
                                     clips |-> [i \in DOMAIN found |-> toClipJSON(found[i])]]}
      \/ answers' = answers \cup {[n |-> r.n, filter |-> r.filter, clips |-> Failure]}
  BY DEF Query, Answer
<1> QED
  BY <1>2, <1>3, <1>4

LEMMA BrowseKeepsPage ==
  ASSUME PageInv, TableOK', KeepsRows, Browse
  PROVE  PageInv'
<1> USE DEF PageInv
<1>1. ASSUME NEW k \in DOMAIN menu, QueryMenu(k) \/ MenuArrives(k) \/ MenuFails(k) PROVE PageInv'
  <2>1. (FetchesOK /\ ListsOK /\ MenuOK /\ NoDayYet /\ LatestIsCurrent)'
    BY <1>1, UnloadedMenuKeepsPage, LoadedMenuKeepsPage
  <2>2. PlayerOK' /\ Held' \subseteq Held
    BY <1>1, MenuFrame
  <2> QED
    BY <2>1, <2>2, NoNewLinks
<1>2. ASSUME NEW f \in Filters, Choose(f) PROVE PageInv'
  <2>1. /\ filter' = f /\ fetchClips(f) /\ UNCHANGED << menu, shownVars, modalVars >>
        /\ f.day = filter.day \/ f.day \in Options("days")
    BY <1>2 DEF Choose
  <2>2. (FetchesOK /\ ListsOK /\ LatestIsCurrent)'
    BY <2>1, FetchKeepsOK
  <2>3. MenuOK' /\ NoDayYet'
    BY <2>1 DEF MenuOK, NoDayYet, Loaded, Options
  <2>4. PlayerOK' /\ Held' \subseteq Held
    BY <2>1 DEF fetchClips, shownVars, modalVars, PlayerOK, Held, Cards, ToSet
  <2> QED
    BY <2>2, <2>3, <2>4, NoNewLinks
<1>3. ASSUME NEW r \in asked, Query(r) PROVE PageInv'
  <2>1. /\ UNCHANGED << tableVars, menu, filter, fetches, shownVars, modalVars >>
        /\ asked' = asked \ {r}
    BY <1>3 DEF Query
  <2>2. r \in [n : 1..fetches, filter : Filters]
    BY DEF FetchesOK
  <2>3. PICK clips : /\ answers' = answers \cup {[n |-> r.n, filter |-> r.filter, clips |-> clips]}
                     /\ ListOK(Cards(clips), r.filter)
                     /\ \A e \in ToSet(Cards(clips)) : ClipByID(e.id) = {e.clip}
    BY <1>3, AnswersAre
  <2> DEFINE a == [n |-> r.n, filter |-> r.filter, clips |-> clips]
  <2>4. answers' = answers \cup {a} /\ a.n = r.n /\ a.filter = r.filter /\ a.clips = clips
    BY <2>3
  <2> HIDE DEF a
  <2>5. FetchesOK'
    BY <2>1, <2>2, <2>4 DEF FetchesOK, shownVars
  <2>6. LatestIsCurrent' /\ MenuOK' /\ NoDayYet'
    BY <2>1, <2>2, <2>4 DEF LatestIsCurrent, Current, MenuOK, NoDayYet, Loaded, shownVars
  <2>7. ListsOK'
    BY <2>1, <2>3, <2>4 DEF ListsOK, Cards, shownVars
  <2>8. PlayerOK'
    BY <2>1 DEF PlayerOK, modalVars
  <2>9. LinksResolve'
    <3>1. SUFFICES ASSUME NEW e \in Held' PROVE (ClipByID(e.id) = {e.clip})'
      BY DEF LinksResolve, Held
    <3>2. e \in Held \/ e \in ToSet(Cards(clips))
      BY <2>1, <2>4 DEF Held, Cards, shownVars, modalVars, ToSet
    <3>3. ClipByID(e.id) = {e.clip}
      BY <2>3, <3>2 DEF LinksResolve, Held
    <3> QED
      BY <3>3, LinksKept
  <2> QED
    BY <2>5, <2>6, <2>7, <2>8, <2>9
<1>4. ASSUME NEW r \in asked, Lose(r) PROVE PageInv'
  <2>1. /\ UNCHANGED << menu, filter, fetches, answers, shownVars, modalVars >>
        /\ asked' = asked \ {r}
    BY <1>4 DEF Lose
  <2>2. FetchesOK' /\ ListsOK' /\ PlayerOK' /\ MenuOK'
    BY <2>1 DEF FetchesOK, ListsOK, Cards, PlayerOK, MenuOK, shownVars, modalVars
  <2>3. LatestIsCurrent' /\ NoDayYet'
    BY <2>1 DEF LatestIsCurrent, Current, NoDayYet, Loaded, shownVars
  <2>4. Held' \subseteq Held
    BY <2>1 DEF Held, Cards, shownVars, modalVars, ToSet
  <2> QED
    BY <2>2, <2>3, <2>4, NoNewLinks
<1>5. ASSUME NEW a \in answers, Arrive(a) PROVE PageInv'
  <2>1. /\ answers' = answers \ {a} /\ list' = a.clips
        /\ shown' = [n |-> a.n, filter |-> a.filter]
        /\ UNCHANGED << menu, filter, fetches, asked, modalVars >>
    BY <1>5 DEF Arrive
  <2>2. shown'.n = a.n /\ shown'.filter = a.filter
    BY <2>1
  <2>3. a.n \in 0..fetches /\ a.filter \in Filters
    BY DEF FetchesOK
  <2>4. FetchesOK'
    BY <2>1, <2>3 DEF FetchesOK
  <2>5. LatestIsCurrent' /\ MenuOK' /\ NoDayYet'
    BY <2>1, <2>2 DEF LatestIsCurrent, Current, MenuOK, NoDayYet, Loaded
  <2>6. ListsOK'
    BY <2>1, <2>2 DEF ListsOK, Cards
  <2>7. PlayerOK'
    BY <2>1 DEF PlayerOK, modalVars
  <2>8. Held' \subseteq Held
    BY <2>1 DEF Held, Cards, modalVars, ToSet
  <2> QED
    BY <2>4, <2>5, <2>6, <2>7, <2>8, NoNewLinks
<1>6. ASSUME NEW i \in 1..MaxIndex, Click(i) \/ Navigate(i) PROVE PageInv'
  <2>1. openModal(i) /\ (i \in DOMAIN Cards(list) \/ modal # 0)
    BY <1>6 DEF Click, Navigate
  <2>2. PlayerOK' /\ Held' \subseteq Held
    BY <2>1, OpenModalKeepsOK
  <2>3. UNCHANGED << menu, filter, fetchVars, shownVars >>
    BY <2>1 DEF openModal
  <2>4. FetchesOK' /\ ListsOK' /\ MenuOK'
    BY <2>3 DEF FetchesOK, ListsOK, Cards, MenuOK, shownVars, fetchVars
  <2>5. LatestIsCurrent' /\ NoDayYet'
    BY <2>3 DEF LatestIsCurrent, Current, NoDayYet, Loaded, shownVars, fetchVars
  <2> QED
    BY <2>2, <2>4, <2>5, NoNewLinks
<1>7. CASE closeModal
  <2>1. UNCHANGED << menu, filter, fetchVars, shownVars >> /\ modal' = 0 /\ playing' = Nothing
    BY <1>7 DEF closeModal
  <2>2. FetchesOK' /\ ListsOK' /\ MenuOK'
    BY <2>1 DEF FetchesOK, ListsOK, Cards, MenuOK, shownVars, fetchVars
  <2>3. LatestIsCurrent' /\ NoDayYet'
    BY <2>1 DEF LatestIsCurrent, Current, NoDayYet, Loaded, shownVars, fetchVars
  <2>4. PlayerOK' /\ Held' \subseteq Held
    BY <2>1, ViewerAssumption DEF PlayerOK, Held, Cards, shownVars, fetchVars, ToSet
  <2> QED
    BY <2>2, <2>3, <2>4, NoNewLinks
<1> QED
  BY <1>1, <1>2, <1>3, <1>4, <1>5, <1>6, <1>7 DEF Browse

LEMMA NextPageInv == PageInv /\ [Next]_vars => PageInv'
<1> SUFFICES ASSUME PageInv, [Next]_vars PROVE PageInv'
  OBVIOUS
<1>1. TableOK' /\ KeepsRows
  BY NextKeepsRows DEF PageInv
<1>2. CASE UNCHANGED pageVars
  <2>1. FetchesOK' /\ ListsOK' /\ PlayerOK' /\ MenuOK'
    BY <1>2 DEF PageInv, FetchesOK, ListsOK, Cards, PlayerOK, MenuOK,
                pageVars, shownVars, fetchVars, modalVars
  <2>2. LatestIsCurrent' /\ NoDayYet'
    BY <1>2 DEF PageInv, LatestIsCurrent, Current, NoDayYet, Loaded, pageVars, shownVars, fetchVars
  <2>3. Held' \subseteq Held
    BY <1>2 DEF Held, Cards, pageVars, shownVars, fetchVars, modalVars, ToSet
  <2> QED
    BY <1>1, <2>1, <2>2, <2>3, NoNewLinks DEF PageInv
<1>3. CASE Store
  BY <1>2, <1>3 DEF Store, UpsertClip, Relabel
<1>4. CASE Browse
  BY <1>1, <1>4, BrowseKeepsPage
<1>5. CASE Page
  BY <1>2, <1>5 DEF Page, BeginPaging, NextPage
<1> QED
  BY <1>2, <1>3, <1>4, <1>5 DEF Next, vars

LEMMA PageInvSafe == PageInv => TypeOK /\ LinksResolve /\ SettledListMatches
<1> SUFFICES ASSUME PageInv PROVE TypeOK /\ LinksResolve /\ SettledListMatches
  OBVIOUS
<1>1. DOMAIN menu = {"cameras", "days"} /\ \A k \in DOMAIN menu : menu[k].at \in Steps
  BY DEF PageInv, MenuOK
<1>2. TypeOK
  BY <1>1 DEF PageInv, TypeOK, TableOK, FetchesOK, ListsOK, ListOK, PlayerOK, MenuOK, Steps
<1>3. SettledListMatches
  <2>1. DOMAIN Cards(list) = 1..Len(Cards(list))
    BY DEF PageInv, ListsOK, ListOK
  <2>2. shown.n = fetches => Current(shown.filter)
    BY DEF PageInv, LatestIsCurrent
  <2> QED
    BY <2>1, <2>2 DEF PageInv, ListsOK, ListOK, Current, SettledListMatches, ToSet
<1> QED
  BY <1>2, <1>3 DEF PageInv

LEMMA PageInvHolds == Spec => []PageInv
  BY InitPageInv, NextPageInv, PTL DEF Spec

(* The variables keep their shape (TypeOK).                                     *)
THEOREM TypeCorrect == Spec => []TypeOK
  BY PageInvHolds, PageInvSafe, PTL

(* Links keep leading to the clips they are shown with (LinksResolve).           *)
THEOREM LinksKeepTheirClips == Spec => []LinksResolve
  BY PageInvHolds, PageInvSafe, PTL

(* The answer to the last fetch is for the filter there is (SettledListMatches). *)
THEOREM LastAnswerMatches == Spec => []SettledListMatches
  BY PageInvHolds, PageInvSafe, PTL

-----------------------------------------------------------------------------
(* The client that pages.  What counts is how many clips are in front of one in *)
(* the listing: that number never falls, and the client has passed no more.      *)

Ahead(c, f) == {d \in Matching(f) : Newer(d, c)}

PagerOK ==
  /\ pager \in [limit : PageLimits, filter : PagerFilters, offset : Nat,
                seen : SUBSET Clips, present : SUBSET Clips, done : BOOLEAN]
  /\ pager.present \subseteq Matching(pager.filter)

\* A clip the client has not got lies beyond its offset, unless it shares its place.
NonePassed ==
  \A c \in pager.present : \/ c \in pager.seen \/ Tied(c, pager.filter)
                           \/ pager.offset <= Cardinality(Ahead(c, pager.filter))

AllGot == \A c \in pager.present : c \in pager.seen \/ Tied(c, pager.filter)

PagingInv == pager # Nothing => PagerOK /\ NonePassed /\ (pager.done => AllGot)

LEMMA NewerIsStrict ==
  ASSUME NEW c \in Clips, NEW d \in Clips
  PROVE  /\ Newer(c, d) => c # d /\ ~Newer(d, c)
         /\ ~Newer(c, d) /\ StartOf[c] # StartOf[d] => Newer(d, c)
<1>1. StartOf[c] \in Nat /\ StartOf[d] \in Nat
  BY ViewerAssumption
<1> QED
  BY <1>1 DEF Newer

LEMMA AheadIsFinite ==
  \A f, c : IsFiniteSet(Ahead(c, f)) /\ Cardinality(Ahead(c, f)) \in Nat
<1> SUFFICES ASSUME NEW f, NEW c
             PROVE  IsFiniteSet(Ahead(c, f)) /\ Cardinality(Ahead(c, f)) \in Nat
  OBVIOUS
<1>1. Ahead(c, f) \in SUBSET Matching(f)
  BY DEF Ahead
<1> QED
  BY <1>1, FiniteTable, FS_Subset, FS_CardinalityType

\* A clip's place in the listing tells how many are in front of it.
LEMMA PlaceOf ==
  ASSUME TableOK, NEW f, NEW s \in NewestFirst(Matching(f)),
         NEW i \in 1..Cardinality(Matching(f)), ~Tied(s[i], f)
  PROVE  Cardinality(Ahead(s[i], f)) = i - 1
<1> DEFINE n == Cardinality(Matching(f))
           before == [j \in 1..i - 1 |-> s[j]]
<1>1. /\ n \in Nat
      /\ s \in [1..n -> Matching(f)]
      /\ \A j, k \in 1..n : j # k => s[j] # s[k]
      /\ \A j, k \in 1..n : j < k => ~Newer(s[k], s[j])
      /\ \A c \in Matching(f) : \E j \in 1..n : s[j] = c
  BY FiniteTable, ListingIs
<1> HIDE DEF n
<1>2. i \in 1..n /\ i - 1 \in Nat /\ 1..i - 1 \subseteq 1..n
  BY <1>1 DEF n
<1>3. \A j \in 1..n : s[j] \in Clips /\ s[j] \in Matching(f)
  BY <1>1, FiniteTable DEF Indexed
<1>4. \A j \in 1..i - 1 : s[j] \in Ahead(s[i], f)
  <2> SUFFICES ASSUME NEW j \in 1..i - 1 PROVE s[j] \in Ahead(s[i], f)
    OBVIOUS
  <2>1. j \in 1..n /\ j < i
    BY <1>2
  <2>2. ~Newer(s[i], s[j]) /\ s[j] # s[i]
    BY <1>1, <1>2, <2>1
  <2>3. StartOf[s[j]] # StartOf[s[i]]
    BY <1>3, <2>1, <2>2 DEF Tied
  <2>4. Newer(s[j], s[i])
    BY <1>2, <1>3, <2>1, <2>2, <2>3, NewerIsStrict
  <2> QED
    BY <1>3, <2>1, <2>4 DEF Ahead
<1>5. \A d \in Ahead(s[i], f) : \E j \in 1..i - 1 : s[j] = d
  <2> SUFFICES ASSUME NEW d \in Ahead(s[i], f) PROVE \E j \in 1..i - 1 : s[j] = d
    OBVIOUS
  <2>1. d \in Matching(f) /\ Newer(d, s[i])
    BY DEF Ahead
  <2>2. PICK j \in 1..n : s[j] = d
    BY <1>1, <2>1
  <2>3. j # i
    BY <1>2, <1>3, <2>1, <2>2, NewerIsStrict
  <2>4. ~(i < j)
    BY <1>1, <1>2, <2>1, <2>2
  <2>5. j \in 1..i - 1
    BY <1>2, <2>2, <2>3, <2>4
  <2> QED
    BY <2>2, <2>5
<1>6. before \in Bijection(1..i - 1, Ahead(s[i], f))
  <2>1. before \in Injection(1..i - 1, Ahead(s[i], f))
    BY <1>1, <1>2, <1>4 DEF Injection, IsInjective
  <2>2. before \in Surjection(1..i - 1, Ahead(s[i], f))
    BY <1>4, <1>5 DEF Surjection
  <2> QED
    BY <2>1, <2>2 DEF Bijection
<1> QED
  BY <1>2, <1>6, FS_CountingElements DEF ExistsBijection

\* No step moves a clip towards the front, or away from a clip it shares its place with.
LEMMA PlacesGrow ==
  ASSUME TableOK, TableOK', KeepsRows, NEW f \in PagerFilters
  PROVE  /\ Matching(f) \subseteq Matching(f)'
         /\ \A c \in Indexed : Tied(c, f) => Tied(c, f)'
         /\ \A c \in Indexed : Cardinality(Ahead(c, f)) <= Cardinality(Ahead(c, f)')
<1>1. \A c \in Indexed : c \in Indexed' /\ rows'[c].id = rows[c].id
  BY DEF KeepsRows
<1>2. f.type = All
  BY DEF PagerFilters
<1>3. Matching(f) \subseteq Matching(f)'
  BY <1>1, <1>2 DEF Matching, Matches
<1>4. \A c \in Indexed : Tied(c, f) => Tied(c, f)'
  BY <1>3 DEF Tied
<1>5. ASSUME NEW c \in Indexed
      PROVE  Cardinality(Ahead(c, f)) <= Cardinality(Ahead(c, f)')
  <2>1. \A d \in Matching(f) : d \in Indexed
    BY FiniteTable
  <2>2. \A d \in Indexed : Newer(d, c) => Newer(d, c)'
    BY <1>1 DEF Newer
  <2>3. Ahead(c, f) \in SUBSET (Ahead(c, f)')
    BY <1>3, <2>1, <2>2 DEF Ahead
  <2>4. Ahead(c, f)' \in SUBSET Clips
    BY DEF Ahead, Matching, Indexed
  <2>5. IsFiniteSet(Ahead(c, f)')
    BY <2>4, ViewerAssumption, FS_Subset
  <2> QED
    BY <2>3, <2>5, FS_Subset
<1> QED
  BY <1>3, <1>5, <1>4

\* Whatever becomes of the table, the client has passed nothing it has not got.
LEMMA PagingKept ==
  ASSUME TableOK, TableOK', KeepsRows, PagingInv, pager' = pager
  PROVE  PagingInv'
<1> SUFFICES ASSUME pager # Nothing PROVE PagingInv'
  BY DEF PagingInv
<1>1. PagerOK /\ NonePassed /\ (pager.done => AllGot)
  BY DEF PagingInv
<1>2. PICK f \in PagerFilters : f = pager.filter
  BY <1>1 DEF PagerOK
<1>3. pager.present \subseteq Matching(f) /\ pager.offset \in Nat
  BY <1>1, <1>2 DEF PagerOK
<1>4. pager.present \subseteq Indexed
  BY <1>3, FiniteTable
<1>5. Matching(f) \subseteq Matching(f)'
  BY PlacesGrow
<1>6. PagerOK'
  <2>1. (pager.present \subseteq Matching(f))'
    BY <1>3, <1>5
  <2> QED
    BY <1>1, <1>2, <2>1 DEF PagerOK
<1>7. \A c \in pager.present : Tied(c, f) => Tied(c, f)'
  BY <1>4, PlacesGrow
<1>8. pager.done => AllGot'
  BY <1>1, <1>2, <1>7 DEF AllGot
<1>9. NonePassed'
  <2> SUFFICES ASSUME NEW c \in pager.present, c \notin pager.seen, ~Tied(c, f)'
               PROVE  pager.offset <= Cardinality(Ahead(c, f)')
    BY <1>2 DEF NonePassed
  <2>1. pager.offset <= Cardinality(Ahead(c, f))
    BY <1>1, <1>2, <1>7 DEF NonePassed
  <2>2. Cardinality(Ahead(c, f)) <= Cardinality(Ahead(c, f)')
    BY <1>4, PlacesGrow
  <2>3. Cardinality(Ahead(c, f)) \in Nat /\ Cardinality(Ahead(c, f)') \in Nat
    <3>1. Ahead(c, f)' \in SUBSET Clips
      BY DEF Ahead, Matching, Indexed
    <3> QED
      BY <3>1, AheadIsFinite, ViewerAssumption, FS_Subset, FS_CardinalityType
  <2> QED
    BY <1>3, <2>1, <2>2, <2>3
<1> QED
  BY <1>1, <1>6, <1>9, <1>8 DEF PagingInv

\* A page is of the clips next in the listing; an empty one, of none beyond.
LEMMA NextPageKeepsPaging ==
  ASSUME TableOK, PagingInv, NextPage
  PROVE  PagingInv'
<1>1. /\ PagerOK /\ NonePassed /\ ~pager.done
      /\ UNCHANGED << rows, lastId >>
  BY DEF NextPage, PagingInv, tableVars
<1>2. PICK f \in PagerFilters : f = pager.filter
  BY <1>1 DEF PagerOK
<1> DEFINE limit == EffectiveLimit(pager.limit)
           offset == pager.offset
           n == Cardinality(Matching(f))
<1>3. limit \in Nat /\ limit > 0
  BY ViewerAssumption DEF EffectiveLimit
<1>4. offset \in Nat /\ n \in Nat
  BY <1>1, FiniteTable, FS_CardinalityType DEF PagerOK
<1>5. PICK page \in ListClips(f, limit, offset) :
        pager' = [pager EXCEPT !.offset = @ + Len(page), !.seen = @ \cup ToSet(page),
                               !.done = (page = << >>)]
  BY <1>2 DEF NextPage
<1> HIDE DEF limit, offset, n
<1>6. PICK s \in NewestFirst(Matching(f)) : page = Window(s, limit, offset)
  BY DEF ListClips
<1> DEFINE m == Len(page)
<1>7. /\ page \in Seq(Matching(f))
      /\ \A i \in 1..m : offset + i \in 1..n /\ page[i] = s[offset + i]
      /\ m < limit => n <= offset + m
  BY <1>3, <1>4, <1>6, FiniteTable, WindowIs DEF n
<1>8. m \in Nat /\ ToSet(page) = {page[i] : i \in 1..m}
  BY <1>7 DEF ToSet
<1>9. ToSet(page) \subseteq Clips
  BY <1>7, <1>8, FiniteTable DEF Indexed
<1> HIDE DEF m
<1>10. /\ pager'.filter = f /\ pager'.limit = pager.limit /\ pager'.present = pager.present
       /\ pager'.offset = offset + m /\ pager'.seen = pager.seen \cup ToSet(page)
       /\ pager'.done = (page = << >>)
  BY <1>1, <1>2, <1>5 DEF PagerOK, offset, m
<1>11. PagerOK'
  <2>1. pager' \in [limit : PageLimits, filter : PagerFilters, offset : Nat,
                    seen : SUBSET Clips, present : SUBSET Clips, done : BOOLEAN]
    <3> DEFINE to == offset + m
               got == pager.seen \cup ToSet(page)
               over == (page = << >>)
    <3>1. to \in Nat /\ got \in SUBSET Clips /\ over \in BOOLEAN
      BY <1>1, <1>4, <1>8, <1>9 DEF PagerOK
    <3>2. pager' = [pager EXCEPT !.offset = to, !.seen = got, !.done = over]
      BY <1>5 DEF offset, m
    <3> HIDE DEF to, got, over
    <3> QED
      BY <1>1, <3>1, <3>2 DEF PagerOK
  <2>2. (pager.present \subseteq Matching(pager.filter))'
    BY <1>1, <1>2, <1>10 DEF PagerOK, Matching, Matches, Indexed
  <2> QED
    BY <2>1, <2>2 DEF PagerOK
\* Where a clip that was there and has not been got yet is.
<1>12. ASSUME NEW c \in pager.present, c \notin pager.seen, ~Tied(c, f)
       PROVE  /\ Cardinality(Ahead(c, f)) \in Nat /\ Cardinality(Ahead(c, f)) < n
              /\ c \in ToSet(page) \/ offset + m <= Cardinality(Ahead(c, f))
  <2>1. c \in Matching(f) /\ offset <= Cardinality(Ahead(c, f))
    BY <1>1, <1>2, <1>12 DEF PagerOK, NonePassed, offset
  <2>2. PICK i \in 1..n : s[i] = c
    BY <2>1, FiniteTable, ListingIs DEF n
  <2>3. Cardinality(Ahead(c, f)) = i - 1
    BY <1>12, <2>2, PlaceOf DEF n
  <2>4. i \in Nat /\ offset < i /\ i <= n
    BY <1>4, <2>1, <2>2, <2>3
  <2>5. CASE i <= offset + m
    <3>1. i - offset \in 1..m /\ offset + (i - offset) = i
      BY <1>4, <1>8, <2>4, <2>5
    <3>2. page[i - offset] = c
      BY <1>7, <2>2, <3>1
    <3>3. c \in ToSet(page)
      BY <1>8, <3>1, <3>2
    <3> QED
      BY <1>4, <2>3, <2>4, <3>3
  <2>6. CASE ~(i <= offset + m)
    BY <1>4, <1>8, <2>3, <2>4, <2>6
  <2> QED
    BY <2>5, <2>6
<1>13. \A c \in Clips : Tied(c, f)' <=> Tied(c, f)
  <2>1. Matching(f)' = Matching(f)
    BY <1>1 DEF Matching, Matches, Indexed
  <2> QED
    BY <2>1 DEF Tied
<1>14. \A c \in pager.present : c \in Clips
  BY <1>1 DEF PagerOK
<1>15. NonePassed'
  <2> SUFFICES ASSUME NEW c \in pager.present, c \notin pager.seen, c \notin ToSet(page), ~Tied(c, f)
               PROVE  offset + m <= Cardinality(Ahead(c, f)')
    BY <1>10, <1>13, <1>14 DEF NonePassed
  <2>1. Ahead(c, f)' = Ahead(c, f)
    BY <1>1 DEF Ahead, Matching, Matches, Newer, Indexed
  <2> QED
    BY <1>12, <2>1
<1>16. page = << >> => AllGot'
  <2> SUFFICES ASSUME page = << >>, NEW c \in pager.present, c \notin pager.seen, ~Tied(c, f)
               PROVE  FALSE
    BY <1>10, <1>13, <1>14 DEF AllGot
  <2>1. m = 0 /\ ToSet(page) = {}
    BY <1>8 DEF m
  <2>2. n <= offset
    BY <1>3, <1>4, <1>7, <2>1
  <2> QED
    BY <1>4, <1>12, <2>1, <2>2
<1> QED
  BY <1>10, <1>11, <1>15, <1>16 DEF PagingInv

LEMMA InitPagingInv == Init => PagingInv
BY DEF Init, PagingInv

LEMMA NextPagingInv == TableOK /\ PagingInv /\ [Next]_vars => PagingInv'
<1> SUFFICES ASSUME TableOK, PagingInv, [Next]_vars PROVE PagingInv'
  OBVIOUS
<1>1. TableOK' /\ KeepsRows
  BY NextKeepsRows
<1>2. CASE NextPage
  BY <1>2, NextPageKeepsPaging
<1>3. ASSUME NEW l \in PageLimits, NEW f \in PagerFilters, BeginPaging(l, f)
      PROVE  PagingInv'
  <2>1. pager' = [limit |-> l, filter |-> f, offset |-> 0, seen |-> {}, done |-> FALSE,
                  present |-> Matching(f)]
    BY <1>3 DEF BeginPaging
  <2>2. Matching(f)' = Matching(f) /\ Matching(f) \in SUBSET Clips
    BY <1>3 DEF BeginPaging, tableVars, Matching, Matches, Indexed
  <2>3. PagerOK'
    BY <2>1, <2>2 DEF PagerOK
  <2>4. NonePassed'
    <3> SUFFICES ASSUME NEW c PROVE 0 <= Cardinality(Ahead(c, f)')
      BY <2>1 DEF NonePassed
    <3>1. Ahead(c, f)' \in SUBSET Clips
      BY DEF Ahead, Matching, Indexed
    <3> QED
      BY <3>1, ViewerAssumption, FS_Subset, FS_CardinalityType
  <2> QED
    BY <2>1, <2>3, <2>4 DEF PagingInv
<1>4. CASE pager' = pager
  BY <1>1, <1>4, PagingKept
<1>5. CASE Store
  BY <1>4, <1>5 DEF Store, UpsertClip, Relabel
<1>6. CASE Browse
  BY <1>4, <1>6
     DEF Browse, QueryMenu, MenuArrives, MenuFails, Choose, Query, Lose, Arrive, Click, Navigate, openModal, closeModal
<1> QED
  BY <1>2, <1>3, <1>4, <1>5, <1>6 DEF Next, Page, vars

(* A client that has come to an empty page has got every clip there was when it  *)
(* began, except a clip that starts with another (PagesMissNothing).           *)
THEOREM PagingIsComplete == Spec => []PagesMissNothing
<1>1. Spec => [](TableOK /\ PagingInv)
  <2>1. TableOK /\ PagingInv /\ [Next]_vars => (TableOK /\ PagingInv)'
    BY NextKeepsRows, NextPagingInv
  <2> QED
    BY InitTableOK, InitPagingInv, <2>1, PTL DEF Spec
<1>2. TableOK /\ PagingInv => PagesMissNothing
  BY DEF PagingInv, AllGot, PagesMissNothing
<1> QED
  BY <1>1, <1>2, PTL
=============================================================================
