--------------------------- MODULE ThumbnailProofs ---------------------------
(***************************************************************************)
(* Proofs, for any clips, batches and faults, of the shape of the generator's    *)
(* state, that a clip flagged ready has its thumbnail, and that none is made       *)
(* twice: see TypeOK, ReadyHasFile and NotMadeTwice in Thumbnail.                 *)
(***************************************************************************)
EXTENDS Thumbnail, FiniteSetTheorems, SequenceTheorems, TLAPS

-----------------------------------------------------------------------------
(* Lemmas about what a query returns, and what is left of it. *)

\* A listing names clips of the set, each once; so does its beginning.
LEMMA ListingIs ==
  ASSUME NEW S, IsFiniteSet(S), NEW limit \in Nat, NEW s \in NewestFirst(S),
         NEW b, b = AtMost(limit, s)
  PROVE  /\ b \in Seq(S) /\ Len(b) <= limit
         /\ Len(b) = IF limit < Cardinality(S) THEN limit ELSE Cardinality(S)
         /\ \A i, j \in 1..Len(b) : i # j => b[i] # b[j]
<1> DEFINE n == Cardinality(S)
           k == IF limit < n THEN limit ELSE n
<1>1. n \in Nat
  BY FS_CardinalityType
<1>2. s \in [1..n -> S] /\ \A i, j \in 1..n : i # j => s[i] # s[j]
  BY DEF NewestFirst, SetToSeqs
<1>3. Len(s) = n /\ s \in Seq(S)
  BY <1>1, <1>2
<1>4. k \in Nat /\ k <= n /\ k <= limit /\ b = SubSeq(s, 1, k)
  BY <1>1, <1>3 DEF AtMost
<1> HIDE DEF n, k
<1>5. \A i \in 1..k : s[i] \in S
  BY <1>1, <1>2, <1>4
<1>6. /\ b \in Seq(S) /\ Len(b) = (IF 1 <= k THEN k - 1 + 1 ELSE 0)
      /\ \A i \in 1..k - 1 + 1 : b[i] = s[1 + i - 1]
  BY <1>4, <1>5, SubSeqProperties
<1>7. Len(b) = k /\ \A i \in 1..k : b[i] = s[i]
  BY <1>4, <1>6
<1>8. \A i, j \in 1..k : i # j => b[i] # b[j]
  BY <1>1, <1>2, <1>4, <1>7
<1> QED
  BY <1>4, <1>6, <1>7, <1>8 DEF n, k

\* A listing longer than U, or of all there is, goes beyond U.
LEMMA ListingReaches ==
  ASSUME NEW S, IsFiniteSet(S), NEW U, IsFiniteSet(U), NEW c \in S, c \notin U,
         NEW limit \in Nat, Cardinality(U) < limit,
         NEW s \in NewestFirst(S), NEW b, b = AtMost(limit, s)
  PROVE  \E i \in 1..Len(b) : b[i] \notin U
<1> DEFINE k == Len(b)
<1>1. /\ b \in Seq(S) /\ k = (IF limit < Cardinality(S) THEN limit ELSE Cardinality(S))
      /\ \A i, j \in 1..k : i # j => b[i] # b[j]
  BY ListingIs
<1>2. k \in Nat /\ IsFiniteSet(1..k) /\ Cardinality(1..k) = k
  <2>1. k \in Nat
    BY <1>1
  <2> HIDE DEF k
  <2> QED
    BY <2>1, FS_Interval
<1>3. SUFFICES ASSUME \A i \in 1..k : b[i] \in U PROVE FALSE
  OBVIOUS
<1>4. b \in [1..k -> U] /\ b \in [1..k -> S \ {c}]
  <2>1. b \in [1..k -> S]
    BY <1>1
  <2> HIDE DEF k
  <2> QED
    BY <1>3, <2>1
<1> HIDE DEF k
<1>5. Cardinality(U) \in Nat /\ Cardinality(S) \in Nat
  BY FS_CardinalityType
<1>6. CASE k = limit
  BY <1>1, <1>2, <1>4, <1>6, FS_PigeonHole
<1>7. CASE k = Cardinality(S)
  <2>1. IsFiniteSet(S \ {c}) /\ Cardinality(S \ {c}) < k
    <3>1. IsFiniteSet(S \ {c}) /\ Cardinality(S \ {c}) = k - 1
      BY <1>7, FS_RemoveElement
    <3> QED
      BY <1>2, <3>1
  <2> QED
    BY <1>1, <1>2, <1>4, <2>1, FS_PigeonHole
<1> QED
  BY <1>1, <1>6, <1>7

LEMMA LeastNatural ==
  ASSUME NEW T \in SUBSET Nat, T # {}
  PROVE  \E n \in T : \A m \in T : n <= m
<1> DEFINE R == {p \in Nat \X Nat : p[1] < p[2]}
<1>1. IsWellFoundedOn(R, Nat)
  BY NatLessThanWellFounded DEF OpToRel
<1>2. \A x, y \in Nat : << x, y >> \in R <=> x < y
  OBVIOUS
<1> HIDE DEF R
<1>3. PICK x \in T : \A y \in T : ~ (<< y, x >> \in R)
  BY <1>1, WFMin
<1>4. SUFFICES ASSUME NEW m \in T PROVE x <= m
  OBVIOUS
<1>5. x \in Nat /\ m \in Nat /\ ~(m < x)
  BY <1>2, <1>3
<1> QED
  BY <1>5

\* A listing of all but the oldest clip goes on with that one.
LEMMA ListingGrows ==
  ASSUME NEW T \in SUBSET Nat, IsFiniteSet(T), NEW c \in T, \A d \in T : c <= d,
         NEW s \in NewestFirst(T \ {c})
  PROVE  NewestFirst(T) # {}
<1> DEFINE n == Cardinality(T \ {c})
           r == [i \in 1..n + 1 |-> IF i = n + 1 THEN c ELSE s[i]]
<1>1. n \in Nat /\ Cardinality(T) = n + 1
  <2>1. n = Cardinality(T) - 1 /\ Cardinality(T) \in Nat /\ n \in Nat
    BY FS_RemoveElement, FS_CardinalityType
  <2> QED
    BY <2>1
<1>2. /\ s \in [1..n -> T \ {c}]
      /\ \A i, j \in 1..n : i # j => s[i] # s[j]
      /\ \A i, j \in 1..n : i < j => s[i] > s[j]
  <2>1. s \in [1..n -> T \ {c}] /\ \A i, j \in 1..n : i # j => s[i] # s[j]
    BY DEF NewestFirst, SetToSeqs
  <2> QED
    BY <2>1 DEF NewestFirst
<1> HIDE DEF n
<1>3. r[n + 1] = c /\ \A i \in 1..n : r[i] = s[i] /\ r[i] \in T /\ r[i] > c
  <2>1. r[n + 1] = c
    BY <1>1
  <2>2. ASSUME NEW i \in 1..n PROVE r[i] = s[i] /\ r[i] \in T /\ r[i] > c
    <3>1. r[i] = s[i] /\ s[i] \in T \ {c}
      BY <1>1, <1>2
    <3>2. s[i] \in Nat /\ c \in Nat /\ c <= s[i] /\ s[i] # c
      BY <3>1
    <3>3. s[i] > c
      BY <3>2
    <3> HIDE DEF r
    <3> QED
      BY <3>1, <3>3
  <2> QED
    BY <2>1, <2>2
<1>4. r \in [1..n + 1 -> T]
  <2>1. ASSUME NEW i \in 1..n + 1 PROVE r[i] \in T
    <3>1. i = n + 1 \/ i \in 1..n
      BY <1>1
    <3> QED
      BY <1>3, <3>1
  <2>2. r = [i \in 1..n + 1 |-> r[i]]
    OBVIOUS
  <2> HIDE DEF r
  <2> QED
    BY <2>1, <2>2
<1> HIDE DEF r
<1>5. \A i, j \in 1..n + 1 : i < j => r[i] > r[j]
  <2> SUFFICES ASSUME NEW i \in 1..n + 1, NEW j \in 1..n + 1, i < j PROVE r[i] > r[j]
    OBVIOUS
  <2>1. i \in 1..n /\ (j = n + 1 \/ j \in 1..n)
    BY <1>1
  <2> QED
    BY <1>2, <1>3, <2>1
<1>6. \A i, j \in 1..n + 1 : i # j => r[i] # r[j]
  <2> SUFFICES ASSUME NEW i \in 1..n + 1, NEW j \in 1..n + 1, i # j PROVE r[i] # r[j]
    OBVIOUS
  <2>1. r[i] \in Nat /\ r[j] \in Nat /\ (i < j \/ j < i)
    <3>1. r[i] \in T /\ r[j] \in T
      BY <1>4
    <3>2. i < j \/ j < i
      BY <1>1
    <3> QED
      BY <3>1, <3>2
  <2>2. r[i] > r[j] \/ r[j] > r[i]
    BY <1>5, <2>1
  <2> QED
    BY <2>1, <2>2
<1>7. r \in NewestFirst(T)
  BY <1>1, <1>4, <1>5, <1>6 DEF NewestFirst, SetToSeqs
<1> QED
  BY <1>7

\* There is always a listing: no query goes without an answer.
LEMMA SomeListing ==
  ASSUME NEW S \in SUBSET Nat, IsFiniteSet(S)
  PROVE  NewestFirst(S) # {}
<1> DEFINE Bad == {T \in SUBSET S : NewestFirst(T) = {}}
           Sizes == {Cardinality(T) : T \in Bad}
<1>1. \A T \in SUBSET S : IsFiniteSet(T) /\ Cardinality(T) \in Nat
  BY FS_Subset, FS_CardinalityType
<1>2. SUFFICES ASSUME Bad # {} PROVE FALSE
  OBVIOUS
<1>3. PICK n \in Sizes : \A m \in Sizes : n <= m
  <2>1. Sizes \in SUBSET Nat /\ Sizes # {}
    BY <1>1, <1>2
  <2> QED
    BY <2>1, LeastNatural
<1>4. PICK T \in Bad : Cardinality(T) = n
  BY <1>3
<1>5. T # {}
  <2>1. << >> \in NewestFirst({})
    BY FS_EmptySet DEF NewestFirst, SetToSeqs
  <2> QED
    BY <1>4, <2>1
<1>6. PICK c \in T : \A d \in T : c <= d
  <2>1. T \in SUBSET Nat
    BY <1>4
  <2> QED
    BY <1>5, <2>1, LeastNatural
<1>7. NewestFirst(T \ {c}) # {}
  <2>1. T \ {c} \in SUBSET S /\ Cardinality(T \ {c}) = n - 1
    BY <1>1, <1>4, <1>6, FS_RemoveElement
  <2>2. n \in Nat /\ ~(n <= Cardinality(T \ {c}))
    BY <1>1, <1>4, <2>1
  <2>3. T \ {c} \notin Bad
    BY <1>3, <2>2
  <2> QED
    BY <2>1, <2>3
<1>8. NewestFirst(T) # {}
  BY <1>1, <1>4, <1>6, <1>7, ListingGrows
<1> QED
  BY <1>4, <1>8

-----------------------------------------------------------------------------
(* Types. *)

SetsOK ==
  /\ indexed \subseteq Clips /\ ready \subseteq indexed /\ jpg \subseteq indexed
  /\ tmp \in [Clips -> {"none", "partial", "whole"}]
  /\ pc \in {"off", "query", "clip", "encode", "rename", "mark"}
  /\ faults \in 0..MaxFaults

BatchOK == batch \in Seq(indexed) /\ Len(batch) <= Batch

\* The clip in hand is the first of the batch.
InHand == pc \in {"encode", "rename", "mark"} => batch # << >>

\* What is left of the batch is each clip once, and none has been flagged.
BatchFresh ==
  /\ \A i \in 1..Len(batch) : batch[i] \notin ready
  /\ \A i, j \in 1..Len(batch) : i # j => batch[i] # batch[j]

\* What is about to be flagged has its file.
FileMade == pc = "mark" => Head(batch) \in jpg

IInv == SetsOK /\ BatchOK /\ InHand /\ BatchFresh /\ FileMade /\ ReadyHasFile

LEMMA InitIInv == Init => IInv
BY ThumbnailAssumption
   DEF Init, IInv, SetsOK, BatchOK, InHand, BatchFresh, FileMade, ReadyHasFile

\* The first clip and the rest of a batch.
LEMMA FirstOfBatch ==
  ASSUME IInv, batch # << >>
  PROVE  /\ Head(batch) \in indexed /\ Head(batch) \in Clips /\ Head(batch) \notin ready
         /\ Tail(batch) \in Seq(indexed) /\ Len(Tail(batch)) <= Batch
         /\ \A i \in 1..Len(Tail(batch)) :
              Tail(batch)[i] \notin ready /\ Tail(batch)[i] # Head(batch)
         /\ \A i, j \in 1..Len(Tail(batch)) : i # j => Tail(batch)[i] # Tail(batch)[j]
<1>1. batch \in Seq(indexed) /\ Len(batch) \in Nat /\ Len(batch) >= 1
  BY DEF IInv, BatchOK
<1>2. /\ Head(batch) = batch[1] /\ Head(batch) \in indexed
      /\ Tail(batch) \in Seq(indexed) /\ Len(Tail(batch)) = Len(batch) - 1
      /\ \A i \in 1..Len(Tail(batch)) : Tail(batch)[i] = batch[i + 1]
  BY <1>1, HeadTailProperties
<1>3. \A i \in 1..Len(Tail(batch)) : i + 1 \in 1..Len(batch) /\ i + 1 # 1
  BY <1>1, <1>2
<1>4. Head(batch) \in Clips /\ Len(Tail(batch)) <= Batch
  <2>1. indexed \subseteq Clips /\ Len(batch) <= Batch /\ Batch \in Nat
    BY ThumbnailAssumption DEF IInv, SetsOK, BatchOK
  <2>2. Head(batch) \in Clips
    BY <1>2, <2>1
  <2> DEFINE n == Len(batch)
             m == Len(Tail(batch))
  <2>3. n \in Nat /\ n <= Batch /\ m = n - 1
    BY <1>1, <1>2, <2>1
  <2> HIDE DEF n, m
  <2>4. m <= Batch
    BY <2>1, <2>3
  <2> QED
    BY <2>2, <2>4 DEF m
<1>5. 1 \in 1..Len(batch) /\ Head(batch) \notin ready
  BY <1>1, <1>2 DEF IInv, BatchFresh
<1>6. \A i \in 1..Len(Tail(batch)) : Tail(batch)[i] \notin ready /\ Tail(batch)[i] # Head(batch)
  BY <1>2, <1>3, <1>5 DEF IInv, BatchFresh
<1>7. \A i, j \in 1..Len(Tail(batch)) : i # j => Tail(batch)[i] # Tail(batch)[j]
  <2> SUFFICES ASSUME NEW i \in 1..Len(Tail(batch)), NEW j \in 1..Len(Tail(batch)), i # j
               PROVE  Tail(batch)[i] # Tail(batch)[j]
    OBVIOUS
  <2>1. i + 1 \in 1..Len(batch) /\ j + 1 \in 1..Len(batch) /\ i + 1 # j + 1
    BY <1>3
  <2> QED
    BY <1>2, <2>1 DEF IInv, BatchFresh
<1> QED
  BY <1>2, <1>4, <1>5, <1>6, <1>7

LEMMA NextIInv == IInv /\ [Next]_vars => IInv'
<1> SUFFICES ASSUME IInv, [Next]_vars PROVE IInv'
  OBVIOUS
<1> USE DEF IInv
<1>1. ASSUME NEW c \in Clips, IndexClip(c) PROVE IInv'
  <2>1. /\ indexed' = indexed \cup {c}
        /\ UNCHANGED << ready, jpg, tmp, pc, batch, faults >>
    BY <1>1 DEF IndexClip
  <2>2. batch \in Seq(indexed')
    BY <2>1, SeqMonotonic DEF BatchOK
  <2> QED
    BY <2>1, <2>2 DEF SetsOK, BatchOK, InHand, BatchFresh, FileMade, ReadyHasFile
<1>2. CASE RunPending
  BY <1>2 DEF RunPending, SetsOK, BatchOK, InHand, BatchFresh, FileMade, ReadyHasFile
<1>3. CASE Query
  <2>1. UNCHANGED << indexed, ready, jpg, tmp >> /\ pc' \in {"off", "clip"}
        /\ faults' \in 0..MaxFaults
    BY <1>3, ThumbnailAssumption DEF Query, Fault, SetsOK
  <2>2. CASE batch' = batch
    BY <2>1, <2>2 DEF SetsOK, BatchOK, InHand, BatchFresh, FileMade, ReadyHasFile
  <2>3. CASE batch' \in ClipsWithoutThumbnail(Batch)
    <3>1. PICK s \in NewestFirst(indexed \ ready) : batch' = AtMost(Batch, s)
      BY <2>3 DEF ClipsWithoutThumbnail
    <3>2. IsFiniteSet(indexed \ ready)
      BY FS_Subset, ThumbnailAssumption DEF SetsOK
    <3>3. /\ batch' \in Seq(indexed \ ready) /\ Len(batch') <= Batch
          /\ \A i, j \in 1..Len(batch') : i # j => batch'[i] # batch'[j]
      BY <3>1, <3>2, ListingIs, ThumbnailAssumption
    <3>4. batch' \in Seq(indexed) /\ \A i \in 1..Len(batch') : batch'[i] \in indexed \ ready
      BY <3>3, SeqMonotonic, ElementOfSeq
    <3> QED
      BY <2>1, <3>3, <3>4 DEF SetsOK, BatchOK, InHand, BatchFresh, FileMade, ReadyHasFile
  <2> QED
    BY <1>3, <2>2, <2>3 DEF Query
<1>4. CASE NextClip
  BY <1>4 DEF NextClip, SetsOK, BatchOK, InHand, BatchFresh, FileMade, ReadyHasFile
<1>5. CASE Encode
  <2>1. batch # << >>
    BY <1>5 DEF Encode, InHand
  <2>2. /\ UNCHANGED << indexed, ready, jpg >> /\ faults' \in 0..MaxFaults
        /\ pc' \in {"rename", "clip"} /\ (pc' = "rename" => batch' = batch)
        /\ batch' \in {batch, Tail(batch)}
    BY <1>5, ThumbnailAssumption DEF Encode, Skip, Fault, SetsOK
  <2>3. tmp' \in [Clips -> {"none", "partial", "whole"}]
    BY <1>5 DEF Encode, SetsOK
  <2> QED
    BY <2>1, <2>2, <2>3, FirstOfBatch
       DEF SetsOK, BatchOK, InHand, BatchFresh, FileMade, ReadyHasFile
<1>6. CASE Rename
  <2>1. batch # << >>
    BY <1>6 DEF Rename, InHand
  <2>2. /\ UNCHANGED << indexed, ready >> /\ faults' \in 0..MaxFaults
        /\ \/ pc' = "mark" /\ batch' = batch /\ jpg' = jpg \cup {Head(batch)}
           \/ pc' = "clip" /\ batch' = Tail(batch) /\ jpg' = jpg
    BY <1>6, ThumbnailAssumption DEF Rename, Skip, Fault, SetsOK
  <2>3. tmp' \in [Clips -> {"none", "partial", "whole"}]
    BY <1>6 DEF Rename, SetsOK
  <2> QED
    BY <2>1, <2>2, <2>3, FirstOfBatch
       DEF SetsOK, BatchOK, InHand, BatchFresh, FileMade, ReadyHasFile
<1>7. CASE MarkThumbnailReady
  <2>1. batch # << >> /\ Head(batch) \in jpg
    BY <1>7 DEF MarkThumbnailReady, InHand, FileMade
  <2>2. /\ UNCHANGED << indexed, jpg, tmp >> /\ faults' \in 0..MaxFaults
        /\ pc' = "clip" /\ batch' = Tail(batch)
        /\ ready' \in {ready, ready \cup {Head(batch)}}
    BY <1>7, ThumbnailAssumption DEF MarkThumbnailReady, Skip, Fault, SetsOK
  <2> QED
    BY <2>1, <2>2, FirstOfBatch
       DEF SetsOK, BatchOK, InHand, BatchFresh, FileMade, ReadyHasFile
<1>8. CASE Crash
  <2>1. /\ UNCHANGED << indexed, ready, jpg >> /\ faults' \in 0..MaxFaults
        /\ pc' = "off" /\ batch' = << >>
    BY <1>8, ThumbnailAssumption DEF Crash, Fault, SetsOK
  <2>2. tmp' \in [Clips -> {"none", "partial", "whole"}]
    BY <1>8 DEF Crash, SetsOK
  <2> QED
    BY <2>1, <2>2, ThumbnailAssumption
       DEF SetsOK, BatchOK, InHand, BatchFresh, FileMade, ReadyHasFile
<1>9. CASE UNCHANGED vars
  BY <1>9 DEF vars, SetsOK, BatchOK, InHand, BatchFresh, FileMade, ReadyHasFile
<1> QED
  BY <1>1, <1>2, <1>3, <1>4, <1>5, <1>6, <1>7, <1>8, <1>9 DEF Next, Generate

-----------------------------------------------------------------------------
(* The generator's variables keep their shape, a batch never exceeds its limit,   *)
(* and only clips in the table are flagged (TypeOK; RunPending).                  *)
THEOREM TypeCorrect == Spec => []TypeOK
<1>1. IInv => TypeOK
  BY DEF IInv, SetsOK, BatchOK, TypeOK
<1> QED
  BY InitIInv, NextIInv, <1>1, PTL DEF Spec

(* Whatever is indexed and flagged, the query has an answer to choose, though   *)
(* perhaps an empty one (ClipsWithoutThumbnail).                               *)
THEOREM QueriesHaveAnswers == Spec => [](ClipsWithoutThumbnail(Batch) # {})
<1>1. TypeOK => ClipsWithoutThumbnail(Batch) # {}
  <2> SUFFICES ASSUME TypeOK PROVE ClipsWithoutThumbnail(Batch) # {}
    OBVIOUS
  <2>1. indexed \ ready \in SUBSET Nat /\ IsFiniteSet(indexed \ ready)
    BY ThumbnailAssumption, FS_Subset DEF TypeOK
  <2>2. PICK s \in NewestFirst(indexed \ ready) : TRUE
    BY <2>1, SomeListing
  <2>3. AtMost(Batch, s) \in ClipsWithoutThumbnail(Batch)
    BY DEF ClipsWithoutThumbnail
  <2> QED
    BY <2>3
<1> QED
  BY <1>1, TypeCorrect, PTL

(* Across crashes and failures between the rename and the flag, a clip flagged  *)
(* ready has a complete thumbnail (ReadyHasFile; generate).                     *)
THEOREM ReadyClipsHaveThumbnails == Spec => []ReadyHasFile
BY InitIInv, NextIInv, PTL DEF Spec, IInv

(* However long ago the batch was listed, a clip in hand has not been flagged      *)
(* meanwhile (NotMadeTwice; RunPending).                                        *)
THEOREM NoThumbnailTwice == Spec => []NotMadeTwice
<1>1. IInv => NotMadeTwice
  <2> SUFFICES ASSUME IInv, pc \in {"encode", "rename"} PROVE Head(batch) \notin ready
    BY DEF NotMadeTwice
  <2> QED
    BY FirstOfBatch DEF IInv, InHand
<1> QED
  BY InitIInv, NextIInv, <1>1, PTL DEF Spec

(* Clips that never get a thumbnail do not keep the others from theirs: while     *)
(* fewer than a batch are unreadable, a query that does not fail either finds     *)
(* only such clips left, or lists one that can be read (RunPending).  This is     *)
(* the progress EveryClipGetsThumbnail rests on; a batch of unreadable clips      *)
(* would be listed over and over.                                              *)
BatchAdvances ==
  [][ /\ pc = "query" /\ pc' # "query" /\ faults' = faults
      /\ Cardinality(Unreadable) < Batch
      /\ ~ (indexed \ ready \subseteq Unreadable)
      => pc' = "clip" /\ \E i \in DOMAIN batch' : batch'[i] \notin Unreadable ]_vars

THEOREM UnreadableDoNotStarve == Spec => BatchAdvances
<1>1. ASSUME TypeOK, Next, pc = "query", pc' # "query", faults' = faults,
             Cardinality(Unreadable) < Batch, ~ (indexed \ ready \subseteq Unreadable)
      PROVE  pc' = "clip" /\ \E i \in DOMAIN batch' : batch'[i] \notin Unreadable
  <2>1. Query
    BY <1>1 DEF Next, Generate, IndexClip, RunPending, NextClip, Encode, Rename,
                MarkThumbnailReady, Crash, Fault, TypeOK
  <2>2. batch' \in ClipsWithoutThumbnail(Batch) /\ pc' = (IF batch' = << >> THEN "off" ELSE "clip")
    BY <1>1, <2>1 DEF Query, Fault, TypeOK
  <2>3. PICK s \in NewestFirst(indexed \ ready) : batch' = AtMost(Batch, s)
    BY <2>2 DEF ClipsWithoutThumbnail
  <2>4. PICK c \in indexed \ ready : c \notin Unreadable
    BY <1>1
  <2>5. IsFiniteSet(indexed \ ready) /\ IsFiniteSet(Unreadable) /\ Batch \in Nat
    BY <1>1, FS_Subset, ThumbnailAssumption DEF TypeOK
  <2>6. PICK i \in 1..Len(batch') : batch'[i] \notin Unreadable
    BY <1>1, <2>3, <2>4, <2>5, ListingReaches
  <2>7. batch' \in Seq(indexed \ ready)
    BY <2>3, <2>5, ListingIs
  <2>8. batch' # << >> /\ i \in DOMAIN batch'
    BY <2>7
  <2> QED
    BY <2>2, <2>6, <2>8
<1> QED
  <2>1. TypeOK /\ [Next]_vars =>
          [ /\ pc = "query" /\ pc' # "query" /\ faults' = faults
            /\ Cardinality(Unreadable) < Batch
            /\ ~ (indexed \ ready \subseteq Unreadable)
            => pc' = "clip" /\ \E i \in DOMAIN batch' : batch'[i] \notin Unreadable ]_vars
    BY <1>1
  <2> QED
    BY <2>1, TypeCorrect, PTL DEF Spec, BatchAdvances
=============================================================================
