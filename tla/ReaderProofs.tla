---------------------------- MODULE ReaderProofs ----------------------------
(***************************************************************************)
(* What is proved of the parts of the reader that share the run of         *)
(* MCReader: the voices and their samples, the themes of the tabs, the     *)
(* header, sheets and keys around the book, the fingers on an image, the   *)
(* pages of the book, the bookmarks, and the spreads of a fixed layout.    *)
(* Reading aloud is in SpeechProofs.                                       *)
(* Each part has an inductive invariant of its own; what holds of it holds *)
(* of the whole since a step changes the state of one part only.           *)
(***************************************************************************)
EXTENDS MCReader, SequenceTheorems, FiniteSetTheorems, WellFoundedInduction, TLAPS

(***************************************************************************)
(* Voices and samples                                                      *)
(***************************************************************************)

SampleRecords == [stage : {"none", "fetch", "blob", "play", "over"}, disposed : BOOLEAN, url : BOOLEAN,
                  audio : BOOLEAN, sounds : BOOLEAN, timer : BOOLEAN]
PreviewRecords == [current : 0 .. MaxSamples, sample : [Samples -> SampleRecords], used : 0 .. MaxSamples,
                   lease : -1 .. MaxSamples, narrating : BOOLEAN, previewing : BOOLEAN, error : BOOLEAN,
                   mounted : BOOLEAN]

(* Only the current sample has an element, a URL or a sound, and it has not *)
(* been disposed of.                                                        *)
SamplesIdle(s) ==
    \A i \in Samples :
      /\ (s.sample[i].url \/ s.sample[i].audio \/ s.sample[i].sounds) => s.current = i
      /\ s.current = i => ~s.sample[i].disposed

(* The lease and previewRef agree on the sample, and a narrator that sounds *)
(* holds the lease.                                                         *)
LeaseAgrees(s) ==
    /\ s.current # 0 => s.lease = s.current
    /\ s.lease \in Samples => s.current = s.lease
    /\ s.narrating => s.lease = Narrator

PreviewOK(s) == s \in PreviewRecords /\ SamplesIdle(s) /\ LeaseAgrees(s)

VoicesOK ==
    /\ voices \in [list : SUBSET Voices, preferred : Voices, ref : Voices, merging : BOOLEAN, attempt : Nat,
                   stage : {"idle", "request", "wait"}, loading : BOOLEAN, error : BOOLEAN, mounted : BOOLEAN]
    /\ voices.ref = voices.preferred
    /\ PreferredListed /\ LoadingShown

PreviewInv == PreviewOK(preview) /\ VoicesOK

(* finishPreview of a sample that lives leaves nothing of it.  The lease may *)
(* already be another's when it runs.                                        *)
LEMMA FinishFacts ==
  ASSUME NEW s \in PreviewRecords, NEW i \in Samples, ~s.sample[i].disposed
  PROVE  /\ FinishPreview(s, i) \in PreviewRecords
         /\ FinishPreview(s, i).lease = IF s.lease = i THEN NoLease ELSE s.lease
         /\ FinishPreview(s, i).current = IF s.current = i THEN 0 ELSE s.current
         /\ FinishPreview(s, i).narrating = s.narrating
         /\ FinishPreview(s, i).sample[i] =
              [s.sample[i] EXCEPT !.disposed = TRUE, !.url = FALSE, !.audio = FALSE, !.sounds = FALSE,
                                  !.timer = FALSE]
         /\ \A j \in Samples \ {i} : FinishPreview(s, i).sample[j] = s.sample[j]
<1> DEFINE r == [s.sample[i] EXCEPT !.disposed = TRUE, !.url = FALSE, !.audio = FALSE, !.sounds = FALSE,
                                    !.timer = FALSE]
           l == IF s.lease = i THEN NoLease ELSE s.lease
           c == IF s.current = i THEN 0 ELSE s.current
           p == s.previewing /\ ~(s.current = i /\ s.mounted)
           f == [s.sample EXCEPT ![i] = r]
<1>1. r \in SampleRecords
  <2>1. s.sample[i] \in SampleRecords
    BY DEF PreviewRecords
  <2>2. QED
    BY <2>1 DEF SampleRecords
<1>2. l \in -1 .. MaxSamples /\ c \in 0 .. MaxSamples
  BY VoiceAssumption DEF PreviewRecords, NoLease
<1>3. p \in BOOLEAN
  BY Zenon
<1>4. f \in [Samples -> SampleRecords]
  BY <1>1 DEF PreviewRecords
<1>5. FinishPreview(s, i) = [s EXCEPT !.sample = f, !.lease = l, !.current = c, !.previewing = p]
  BY DEF FinishPreview, PreviewRecords
<1>6. f[i] = r /\ \A j \in Samples \ {i} : f[j] = s.sample[j]
  BY DEF PreviewRecords
<1> HIDE DEF r, l, c, p, f
<1>7. [s EXCEPT !.sample = f, !.lease = l, !.current = c, !.previewing = p] \in PreviewRecords
  BY <1>2, <1>3, <1>4 DEF PreviewRecords
<1>8. QED
  BY <1>5, <1>6, <1>7 DEF PreviewRecords, r, l, c

(* finishPreview of the current sample, while the lease is its own. *)
LEMMA FinishKeeps ==
  ASSUME NEW s, PreviewOK(s), NEW i \in Samples
  PROVE  PreviewOK(FinishPreview(s, i))
<1>1. CASE s.sample[i].disposed
  BY <1>1 DEF FinishPreview
<1>2. CASE ~s.sample[i].disposed
  <2> DEFINE n == FinishPreview(s, i)
  <2>1. s \in PreviewRecords /\ SamplesIdle(s) /\ LeaseAgrees(s) /\ s.sample[i] \in SampleRecords
    BY DEF PreviewOK, PreviewRecords
  <2>2. /\ n \in PreviewRecords
        /\ n.lease = IF s.lease = i THEN NoLease ELSE s.lease
        /\ n.current = IF s.current = i THEN 0 ELSE s.current
        /\ n.narrating = s.narrating
        /\ n.sample[i] = [s.sample[i] EXCEPT !.disposed = TRUE, !.url = FALSE, !.audio = FALSE, !.sounds = FALSE,
                                             !.timer = FALSE]
        /\ \A j \in Samples \ {i} : n.sample[j] = s.sample[j]
    BY <1>2, <2>1, FinishFacts
  <2> HIDE DEF n
  <2>3. ~n.sample[i].url /\ ~n.sample[i].audio /\ ~n.sample[i].sounds
    BY <2>1, <2>2 DEF SampleRecords
  <2>4. SamplesIdle(n)
    <3> SUFFICES ASSUME NEW j \in Samples
                 PROVE  /\ (n.sample[j].url \/ n.sample[j].audio \/ n.sample[j].sounds) => n.current = j
                        /\ n.current = j => ~n.sample[j].disposed
      BY DEF SamplesIdle
    <3>1. CASE j = i
      BY <3>1, <2>2, <2>3 DEF Samples
    <3>2. CASE j # i
      BY <3>2, <2>1, <2>2 DEF SamplesIdle, Samples
    <3>3. QED
      BY <3>1, <3>2
  <2>5. LeaseAgrees(n)
    BY <2>1, <2>2 DEF LeaseAgrees, Samples, NoLease, Narrator
  <2>6. QED
    BY <2>2, <2>4, <2>5 DEF PreviewOK, n
<1>3. QED
  BY <1>1, <1>2

LEMMA StopKeeps ==
  ASSUME NEW s, PreviewOK(s)
  PROVE  PreviewOK(StopPreview(s)) /\ StopPreview(s).current = 0
<1>1. s \in PreviewRecords /\ SamplesIdle(s)
  BY DEF PreviewOK
<1>2. CASE s.current = 0
  BY <1>2 DEF StopPreview
<1>3. CASE s.current # 0
  <2> DEFINE i == s.current
  <2>1. i \in Samples
    BY <1>1, <1>3, VoiceAssumption DEF PreviewRecords, Samples
  <2>2. ~s.sample[i].disposed
    BY <1>1, <2>1 DEF SamplesIdle
  <2>3. StopPreview(s) = FinishPreview(s, i)
    BY <1>3 DEF StopPreview
  <2> HIDE DEF i
  <2>4. FinishPreview(s, i).current = IF s.current = i THEN 0 ELSE s.current
    BY <1>1, <2>1, <2>2, FinishFacts
  <2>5. PreviewOK(FinishPreview(s, i))
    BY <2>1, FinishKeeps
  <2>6. QED
    BY <2>3, <2>4, <2>5 DEF i
<1>4. QED
  BY <1>2, <1>3

(* A change of one sample's stage, and of nothing else. *)
LEMMA StageKeeps ==
  ASSUME NEW s, PreviewOK(s), NEW i \in Samples, NEW g \in {"none", "fetch", "blob", "play", "over"}
  PROVE  /\ PreviewOK([s EXCEPT !.sample[i].stage = g])
         /\ [s EXCEPT !.sample[i].stage = g].current = s.current
<1>1. s \in PreviewRecords /\ SamplesIdle(s) /\ LeaseAgrees(s) /\ s.sample[i] \in SampleRecords
  BY DEF PreviewOK, PreviewRecords
<1> DEFINE n == [s EXCEPT !.sample[i].stage = g]
           r == [s.sample[i] EXCEPT !.stage = g]
<1>2. /\ r \in SampleRecords /\ r.url = s.sample[i].url /\ r.audio = s.sample[i].audio
      /\ r.sounds = s.sample[i].sounds /\ r.disposed = s.sample[i].disposed
  BY <1>1 DEF SampleRecords
<1>3. n = [s EXCEPT !.sample = [s.sample EXCEPT ![i] = r]]
  BY <1>1 DEF PreviewRecords
<1> HIDE DEF r, n
<1>4. /\ n \in PreviewRecords /\ n.current = s.current /\ n.lease = s.lease /\ n.narrating = s.narrating
      /\ n.sample[i] = r /\ \A j \in Samples \ {i} : n.sample[j] = s.sample[j]
  BY <1>1, <1>2, <1>3 DEF PreviewRecords
<1>5. SamplesIdle(n)
  <2> SUFFICES ASSUME NEW j \in Samples
               PROVE  /\ (n.sample[j].url \/ n.sample[j].audio \/ n.sample[j].sounds) => n.current = j
                      /\ n.current = j => ~n.sample[j].disposed
    BY DEF SamplesIdle
  <2>1. CASE j = i
    BY <2>1, <1>1, <1>2, <1>4 DEF SamplesIdle
  <2>2. CASE j # i
    BY <2>2, <1>1, <1>4 DEF SamplesIdle
  <2>3. QED
    BY <2>1, <2>2
<1>6. LeaseAgrees(n)
  BY <1>1, <1>4 DEF LeaseAgrees
<1>7. QED
  BY <1>4, <1>5, <1>6 DEF PreviewOK, n

(* error is no part of what is to be shown. *)
LEMMA ErrorKeeps ==
  ASSUME NEW s, PreviewOK(s), NEW e \in BOOLEAN
  PROVE  PreviewOK([s EXCEPT !.error = e])
  BY DEF PreviewOK, PreviewRecords, SamplesIdle, LeaseAgrees

LEMMA FailsKeeps ==
  ASSUME NEW s, PreviewOK(s), NEW i \in Samples
  PROVE  PreviewOK(SampleFails(s, i))
<1> DEFINE ended == [s EXCEPT !.sample[i].stage = "over"]
<1>1. PreviewOK(ended)
  <2> DEFINE g == "over"
  <2>1. g \in {"none", "fetch", "blob", "play", "over"}
    OBVIOUS
  <2> HIDE DEF g
  <2>2. PreviewOK([s EXCEPT !.sample[i].stage = g])
    BY <2>1, StageKeeps
  <2>3. QED
    BY <2>2 DEF g
<1>2. SampleFails(s, i) = IF Active(s, i) THEN [FinishPreview(ended, i) EXCEPT !.error = TRUE] ELSE ended
  BY DEF SampleFails
<1> HIDE DEF ended
<1> DEFINE f == FinishPreview(ended, i)
<1>3. PreviewOK(f)
  BY <1>1, FinishKeeps
<1> HIDE DEF f
<1>4. PreviewOK([f EXCEPT !.error = TRUE])
  BY <1>3, ErrorKeeps
<1>5. QED
  BY <1>1, <1>2, <1>4 DEF f

(* A press that starts a sample: the lease is the new sample's, whoever held it. *)
LEMMA SampleStarts ==
  ASSUME PreviewOK(preview), HandlePreview, preview.current = 0
  PROVE  PreviewOK(preview')
<1> DEFINE i == preview.used + 1
           r == [NewSample EXCEPT !.stage = "fetch", !.timer = TRUE]
           opened == [preview EXCEPT !.current = i, !.used = i, !.previewing = TRUE, !.error = FALSE, !.sample[i] = r]
           f == [preview.sample EXCEPT ![i] = r]
<1>1. preview \in PreviewRecords /\ SamplesIdle(preview) /\ LeaseAgrees(preview)
  BY DEF PreviewOK
<1>2. preview.used < MaxSamples /\ preview' = [ClaimTTSAudioFocus(opened, i) EXCEPT !.narrating = FALSE]
  BY DEF HandlePreview
<1>3. i \in Samples /\ i \in 0 .. MaxSamples /\ i \in -1 .. MaxSamples /\ i # 0
  BY <1>1, <1>2, VoiceAssumption DEF PreviewRecords, Samples
<1>4. /\ r \in SampleRecords /\ ~r.disposed /\ ~r.url /\ ~r.audio /\ ~r.sounds
  BY DEF NewSample, SampleRecords
<1>5. preview.lease \in {NoLease, Narrator}
  BY <1>1, VoiceAssumption DEF PreviewRecords, LeaseAgrees, Samples, NoLease, Narrator
<1>6. opened = [preview EXCEPT !.current = i, !.used = i, !.previewing = TRUE, !.error = FALSE, !.sample = f]
  BY <1>1 DEF PreviewRecords
<1>7. /\ f \in [Samples -> SampleRecords] /\ f[i] = r
      /\ \A j \in Samples \ {i} : f[j] = preview.sample[j]
  BY <1>1, <1>3, <1>4 DEF PreviewRecords
<1> HIDE DEF i, r, f, opened
<1>8. opened \in PreviewRecords /\ opened.lease = preview.lease /\ opened.sample = f /\ opened.current = i
  BY <1>1, <1>3, <1>6, <1>7 DEF PreviewRecords
<1>9. preview' = [opened EXCEPT !.lease = i, !.narrating = FALSE]
  <2>1. CASE preview.lease = NoLease
    <3>1. ClaimTTSAudioFocus(opened, i) = [opened EXCEPT !.lease = i]
      BY <1>8, <2>1 DEF ClaimTTSAudioFocus, NoLease, Narrator
    <3>2. QED
      BY <1>2, <1>8, <3>1 DEF PreviewRecords
  <2>2. CASE preview.lease = Narrator
    <3>1. ClaimTTSAudioFocus(opened, i) = [[opened EXCEPT !.lease = i] EXCEPT !.narrating = FALSE]
      BY <1>8, <1>3, <2>2 DEF ClaimTTSAudioFocus, NoLease, Narrator, Samples
    <3>2. QED
      BY <1>2, <1>8, <3>1 DEF PreviewRecords
  <2>3. QED
    BY <1>5, <2>1, <2>2
<1>10. /\ preview' \in PreviewRecords /\ preview'.sample = f /\ preview'.current = i /\ preview'.lease = i
       /\ preview'.narrating = FALSE
  BY <1>3, <1>8, <1>9 DEF PreviewRecords
<1>11. SamplesIdle(preview')
  <2> SUFFICES ASSUME NEW j \in Samples
               PROVE  /\ (f[j].url \/ f[j].audio \/ f[j].sounds) => i = j
                      /\ i = j => ~f[j].disposed
    BY <1>10 DEF SamplesIdle
  <2>1. CASE j = i
    BY <2>1, <1>4, <1>7
  <2>2. CASE j # i
    <3>1. preview.current # j
      BY DEF Samples
    <3>2. QED
      BY <3>1, <2>2, <1>1, <1>7 DEF SamplesIdle
  <2>3. QED
    BY <2>1, <2>2
<1>12. LeaseAgrees(preview')
  BY <1>10 DEF LeaseAgrees
<1>13. QED
  BY <1>10, <1>11, <1>12 DEF PreviewOK

(* The narrator's claim ends the sample that had the lease, after the lease is *)
(* already the narrator's.                                                     *)
LEMMA NarratorClaims ==
  ASSUME PreviewOK(preview), NarratorPlays
  PROVE  PreviewOK(preview')
<1> DEFINE claimed == [preview EXCEPT !.lease = Narrator]
<1>1. preview \in PreviewRecords /\ SamplesIdle(preview) /\ LeaseAgrees(preview)
  BY DEF PreviewOK
<1>2. /\ claimed \in PreviewRecords /\ claimed.sample = preview.sample /\ claimed.current = preview.current
      /\ claimed.lease = Narrator
  BY <1>1, VoiceAssumption DEF PreviewRecords, Narrator
<1>3. preview' = [ClaimTTSAudioFocus(preview, Narrator) EXCEPT !.narrating = TRUE]
  BY DEF NarratorPlays
<1>4. CASE preview.lease \in {NoLease, Narrator}
  <2>1. ClaimTTSAudioFocus(preview, Narrator) = claimed
    <3>1. [claimed EXCEPT !.narrating = FALSE] = claimed
      BY <1>1 DEF NarratorPlays, PreviewRecords
    <3>2. QED
      BY <1>4, <3>1 DEF ClaimTTSAudioFocus, NoLease, Narrator
  <2>2. preview.current = 0
    BY <1>1, <1>4 DEF LeaseAgrees, PreviewRecords, NoLease, Narrator
  <2> HIDE DEF claimed
  <2>3. /\ preview' \in PreviewRecords /\ preview'.sample = preview.sample /\ preview'.current = 0
        /\ preview'.lease = Narrator
    BY <1>2, <1>3, <2>1, <2>2 DEF PreviewRecords
  <2>4. SamplesIdle(preview')
    BY <1>1, <2>2, <2>3 DEF SamplesIdle
  <2>5. LeaseAgrees(preview')
    BY <2>3 DEF LeaseAgrees, Samples, Narrator
  <2>6. QED
    BY <2>3, <2>4, <2>5 DEF PreviewOK
<1>5. CASE preview.lease \notin {NoLease, Narrator}
  <2> DEFINE i == preview.lease
             n == FinishPreview(claimed, i)
  <2>1. i \in Samples /\ preview.current = i /\ i # 0
    BY <1>1, <1>5, VoiceAssumption DEF LeaseAgrees, PreviewRecords, Samples, NoLease, Narrator
  <2>2. ~claimed.sample[i].disposed /\ claimed.sample[i] \in SampleRecords
    BY <1>1, <1>2, <2>1 DEF SamplesIdle, PreviewRecords
  <2>3. ClaimTTSAudioFocus(preview, Narrator) = n
    <3>1. ClaimTTSAudioFocus(preview, Narrator) = StopPreview(claimed)
      BY <1>5 DEF ClaimTTSAudioFocus
    <3>2. QED
      BY <3>1, <1>2, <2>1 DEF StopPreview
  <2> HIDE DEF claimed, i
  <2>4. /\ n \in PreviewRecords
        /\ n.lease = IF claimed.lease = i THEN NoLease ELSE claimed.lease
        /\ n.current = IF claimed.current = i THEN 0 ELSE claimed.current
        /\ n.narrating = claimed.narrating
        /\ n.sample[i] = [claimed.sample[i] EXCEPT !.disposed = TRUE, !.url = FALSE, !.audio = FALSE,
                                                  !.sounds = FALSE, !.timer = FALSE]
        /\ \A j \in Samples \ {i} : n.sample[j] = claimed.sample[j]
    BY <1>2, <2>1, <2>2, FinishFacts
  <2> HIDE DEF n
  <2>5. n.lease = Narrator /\ n.current = 0
    BY <1>2, <2>1, <2>4 DEF Samples, Narrator
  <2>6. ~n.sample[i].url /\ ~n.sample[i].audio /\ ~n.sample[i].sounds
    BY <2>2, <2>4 DEF SampleRecords
  <2>7. /\ preview' \in PreviewRecords /\ preview'.sample = n.sample /\ preview'.current = 0
        /\ preview'.lease = Narrator
    BY <1>3, <2>3, <2>4, <2>5 DEF PreviewRecords
  <2>8. SamplesIdle(preview')
    <3> SUFFICES ASSUME NEW j \in Samples
                 PROVE  ~n.sample[j].url /\ ~n.sample[j].audio /\ ~n.sample[j].sounds /\ j # 0
      BY <2>7 DEF SamplesIdle
    <3>1. CASE j = i
      BY <3>1, <2>6 DEF Samples
    <3>2. CASE j # i
      BY <3>2, <1>1, <1>2, <2>1, <2>4 DEF SamplesIdle, Samples
    <3>3. QED
      BY <3>1, <3>2
  <2>9. LeaseAgrees(preview')
    BY <2>7 DEF LeaseAgrees, Samples, Narrator
  <2>10. QED
    BY <2>7, <2>8, <2>9 DEF PreviewOK
<1>6. QED
  BY <1>4, <1>5

LEMMA NarratorReleases ==
  ASSUME PreviewOK(preview), NarratorStops
  PROVE  PreviewOK(preview')
<1>1. preview \in PreviewRecords /\ SamplesIdle(preview) /\ LeaseAgrees(preview) /\ preview.lease = Narrator
  BY DEF PreviewOK, LeaseAgrees, NarratorStops
<1>2. preview' = [preview EXCEPT !.narrating = FALSE, !.lease = NoLease]
  BY <1>1 DEF NarratorStops, PreviewRecords
<1>3. /\ preview' \in PreviewRecords /\ preview'.sample = preview.sample /\ preview'.current = preview.current
      /\ preview'.lease = NoLease /\ preview'.narrating = FALSE
  <2>1. NoLease \in -1 .. MaxSamples
    BY VoiceAssumption DEF NoLease
  <2>2. QED
    BY <1>1, <1>2, <2>1 DEF PreviewRecords
<1>4. SamplesIdle(preview')
  BY <1>1, <1>3 DEF SamplesIdle
<1>5. LeaseAgrees(preview')
  BY <1>1, <1>3 DEF LeaseAgrees, Samples, NoLease, Narrator, PreviewRecords
<1>6. QED
  BY <1>3, <1>4, <1>5 DEF PreviewOK

(* The answer of a request, and of the element, to a sample that is still the *)
(* current one and to one that is not.                                        *)
LEMMA SampleSteps ==
  ASSUME PreviewOK(preview), NEW i \in Samples,
         FetchSettles(i) \/ BlobSettles(i) \/ PlaySettles(i) \/ SampleEnds(i) \/ SampleTimesOut(i)
  PROVE  PreviewOK(preview')
<1> DEFINE stages == {"none", "fetch", "blob", "play", "over"}
           f == FinishPreview(preview, i)
<1>1. /\ preview \in PreviewRecords /\ SamplesIdle(preview) /\ LeaseAgrees(preview)
      /\ preview.sample[i] \in SampleRecords
  BY DEF PreviewOK, PreviewRecords
<1>2. PreviewOK(f) /\ PreviewOK(SampleFails(preview, i))
  BY FinishKeeps, FailsKeeps
<1>3. \A g \in stages : PreviewOK([preview EXCEPT !.sample[i].stage = g])
  BY StageKeeps
<1>4. \A e \in BOOLEAN : PreviewOK([f EXCEPT !.error = e])
  <2> HIDE DEF f
  <2>1. QED
    BY <1>2, ErrorKeeps
<1>5. ASSUME NEW r \in SampleRecords, r.disposed = preview.sample[i].disposed,
             (r.url \/ r.audio \/ r.sounds) => preview.current = i,
             preview' = [preview EXCEPT !.sample[i] = r]
      PROVE  PreviewOK(preview')
  <2>1. /\ preview' \in PreviewRecords /\ preview'.current = preview.current /\ preview'.lease = preview.lease
        /\ preview'.narrating = preview.narrating /\ preview'.sample[i] = r
        /\ \A j \in Samples \ {i} : preview'.sample[j] = preview.sample[j]
    BY <1>1, <1>5 DEF PreviewRecords
  <2>2. SamplesIdle(preview')
    <3> SUFFICES ASSUME NEW j \in Samples
                 PROVE  /\ (preview'.sample[j].url \/ preview'.sample[j].audio \/ preview'.sample[j].sounds)
                              => preview'.current = j
                        /\ preview'.current = j => ~preview'.sample[j].disposed
      BY DEF SamplesIdle
    <3>1. CASE j = i
      BY <3>1, <1>1, <1>5, <2>1 DEF SamplesIdle
    <3>2. CASE j # i
      BY <3>2, <1>1, <2>1 DEF SamplesIdle
    <3>3. QED
      BY <3>1, <3>2
  <2>3. LeaseAgrees(preview')
    BY <1>1, <2>1 DEF LeaseAgrees
  <2>4. QED
    BY <2>1, <2>2, <2>3 DEF PreviewOK
<1> HIDE DEF f
<1>6. CASE FetchSettles(i)
  <2> DEFINE g == IF Active(preview, i) THEN "blob" ELSE "over"
  <2>1. g \in stages
    OBVIOUS
  <2>2. preview' = SampleFails(preview, i) \/ preview' = [preview EXCEPT !.sample[i].stage = g]
    BY <1>6 DEF FetchSettles
  <2> HIDE DEF g
  <2>3. QED
    BY <1>2, <1>3, <2>1, <2>2
<1>7. CASE BlobSettles(i)
  <2>1. CASE preview' = SampleFails(preview, i)
    BY <2>1, <1>2
  <2>2. CASE BlobArrives(i) /\ Active(preview, i)
    <3> DEFINE r == [preview.sample[i] EXCEPT !.stage = "play", !.url = TRUE, !.audio = TRUE, !.timer = FALSE]
    <3>1. r \in SampleRecords /\ r.disposed = preview.sample[i].disposed /\ preview.current = i
      BY <1>1, <2>2 DEF SampleRecords, Active
    <3>2. preview' = [preview EXCEPT !.sample[i] = r]
      BY <2>2, <1>1 DEF BlobArrives, PreviewRecords
    <3> HIDE DEF r
    <3>3. QED
      BY <3>1, <3>2, <1>5
  <2>3. CASE BlobArrives(i) /\ ~Active(preview, i)
    BY <2>3, <1>3 DEF BlobArrives
  <2>4. QED
    BY <1>7, <2>1, <2>2, <2>3 DEF BlobSettles
<1>8. CASE PlaySettles(i)
  <2>1. CASE preview' = SampleFails(preview, i)
    BY <2>1, <1>2
  <2>2. CASE preview' = [preview EXCEPT !.sample[i] = [@ EXCEPT !.stage = "over", !.sounds = Active(preview, i)]]
    <3> DEFINE a == Active(preview, i)
               r == [preview.sample[i] EXCEPT !.stage = "over", !.sounds = a]
    <3>1. a \in BOOLEAN /\ (a => preview.current = i)
      BY Zenon DEF Active
    <3>2. preview' = [preview EXCEPT !.sample[i] = r]
      BY <2>2, <1>1 DEF PreviewRecords
    <3> HIDE DEF a
    <3>3. /\ r \in SampleRecords /\ r.disposed = preview.sample[i].disposed /\ r.url = preview.sample[i].url
          /\ r.audio = preview.sample[i].audio /\ r.sounds = a
      BY <3>1, <1>1 DEF SampleRecords
    <3> HIDE DEF r
    <3>4. (r.url \/ r.audio \/ r.sounds) => preview.current = i
      BY <3>1, <3>3, <1>1 DEF SamplesIdle
    <3>5. QED
      BY <3>2, <3>3, <3>4, <1>5
  <2>3. QED
    BY <1>8, <2>1, <2>2 DEF PlaySettles
<1>9. CASE SampleEnds(i)
  <2> DEFINE e == f.error \/ Active(preview, i)
  <2>1. e \in BOOLEAN
    BY Zenon
  <2>2. preview' = f \/ preview' = [f EXCEPT !.error = e]
    BY <1>9, <1>2 DEF SampleEnds, f, PreviewOK, PreviewRecords
  <2> HIDE DEF e
  <2>3. QED
    BY <2>1, <2>2, <1>2, <1>4
<1>10. CASE SampleTimesOut(i)
  BY <1>10, <1>2, <1>4 DEF SampleTimesOut, f
<1>11. QED
  BY <1>6, <1>7, <1>8, <1>9, <1>10

(* The list of voices, which no sample touches. *)
LEMMA VoiceSteps ==
  ASSUME VoicesOK, LoadVoices \/ VoicesAnswer \/ VoicesRetry \/ HandleVoiceChange \/ PreferredMerges \/ ReaderUnmounts
  PROVE  VoicesOK'
<1> USE DEF VoicesOK, PreferredListed, LoadingShown
<1>1. CASE LoadVoices
  BY <1>1 DEF LoadVoices
<1>2. CASE VoicesAnswer
  <2>1. ASSUME NEW l \in SUBSET Voices, NEW e \in BOOLEAN,
               voices' = LoadEnds([voices EXCEPT !.list = MergeVoicesWithFallback(l, voices.ref), !.error = e])
        PROVE  VoicesOK'
    <3> DEFINE m == MergeVoicesWithFallback(l, voices.ref)
               b == voices.loading /\ ~voices.mounted
    <3>1. m \in SUBSET Voices /\ voices.preferred \in m
      BY VoiceAssumption DEF MergeVoicesWithFallback
    <3>2. b \in BOOLEAN /\ (voices.mounted => ~b)
      BY Zenon
    <3>3. voices' = [voices EXCEPT !.list = m, !.error = e, !.stage = "idle", !.loading = b]
      BY <2>1 DEF LoadEnds
    <3> HIDE DEF m, b
    <3>4. QED
      BY <3>1, <3>2, <3>3
  <2>2. CASE voices' = LoadEnds(voices)
    <3> DEFINE b == voices.loading /\ ~voices.mounted
    <3>1. b \in BOOLEAN /\ (voices.mounted => ~b)
      BY Zenon
    <3>2. voices' = [voices EXCEPT !.stage = "idle", !.loading = b]
      BY <2>2 DEF LoadEnds
    <3> HIDE DEF b
    <3>3. QED
      BY <3>1, <3>2
  <2>3. CASE voices.mounted /\ voices.stage = "request" /\ voices' = [voices EXCEPT !.stage = "wait"]
    BY <2>3
  <2>4. CASE \E l \in SUBSET Voices :
               voices' = LoadEnds(IF voices.mounted
                                  THEN [voices EXCEPT !.list = MergeVoicesWithFallback(l, voices.ref), !.error = FALSE]
                                  ELSE voices)
    <3>1. PICK l \in SUBSET Voices :
               voices' = LoadEnds(IF voices.mounted
                                  THEN [voices EXCEPT !.list = MergeVoicesWithFallback(l, voices.ref), !.error = FALSE]
                                  ELSE voices)
      BY <2>4
    <3>2. CASE voices.mounted
      <4>1. voices' = LoadEnds([voices EXCEPT !.list = MergeVoicesWithFallback(l, voices.ref), !.error = FALSE])
        BY <3>1, <3>2
      <4>2. QED
        BY <4>1, <2>1
    <3>3. CASE ~voices.mounted
      BY <3>1, <3>3, <2>2
    <3>4. QED
      BY <3>2, <3>3
  <2>5. CASE voices' = LoadEnds([voices EXCEPT !.list = MergeVoicesWithFallback(@, voices.ref), !.error = TRUE])
    <3> DEFINE l == voices.list
    <3>1. l \in SUBSET Voices
      OBVIOUS
    <3>2. voices' = LoadEnds([voices EXCEPT !.list = MergeVoicesWithFallback(l, voices.ref), !.error = TRUE])
      BY <2>5
    <3> HIDE DEF l
    <3>3. QED
      BY <3>1, <3>2, <2>1
  <2>6. QED
    BY <1>2, <2>2, <2>3, <2>4, <2>5 DEF VoicesAnswer
<1>3. CASE VoicesRetry
  <2>1. CASE voices.mounted
    <3> DEFINE a == voices.attempt + 1
    <3>1. a \in Nat
      OBVIOUS
    <3>2. voices' = [voices EXCEPT !.stage = "request", !.attempt = a] /\ voices.stage = "wait"
      BY <1>3, <2>1 DEF VoicesRetry
    <3> HIDE DEF a
    <3>3. QED
      BY <2>1, <3>1, <3>2
  <2>2. CASE ~voices.mounted
    <3> DEFINE b == voices.loading /\ ~voices.mounted
    <3>1. b \in BOOLEAN
      BY Zenon
    <3>2. voices' = [voices EXCEPT !.stage = "idle", !.loading = b]
      BY <1>3, <2>2 DEF VoicesRetry, LoadEnds
    <3> HIDE DEF b
    <3>3. QED
      BY <2>2, <3>1, <3>2
  <2>3. QED
    BY <2>1, <2>2
<1>4. CASE HandleVoiceChange
  BY <1>4 DEF HandleVoiceChange
<1>5. CASE PreferredMerges
  <2> DEFINE m == MergeVoicesWithFallback(voices.list, voices.preferred)
  <2>1. m \in SUBSET Voices /\ voices.preferred \in m
    BY VoiceAssumption DEF MergeVoicesWithFallback
  <2>2. voices' = [voices EXCEPT !.merging = FALSE, !.list = m]
    BY <1>5 DEF PreferredMerges
  <2> HIDE DEF m
  <2>3. QED
    BY <2>1, <2>2
<1>6. CASE ReaderUnmounts
  BY <1>6 DEF ReaderUnmounts
<1>7. QED
  BY <1>1, <1>2, <1>3, <1>4, <1>5, <1>6

LEMMA PreviewStarts == PreviewInit => PreviewInv
<1> SUFFICES ASSUME PreviewInit PROVE PreviewOK(preview) /\ VoicesOK
  BY DEF PreviewInv
<1> DEFINE f == [i \in Samples |-> NewSample]
<1>1. /\ f \in [Samples -> SampleRecords]
      /\ \A i \in Samples : ~f[i].url /\ ~f[i].audio /\ ~f[i].sounds
  BY DEF SampleRecords, NewSample
<1>2. preview = [current |-> 0, sample |-> f, used |-> 0, lease |-> NoLease, narrating |-> FALSE,
                 previewing |-> FALSE, error |-> FALSE, mounted |-> TRUE]
  BY DEF PreviewInit
<1> HIDE DEF f
<1>3. 0 \in 0 .. MaxSamples /\ NoLease \in -1 .. MaxSamples
  BY VoiceAssumption DEF NoLease
<1>4. preview \in PreviewRecords
  BY <1>1, <1>2, <1>3 DEF PreviewRecords
<1>5. SamplesIdle(preview) /\ LeaseAgrees(preview)
  BY <1>1, <1>2 DEF SamplesIdle, LeaseAgrees, Samples, NoLease
<1>6. VoicesOK
  BY VoiceAssumption DEF PreviewInit, VoicesOK, PreferredListed, LoadingShown
<1>7. QED
  BY <1>4, <1>5, <1>6 DEF PreviewOK

LEMMA PreviewSteps ==
  ASSUME PreviewInv, PreviewNext \/ UNCHANGED <<preview, voices>>
  PROVE  PreviewInv'
<1> USE DEF PreviewInv
<1>1. CASE UNCHANGED <<preview, voices>>
  BY <1>1 DEF PreviewOK, SamplesIdle, LeaseAgrees, VoicesOK, PreferredListed, LoadingShown
<1>2. ASSUME UNCHANGED voices PROVE VoicesOK'
  BY <1>2 DEF VoicesOK, PreferredListed, LoadingShown
<1>3. CASE HandlePreview
  <2>1. UNCHANGED voices
    BY <1>3 DEF HandlePreview
  <2>2. CASE preview.current = 0
    BY <1>2, <1>3, <2>1, <2>2, SampleStarts
  <2>3. CASE preview.current # 0
    <3>1. preview' = StopPreview(preview)
      BY <1>3, <2>3 DEF HandlePreview
    <3>2. QED
      BY <1>2, <2>1, <3>1, StopKeeps
  <2>4. QED
    BY <2>2, <2>3
<1>4. CASE NarratorPlays
  <2>1. UNCHANGED voices
    BY <1>4 DEF NarratorPlays
  <2>2. QED
    BY <1>2, <1>4, <2>1, NarratorClaims
<1>5. CASE NarratorStops
  <2>1. UNCHANGED voices
    BY <1>5 DEF NarratorStops
  <2>2. QED
    BY <1>2, <1>5, <2>1, NarratorReleases
<1>6. CASE SelectorUnmounts
  <2> DEFINE n == [preview EXCEPT !.mounted = FALSE]
  <2>1. UNCHANGED voices /\ preview' = StopPreview(n)
    BY <1>6 DEF SelectorUnmounts
  <2>2. PreviewOK(n)
    BY DEF PreviewOK, PreviewRecords, SamplesIdle, LeaseAgrees
  <2> HIDE DEF n
  <2>3. QED
    BY <1>2, <2>1, <2>2, StopKeeps
<1>7. CASE \E i \in Samples :
             FetchSettles(i) \/ BlobSettles(i) \/ PlaySettles(i) \/ SampleEnds(i) \/ SampleTimesOut(i)
  <2>1. PICK i \in Samples :
             FetchSettles(i) \/ BlobSettles(i) \/ PlaySettles(i) \/ SampleEnds(i) \/ SampleTimesOut(i)
    BY <1>7
  <2>2. UNCHANGED voices
    BY <2>1 DEF FetchSettles, BlobSettles, PlaySettles, SampleEnds, SampleTimesOut
  <2>3. QED
    BY <1>2, <2>1, <2>2, SampleSteps
<1>8. CASE HandleVoiceChange
  <2>1. preview' = StopPreview(preview)
    BY <1>8 DEF HandleVoiceChange
  <2>2. QED
    BY <1>8, <2>1, StopKeeps, VoiceSteps
<1>9. CASE LoadVoices \/ VoicesAnswer \/ VoicesRetry \/ PreferredMerges \/ ReaderUnmounts
  <2>1. UNCHANGED preview
    BY <1>9 DEF LoadVoices, VoicesAnswer, VoicesRetry, PreferredMerges, ReaderUnmounts
  <2>2. PreviewOK(preview')
    BY <2>1
  <2>3. VoicesOK'
    BY <1>9, VoiceSteps
  <2>4. QED
    BY <2>2, <2>3
<1>10. QED
  BY <1>1, <1>3, <1>4, <1>5, <1>6, <1>7, <1>8, <1>9 DEF PreviewNext

LEMMA PreviewImplies == PreviewInv => PreviewSafe
<1> SUFFICES ASSUME PreviewInv PROVE PreviewSafe
  OBVIOUS
<1> USE DEF PreviewInv, PreviewOK
<1>1. OneVoice
  BY DEF OneVoice, SamplesIdle, LeaseAgrees, Samples, Narrator
<1>2. SampleReleased
  BY DEF SampleReleased, SamplesIdle, LeaseAgrees
<1>3. QED
  BY <1>1, <1>2 DEF VoicesOK, PreviewSafe

(***************************************************************************)
(* Themes                                                                  *)
(***************************************************************************)

(* STRING is all a preset can be; the three are named since the provers do not *)
(* know what STRING holds.                                                     *)
Names == STRING \cup {"light", "dark", NoPreset}
ThemeRecords == [preset : Names, size : Int]
Colors == {ThemeColorForAppMode(b) : b \in BOOLEAN} \cup {ThemeColorForPreset(p) : p \in Names}
RootRecords == [dark : BOOLEAN, preset : Names, active : Names, scheme : BOOLEAN, color : Colors]
StyleRecords == [paper : Colors, night : BOOLEAN, size : Int]
ViewRecords == [stage : {"none", "opened", "ready"}, styles : StyleRecords, overridden : BOOLEAN]
TabRecords == [app : Names, theme : ThemeRecords, ref : ThemeRecords, reading : BOOLEAN, listens : BOOLEAN,
               told : BOOLEAN, missed : BOOLEAN, due : BOOLEAN, view : ViewRecords, root : RootRecords]

(* The theme of a tab is one the sheet offers. *)
Normal(theme) == theme \in ThemeRecords /\ theme.preset \in Presets /\ theme.size \in SizeMin .. SizeMax

(* What the stores of a tab know of the item s. *)
StoresKnow(s, r) ==
    /\ (r.reading /\ ~r.told) => r.theme = GetSnapshot(s)
    /\ (~r.told /\ ~r.missed) => r.app = PresetOf(s)

(* The root agrees with itself: whichever of the two effects wrote it last, *)
(* the other would have written the same.                                   *)
RootAgrees(o) ==
    /\ (o.active = NoPreset /\ o.preset # NoPreset) =>
         o.color = ThemeColorForAppMode(o.preset = "dark") /\ o.scheme = (o.preset = "dark")
    /\ o.active # NoPreset => o.color = ThemeColorForPreset(o.active)
    /\ (o.active # NoPreset /\ o.preset = o.active) => o.scheme = (o.active = "dark")
    /\ o.preset \in Presets \cup {NoPreset}

(* What the effects that have run left of the theme. *)
EffectsLeft(r) ==
    /\ ~r.reading => r.root.active = NoPreset /\ ~r.due
    /\ (r.reading /\ ~r.due) =>
         /\ r.root.active = r.theme.preset /\ r.ref = r.theme
         /\ r.view.stage = "ready" =>
              r.view.styles = GetStylesheet(r.theme) /\ r.view.overridden = CleanInlineStyles(r.theme)

RowOK(r) ==
    /\ r \in TabRecords /\ Normal(r.theme) /\ Normal(r.ref) /\ r.app \in Presets
    /\ r.reading => r.listens
    /\ RootAgrees(r.root) /\ EffectsLeft(r)

TabOK(s, r) == RowOK(r) /\ StoresKnow(s, r)

ThemeInv ==
    /\ setting \in ThemeRecords
    /\ tabs = [t \in Tabs |-> tabs[t]]
    /\ \A t \in Tabs : TabOK(setting, tabs[t])

LEMMA PresetNames == Presets \subseteq Names /\ NoPreset \notin Presets /\ "light" \in Presets /\ "dark" \in Presets
  BY ThemeAssumption DEF Names

LEMMA ClampedFacts ==
  ASSUME NEW n \in Int
  PROVE  /\ Clamped(IF n = 0 THEN SizeDefault ELSE n) \in SizeMin .. SizeMax
         /\ Clamped(IF n = 0 THEN SizeDefault ELSE n) \in Int
         /\ n \in SizeMin .. SizeMax => Clamped(IF n = 0 THEN SizeDefault ELSE n) = n /\ n # 0
  BY ThemeAssumption DEF Clamped

(* normalizeReaderTheme holds the number in its range and keeps one that is in it. *)
LEMMA NormalizeFacts ==
  ASSUME NEW s \in ThemeRecords
  PROVE  /\ NormalizeReaderTheme(s) \in ThemeRecords
         /\ NormalizeReaderTheme(s).preset = s.preset
         /\ NormalizeReaderTheme(s).size \in SizeMin .. SizeMax
         /\ s.size \in SizeMin .. SizeMax => NormalizeReaderTheme(s) = s
<1> DEFINE n == Clamped(IF s.size = 0 THEN SizeDefault ELSE s.size)
<1>1. s.size \in Int
  BY DEF ThemeRecords
<1>2. n \in SizeMin .. SizeMax /\ n \in Int /\ (s.size \in SizeMin .. SizeMax => n = s.size)
  BY <1>1, ClampedFacts
<1>3. NormalizeReaderTheme(s) = [s EXCEPT !.size = n]
  BY DEF NormalizeReaderTheme
<1> HIDE DEF n
<1>4. QED
  BY <1>2, <1>3 DEF ThemeRecords

(* getSnapshot: a theme that is offered, the stored one if that is. *)
LEMMA SnapshotFacts ==
  ASSUME NEW s \in ThemeRecords
  PROVE  /\ PresetOf(s) \in Presets
         /\ Normal(GetSnapshot(s))
         /\ GetSnapshot(s).preset = PresetOf(s)
         /\ Normal(s) => GetSnapshot(s) = s /\ PresetOf(s) = s.preset
<1> DEFINE p == PresetOf(s)
           n == IF s.size = 0 THEN SizeDefault ELSE s.size
           b == [preset |-> p, size |-> n]
<1>1. p \in Presets /\ (s.preset \in Presets => p = s.preset)
  BY PresetNames DEF PresetOf, DefaultReaderTheme
<1>2. n \in Int /\ (s.size \in SizeMin .. SizeMax => n = s.size)
  BY ThemeAssumption DEF ThemeRecords
<1>3. GetSnapshot(s) = NormalizeReaderTheme(b)
  BY DEF GetSnapshot
<1> HIDE DEF p, n
<1>4. b \in ThemeRecords /\ b.preset = p /\ b.size = n
  BY <1>1, <1>2, PresetNames DEF ThemeRecords
<1>5. ASSUME Normal(s) PROVE b = s
  BY <1>1, <1>2, <1>5 DEF Normal, ThemeRecords
<1> HIDE DEF b
<1>6. Normal(GetSnapshot(s)) /\ GetSnapshot(s).preset = p
  BY <1>1, <1>3, <1>4, NormalizeFacts DEF Normal
<1>7. ASSUME Normal(s) PROVE GetSnapshot(s) = s /\ p = s.preset
  BY <1>1, <1>3, <1>4, <1>5, <1>7, NormalizeFacts DEF Normal
<1>8. QED
  BY <1>1, <1>6, <1>7 DEF p

(* Of the number that is shown only the number that is stored decides. *)
LEMMA SnapshotSize ==
  ASSUME NEW s \in ThemeRecords, NEW q \in ThemeRecords, s.size = q.size
  PROVE  GetSnapshot(s).size = GetSnapshot(q).size
<1> DEFINE n == IF s.size = 0 THEN SizeDefault ELSE s.size
           k == Clamped(IF n = 0 THEN SizeDefault ELSE n)
<1>1. ASSUME NEW z \in ThemeRecords, z.size = s.size PROVE GetSnapshot(z).size = k
  <2> DEFINE b == [preset |-> PresetOf(z), size |-> n]
  <2>1. GetSnapshot(z) = [b EXCEPT !.size = k]
    BY <1>1 DEF GetSnapshot, NormalizeReaderTheme
  <2> HIDE DEF k, n
  <2>2. QED
    BY <2>1
<1>2. QED
  BY <1>1

LEMMA ColorFacts ==
  /\ \A b \in BOOLEAN : ThemeColorForAppMode(b) \in Colors
  /\ \A p \in Names : ThemeColorForPreset(p) \in Colors
  BY DEF Colors

LEMMA StyleFacts ==
  ASSUME NEW theme \in ThemeRecords
  PROVE  GetStylesheet(theme) \in StyleRecords /\ CleanInlineStyles(theme) \in BOOLEAN
<1>1. PresetStyles(theme.preset) \in Colors
  BY ColorFacts DEF ThemeColorForPreset, ThemeRecords
<1>2. QED
  BY <1>1 DEF GetStylesheet, CleanInlineStyles, StyleRecords, ThemeRecords

LEMMA NoViewOK == NoView \in ViewRecords /\ NoView.stage = "none"
<1>1. <<"app", FALSE>> \in Colors
  BY ColorFacts DEF ThemeColorForAppMode
<1>2. NoStyles \in StyleRecords
  BY <1>1 DEF NoStyles, StyleRecords
<1>3. QED
  BY <1>2 DEF NoView, ViewRecords

LEMMA StartedOK ==
  ASSUME NEW s \in ThemeRecords
  PROVE  TabOK(s, Started(s))
<1> DEFINE p == PresetOf(s)
           n == GetSnapshot(s)
           v == NoView
           c == ThemeColorForAppMode(FALSE)
           o == [dark |-> FALSE, preset |-> NoPreset, active |-> NoPreset, scheme |-> FALSE, color |-> c]
           r == [app |-> p, theme |-> n, ref |-> n, reading |-> FALSE, listens |-> FALSE, told |-> FALSE,
                 missed |-> FALSE, due |-> FALSE, view |-> v, root |-> o]
<1>1. p \in Presets /\ p \in Names /\ Normal(n) /\ n \in ThemeRecords
  BY SnapshotFacts, PresetNames DEF Normal
<1>2. c \in Colors /\ v \in ViewRecords
  BY ColorFacts, NoViewOK
<1>3. Started(s) = r
  BY DEF Started
<1> HIDE DEF p, n, v, c
<1>4. o \in RootRecords /\ o.active = NoPreset /\ o.preset = NoPreset
  BY <1>2 DEF RootRecords, Names
<1> HIDE DEF o
<1>5. r \in TabRecords
  BY <1>1, <1>2, <1>4 DEF TabRecords
<1>6. QED
  BY <1>1, <1>3, <1>4, <1>5 DEF TabOK, RowOK, StoresKnow, RootAgrees, EffectsLeft, p, n

(* The stores of a tab read the item: they know it, told of it or not. *)
LEMMA ReadsKeep ==
  ASSUME NEW s \in ThemeRecords, NEW r, RowOK(r)
  PROVE  TabOK(s, ReaderReads(AppReads(r, s), s))
<1> DEFINE p == PresetOf(s)
           m == GetSnapshot(s)
           a == [r EXCEPT !.app = p, !.missed = FALSE]
           d == a.due \/ a.theme # m
           n == [a EXCEPT !.theme = m, !.due = d]
<1>1. p \in Presets /\ p \in Names /\ Normal(m) /\ m \in ThemeRecords
  BY SnapshotFacts, PresetNames DEF Normal
<1>2. AppReads(r, s) = a /\ ReaderReads(a, s) = IF ~a.reading THEN a ELSE n
  BY DEF AppReads, ReaderReads
<1> HIDE DEF p, m
<1>3. /\ a \in TabRecords /\ a.app = p /\ ~a.missed /\ a.theme = r.theme /\ a.ref = r.ref /\ a.reading = r.reading
      /\ a.listens = r.listens /\ a.told = r.told /\ a.due = r.due /\ a.view = r.view /\ a.root = r.root
  BY <1>1 DEF RowOK, TabRecords
<1> HIDE DEF a
<1>4. d \in BOOLEAN /\ (~d => a.theme = m /\ ~a.due)
  BY <1>3 DEF TabRecords
<1> HIDE DEF d
<1>5. /\ n \in TabRecords /\ n.app = p /\ ~n.missed /\ n.theme = m /\ n.ref = r.ref /\ n.reading = r.reading
      /\ n.listens = r.listens /\ n.told = r.told /\ n.due = d /\ n.view = r.view /\ n.root = r.root
  BY <1>1, <1>3, <1>4 DEF TabRecords
<1> HIDE DEF n
<1>6. CASE a.reading
  <2>1. StoresKnow(s, n)
    BY <1>5 DEF StoresKnow, p, m
  <2>2. EffectsLeft(n)
    BY <1>3, <1>4, <1>5, <1>6 DEF RowOK, EffectsLeft
  <2>3. RowOK(n)
    BY <1>1, <1>5, <2>2 DEF RowOK
  <2>4. QED
    BY <1>2, <1>6, <2>1, <2>3 DEF TabOK
<1>7. CASE ~a.reading
  BY <1>1, <1>2, <1>3, <1>7 DEF TabOK, RowOK, StoresKnow, EffectsLeft, p
<1>8. QED
  BY <1>6, <1>7

LEMMA ToldKeeps ==
  ASSUME NEW r, RowOK(r), NEW b \in BOOLEAN
  PROVE  /\ RowOK([r EXCEPT !.told = b])
         /\ [r EXCEPT !.told = b].told = b /\ [r EXCEPT !.told = b].listens = r.listens
         /\ [r EXCEPT !.told = b].reading = r.reading
<1> DEFINE n == [r EXCEPT !.told = b]
<1>1. /\ n \in TabRecords /\ n.app = r.app /\ n.theme = r.theme /\ n.ref = r.ref /\ n.reading = r.reading
      /\ n.listens = r.listens /\ n.told = b /\ n.due = r.due /\ n.view = r.view /\ n.root = r.root
  BY DEF RowOK, TabRecords
<1> HIDE DEF n
<1>2. RowOK(n)
  BY <1>1 DEF RowOK, EffectsLeft
<1>3. QED
  BY <1>1, <1>2 DEF n

(* A write, as the tab that makes it and as the others have it. *)
LEMMA WriteKeeps ==
  ASSUME ThemeInv, NEW t \in Tabs, NEW item \in ThemeRecords, Written(t, item)
  PROVE  ThemeInv'
<1>1. setting' = item /\ tabs' = [u \in Tabs |-> tabs'[u]]
  BY DEF Written
<1>2. ASSUME NEW u \in Tabs PROVE TabOK(item, tabs'[u])
  <2>1. RowOK(tabs[u])
    BY DEF ThemeInv, TabOK
  <2>2. CASE u # t
    <3>1. tabs'[u] = [tabs[u] EXCEPT !.told = TRUE]
      BY <2>2 DEF Written
    <3>2. RowOK(tabs'[u]) /\ tabs'[u].told
      BY <2>1, <3>1, ToldKeeps
    <3>3. QED
      BY <3>2 DEF TabOK, StoresKnow
  <2>3. CASE u = t
    <3>1. tabs'[u] = ReaderReads(AppReads(tabs[u], item), item)
      BY <2>3 DEF Written
    <3>2. QED
      BY <2>1, <3>1, ReadsKeep
  <2>4. QED
    BY <2>2, <2>3
<1>3. QED
  BY <1>1, <1>2 DEF ThemeInv

(* A step that changes the row of one tab and not the item. *)
LEMMA OneTabKeeps ==
  ASSUME ThemeInv, NEW t \in Tabs, NEW n, TabOK(setting, n), tabs' = [tabs EXCEPT ![t] = n], UNCHANGED setting
  PROVE  ThemeInv'
<1>1. \A u \in Tabs : tabs'[u] = IF u = t THEN n ELSE tabs[u]
  BY DEF ThemeInv
<1>2. tabs' = [u \in Tabs |-> tabs'[u]]
  BY DEF ThemeInv
<1>3. \A u \in Tabs : TabOK(setting, tabs'[u])
  BY <1>1 DEF ThemeInv
<1>4. QED
  BY <1>2, <1>3 DEF ThemeInv

(* A book is opened with the snapshot, its effects due. *)
LEMMA OpenBookKeeps ==
  ASSUME ThemeInv, NEW t \in Tabs, OpenBook(t)
  PROVE  ThemeInv'
<1> DEFINE r == tabs[t]
           m == GetSnapshot(setting)
           v == NoView
           n == [r EXCEPT !.reading = TRUE, !.due = TRUE, !.view = v, !.theme = m, !.ref = m]
<1>1. RowOK(r) /\ StoresKnow(setting, r) /\ setting \in ThemeRecords /\ r \in TabRecords
  BY DEF ThemeInv, TabOK, RowOK
<1>2. Normal(m) /\ m \in ThemeRecords /\ v \in ViewRecords
  BY <1>1, SnapshotFacts, NoViewOK DEF Normal
<1>3. tabs' = [tabs EXCEPT ![t] = n] /\ UNCHANGED setting /\ r.listens
  BY DEF OpenBook
<1> HIDE DEF r, m, v
<1>4. /\ n \in TabRecords /\ n.app = r.app /\ n.theme = m /\ n.ref = m /\ n.reading /\ n.listens = r.listens
      /\ n.told = r.told /\ n.missed = r.missed /\ n.due /\ n.root = r.root
  BY <1>1, <1>2 DEF TabRecords
<1> HIDE DEF n
<1>5. TabOK(setting, n)
  BY <1>1, <1>2, <1>3, <1>4 DEF TabOK, RowOK, StoresKnow, EffectsLeft, m
<1>6. QED
  BY <1>3, <1>5, OneTabKeeps

(* The clean-up leaves what the effect of the app would. *)
LEMMA RestoredAgrees ==
  ASSUME NEW o \in RootRecords, RootAgrees(o)
  PROVE  Restored(o) \in RootRecords /\ RootAgrees(Restored(o)) /\ Restored(o).active = NoPreset
<1> DEFINE b == IF o.preset \in Presets THEN o.preset = "dark" ELSE o.dark
           c == ThemeColorForAppMode(b)
           n == [o EXCEPT !.active = NoPreset, !.scheme = b, !.color = c]
<1>1. Restored(o) = n
  BY DEF Restored
<1>2. b \in BOOLEAN /\ (o.preset # NoPreset => b = (o.preset = "dark"))
  BY DEF RootRecords, RootAgrees
<1> HIDE DEF b
<1>3. c \in Colors
  BY <1>2, ColorFacts
<1> HIDE DEF c
<1>4. n \in RootRecords /\ n.active = NoPreset /\ n.scheme = b /\ n.color = c /\ n.preset = o.preset
  BY <1>2, <1>3 DEF RootRecords, Names
<1> HIDE DEF n
<1>5. RootAgrees(n)
  BY <1>2, <1>4 DEF RootAgrees, c
<1>6. QED
  BY <1>1, <1>4, <1>5

LEMMA CloseBookKeeps ==
  ASSUME ThemeInv, NEW t \in Tabs, CloseBook(t)
  PROVE  ThemeInv'
<1> DEFINE r == tabs[t]
           o == IF r.root.active = NoPreset THEN r.root ELSE Restored(r.root)
           v == NoView
           n == [r EXCEPT !.reading = FALSE, !.due = FALSE, !.view = v, !.root = o]
<1>1. RowOK(r) /\ StoresKnow(setting, r) /\ r \in TabRecords /\ r.root \in RootRecords /\ RootAgrees(r.root)
  BY DEF ThemeInv, TabOK, RowOK, TabRecords
<1>2. o \in RootRecords /\ RootAgrees(o) /\ o.active = NoPreset /\ v \in ViewRecords
  BY <1>1, RestoredAgrees, NoViewOK
<1>3. tabs' = [tabs EXCEPT ![t] = n] /\ UNCHANGED setting
  BY DEF CloseBook
<1> HIDE DEF r, o, v
<1>4. /\ n \in TabRecords /\ n.app = r.app /\ n.theme = r.theme /\ n.ref = r.ref /\ ~n.reading /\ n.listens = r.listens
      /\ n.told = r.told /\ n.missed = r.missed /\ ~n.due /\ n.root = o
  BY <1>1, <1>2 DEF TabRecords
<1> HIDE DEF n
<1>5. TabOK(setting, n)
  BY <1>1, <1>2, <1>4 DEF TabOK, RowOK, StoresKnow, EffectsLeft
<1>6. QED
  BY <1>3, <1>5, OneTabKeeps

(* The view of the open book changes: its theme is the ref's until the effects run. *)
LEMMA ViewKeeps ==
  ASSUME NEW s \in ThemeRecords, NEW r, TabOK(s, r), r.reading, NEW n \in TabRecords,
         n.app = r.app, n.theme = r.theme, n.ref = r.ref, n.reading, n.listens = r.listens,
         n.told = r.told, n.missed = r.missed, n.root = r.root,
         ~n.due => ~r.due,
         (~n.due /\ n.view.stage = "ready") =>
            n.view.styles = GetStylesheet(r.theme) /\ n.view.overridden = CleanInlineStyles(r.theme)
  PROVE  TabOK(s, n)
<1>1. RowOK(r) /\ StoresKnow(s, r)
  BY DEF TabOK
<1>2. StoresKnow(s, n)
  BY <1>1 DEF StoresKnow
<1>3. EffectsLeft(n)
  BY <1>1 DEF RowOK, EffectsLeft
<1>4. QED
  BY <1>1, <1>2, <1>3 DEF TabOK, RowOK

LEMMA ViewSteps ==
  ASSUME ThemeInv, NEW t \in Tabs, ViewOpens(t) \/ DocumentLoads(t) \/ ViewReady(t)
  PROVE  ThemeInv'
<1> DEFINE r == tabs[t]
           w == r.view
<1>1. /\ TabOK(setting, r) /\ RowOK(r) /\ setting \in ThemeRecords /\ r \in TabRecords /\ r.ref \in ThemeRecords
      /\ w \in ViewRecords
  BY DEF ThemeInv, TabOK, RowOK, TabRecords
<1>2. tabs = [u \in Tabs |-> tabs[u]]
  BY DEF ThemeInv
<1>3. ASSUME NEW v \in ViewRecords, r.reading, tabs' = [tabs EXCEPT ![t] = [r EXCEPT !.view = v]], UNCHANGED setting,
             (~r.due /\ v.stage = "ready") =>
                v.styles = GetStylesheet(r.theme) /\ v.overridden = CleanInlineStyles(r.theme)
      PROVE  ThemeInv'
  <2> DEFINE n == [r EXCEPT !.view = v]
  <2>1. tabs' = [tabs EXCEPT ![t] = n] /\ UNCHANGED setting
    BY <1>3
  <2> HIDE DEF r
  <2>2. /\ n \in TabRecords /\ n.app = r.app /\ n.theme = r.theme /\ n.ref = r.ref /\ n.reading = r.reading
        /\ n.listens = r.listens /\ n.told = r.told /\ n.missed = r.missed /\ n.due = r.due /\ n.view = v /\ n.root = r.root
    BY <1>1, <1>3 DEF TabRecords
  <2> HIDE DEF n
  <2>3. TabOK(setting, n)
    BY <1>1, <1>3, <2>2, ViewKeeps
  <2>4. QED
    BY <2>1, <2>3, OneTabKeeps
<1>4. CASE ViewOpens(t)
  <2> DEFINE c == GetStylesheet(r.ref)
             v == [w EXCEPT !.stage = "opened", !.styles = c]
  <2>1. c \in StyleRecords
    BY <1>1, StyleFacts
  <2>2. tabs' = [tabs EXCEPT ![t] = [r EXCEPT !.view = v]] /\ UNCHANGED setting /\ r.reading
    BY <1>2, <1>4 DEF ViewOpens
  <2> HIDE DEF c, w, r
  <2>3. v \in ViewRecords /\ v.stage = "opened"
    BY <1>1, <2>1 DEF ViewRecords
  <2> HIDE DEF v
  <2>4. QED
    BY <1>3, <2>2, <2>3
<1>5. CASE DocumentLoads(t)
  <2> DEFINE c == CleanInlineStyles(r.ref)
             v == [w EXCEPT !.overridden = c]
  <2>1. c \in BOOLEAN
    BY <1>1, StyleFacts
  <2>2. tabs' = [tabs EXCEPT ![t] = [r EXCEPT !.view = v]] /\ UNCHANGED setting /\ r.reading
    BY <1>2, <1>5 DEF DocumentLoads
  <2>3. (~r.due /\ w.stage = "ready") => w.styles = GetStylesheet(r.theme) /\ c = CleanInlineStyles(r.theme)
    BY <1>1, <2>2 DEF RowOK, EffectsLeft
  <2> HIDE DEF c, w, r
  <2>4. v \in ViewRecords /\ v.stage = w.stage /\ v.styles = w.styles /\ v.overridden = c
    BY <1>1, <2>1 DEF ViewRecords
  <2> HIDE DEF v
  <2>5. QED
    BY <1>3, <2>2, <2>3, <2>4
<1>6. CASE ViewReady(t)
  <2> DEFINE v == [w EXCEPT !.stage = "ready"]
             n == [r EXCEPT !.due = TRUE, !.view = v]
  <2>1. tabs' = [tabs EXCEPT ![t] = n] /\ UNCHANGED setting /\ r.reading
    BY <1>2, <1>6 DEF ViewReady
  <2> HIDE DEF w, r
  <2>2. v \in ViewRecords
    BY <1>1 DEF ViewRecords
  <2> HIDE DEF v
  <2>3. /\ n \in TabRecords /\ n.app = r.app /\ n.theme = r.theme /\ n.ref = r.ref /\ n.reading = r.reading
        /\ n.listens = r.listens /\ n.told = r.told /\ n.missed = r.missed /\ n.due /\ n.root = r.root
    BY <1>1, <2>2 DEF TabRecords
  <2> HIDE DEF n
  <2>4. TabOK(setting, n)
    BY <1>1, <2>1, <2>3, ViewKeeps
  <2>5. QED
    BY <2>1, <2>4, OneTabKeeps
<1>7. QED
  BY <1>4, <1>5, <1>6

(* The effects of the reader, on the root and on the view. *)
LEMMA ChromeAgrees ==
  ASSUME NEW o \in RootRecords, RootAgrees(o), NEW p \in Presets
  PROVE  ChromeOf(o, p) \in RootRecords /\ RootAgrees(ChromeOf(o, p)) /\ ChromeOf(o, p).active = p
<1> DEFINE c == ThemeColorForPreset(p)
           b == (p = "dark")
           n == [o EXCEPT !.active = p, !.scheme = b, !.color = c]
<1>1. ChromeOf(o, p) = IF o.active = p THEN o ELSE n
  BY DEF ChromeOf
<1>2. p \in Names /\ p # NoPreset /\ c \in Colors /\ b \in BOOLEAN
  BY PresetNames, ColorFacts
<1> HIDE DEF b, c
<1>3. n \in RootRecords /\ n.active = p /\ n.scheme = b /\ n.color = c /\ n.preset = o.preset
  BY <1>2 DEF RootRecords
<1> HIDE DEF n
<1>4. RootAgrees(n)
  BY <1>2, <1>3 DEF RootAgrees, b, c
<1>5. QED
  BY <1>1, <1>3, <1>4

LEMMA StyledFacts ==
  ASSUME NEW v \in ViewRecords, NEW theme \in ThemeRecords
  PROVE  /\ Styled(v, theme) \in ViewRecords
         /\ Styled(v, theme).stage = "ready" => /\ Styled(v, theme).styles = GetStylesheet(theme)
                                                /\ Styled(v, theme).overridden = CleanInlineStyles(theme)
<1> DEFINE c == GetStylesheet(theme)
           b == CleanInlineStyles(theme)
           n == [v EXCEPT !.styles = c, !.overridden = b]
<1>1. c \in StyleRecords /\ b \in BOOLEAN
  BY StyleFacts
<1>2. Styled(v, theme) = IF v.stage # "ready" THEN v ELSE n
  BY DEF Styled
<1> HIDE DEF b, c
<1>3. n \in ViewRecords /\ n.styles = c /\ n.overridden = b
  BY <1>1 DEF ViewRecords
<1> HIDE DEF n
<1>4. QED
  BY <1>2, <1>3 DEF b, c

LEMMA ReaderEffectKeeps ==
  ASSUME ThemeInv, NEW t \in Tabs, ReaderEffect(t)
  PROVE  ThemeInv'
<1> DEFINE r == tabs[t]
           m == r.theme
           o == ChromeOf(r.root, m.preset)
           v == Styled(r.view, m)
           n == [r EXCEPT !.due = FALSE, !.ref = m, !.root = o, !.view = v]
<1>1. /\ RowOK(r) /\ StoresKnow(setting, r) /\ r \in TabRecords /\ r.root \in RootRecords /\ RootAgrees(r.root)
      /\ Normal(m) /\ m \in ThemeRecords /\ m.preset \in Presets /\ r.view \in ViewRecords
  BY DEF ThemeInv, TabOK, RowOK, TabRecords, Normal
<1>2. o \in RootRecords /\ RootAgrees(o) /\ o.active = m.preset
  BY <1>1, ChromeAgrees
<1>3. /\ v \in ViewRecords
      /\ v.stage = "ready" => v.styles = GetStylesheet(m) /\ v.overridden = CleanInlineStyles(m)
  BY <1>1, StyledFacts
<1>4. tabs' = [tabs EXCEPT ![t] = n] /\ UNCHANGED setting /\ r.due
  BY DEF ReaderEffect
<1>5. r.reading
  BY <1>1, <1>4 DEF RowOK, EffectsLeft
<1> HIDE DEF r, o, v, m
<1>6. /\ n \in TabRecords /\ n.app = r.app /\ n.theme = r.theme /\ n.ref = m /\ n.reading = r.reading
      /\ n.listens = r.listens /\ n.told = r.told /\ n.missed = r.missed /\ ~n.due /\ n.root = o /\ n.view = v
  BY <1>1, <1>2, <1>3 DEF TabRecords
<1> HIDE DEF n
<1>7. TabOK(setting, n)
  BY <1>1, <1>2, <1>3, <1>5, <1>6 DEF TabOK, RowOK, StoresKnow, EffectsLeft, m
<1>8. QED
  BY <1>4, <1>7, OneTabKeeps

LEMMA AppEffectKeeps ==
  ASSUME ThemeInv, NEW t \in Tabs, AppEffect(t)
  PROVE  ThemeInv'
<1> DEFINE r == tabs[t]
           p == r.app
           b == (p = "dark")
           c == IF r.root.active # NoPreset THEN r.root.color ELSE ThemeColorForAppMode(b)
           o == [r.root EXCEPT !.dark = b, !.preset = p, !.scheme = b, !.color = c]
           n == [r EXCEPT !.root = o]
<1>1. /\ RowOK(r) /\ StoresKnow(setting, r) /\ r \in TabRecords /\ r.root \in RootRecords /\ RootAgrees(r.root)
      /\ p \in Presets /\ p \in Names /\ p # NoPreset /\ tabs = [u \in Tabs |-> tabs[u]]
  BY PresetNames DEF ThemeInv, TabOK, RowOK, TabRecords
<1>2. b \in BOOLEAN /\ c \in Colors
  BY <1>1, ColorFacts DEF RootRecords
<1>3. tabs' = [tabs EXCEPT ![t] = n] /\ UNCHANGED setting
  BY <1>1 DEF AppEffect
<1>4. RootAgrees(r.root) /\ (r.root.active # NoPreset => c = r.root.color)
      /\ (r.root.active = NoPreset => c = ThemeColorForAppMode(b))
  BY <1>1
<1> HIDE DEF r, p, b, c
<1>5. /\ o \in RootRecords /\ o.active = r.root.active /\ o.preset = p /\ o.scheme = b /\ o.color = c
  BY <1>1, <1>2 DEF RootRecords
<1> HIDE DEF o
<1>6. RootAgrees(o)
  BY <1>1, <1>4, <1>5 DEF RootAgrees, b
<1>7. /\ n \in TabRecords /\ n.app = r.app /\ n.theme = r.theme /\ n.ref = r.ref /\ n.reading = r.reading
      /\ n.listens = r.listens /\ n.told = r.told /\ n.missed = r.missed /\ n.due = r.due /\ n.root = o
      /\ n.view = r.view
  BY <1>1, <1>5 DEF TabRecords
<1> HIDE DEF n
<1>8. TabOK(setting, n)
  BY <1>1, <1>5, <1>6, <1>7 DEF TabOK, RowOK, StoresKnow, EffectsLeft
<1>9. QED
  BY <1>3, <1>8, OneTabKeeps

(* A tab begins to listen, the event of another tab's write arrives, the page renders. *)
LEMMA ListenKeeps ==
  ASSUME ThemeInv, NEW t \in Tabs, Listen(t)
  PROVE  ThemeInv'
<1> DEFINE r == tabs[t]
           n == [r EXCEPT !.listens = TRUE]
<1>1. RowOK(r) /\ StoresKnow(setting, r) /\ r \in TabRecords
  BY DEF ThemeInv, TabOK, RowOK
<1>2. tabs' = [tabs EXCEPT ![t] = n] /\ UNCHANGED setting
  BY DEF Listen
<1> HIDE DEF r
<1>3. /\ n \in TabRecords /\ n.app = r.app /\ n.theme = r.theme /\ n.ref = r.ref /\ n.reading = r.reading /\ n.listens
      /\ n.told = r.told /\ n.missed = r.missed /\ n.due = r.due /\ n.root = r.root /\ n.view = r.view
  BY <1>1 DEF TabRecords
<1> HIDE DEF n
<1>4. TabOK(setting, n)
  BY <1>1, <1>3 DEF TabOK, RowOK, StoresKnow, EffectsLeft
<1>5. QED
  BY <1>2, <1>4, OneTabKeeps

LEMMA StorageEventKeeps ==
  ASSUME ThemeInv, NEW t \in Tabs, StorageEvent(t)
  PROVE  ThemeInv'
<1> DEFINE r == [tabs[t] EXCEPT !.told = FALSE]
           n == IF r.listens THEN ReaderReads(AppReads(r, setting), setting) ELSE [r EXCEPT !.missed = TRUE]
<1>1. RowOK(tabs[t]) /\ setting \in ThemeRecords
  BY DEF ThemeInv, TabOK
<1>2. RowOK(r)
  BY <1>1, ToldKeeps
<1>3. tabs' = [tabs EXCEPT ![t] = n] /\ UNCHANGED setting
  BY DEF StorageEvent
<1> HIDE DEF r
<1>4. CASE r.listens
  BY <1>1, <1>2, <1>3, <1>4, ReadsKeep, OneTabKeeps
<1>5. CASE ~r.listens
  <2> DEFINE k == [r EXCEPT !.missed = TRUE]
  <2>1. /\ k \in TabRecords /\ k.app = r.app /\ k.theme = r.theme /\ k.ref = r.ref /\ k.reading = r.reading
        /\ k.listens = r.listens /\ k.missed /\ k.due = r.due /\ k.root = r.root /\ k.view = r.view
    BY <1>2 DEF TabRecords, RowOK
  <2> HIDE DEF k
  <2>2. TabOK(setting, k)
    BY <1>2, <1>5, <2>1 DEF TabOK, RowOK, StoresKnow, EffectsLeft
  <2>3. tabs' = [tabs EXCEPT ![t] = k]
    BY <1>3, <1>5 DEF k
  <2>4. QED
    BY <1>3, <2>2, <2>3, OneTabKeeps
<1>6. QED
  BY <1>4, <1>5

LEMMA RerenderKeeps ==
  ASSUME ThemeInv, NEW t \in Tabs, Rerender(t)
  PROVE  ThemeInv'
<1> DEFINE r == tabs[t]
           m == GetSnapshot(setting)
           n == [r EXCEPT !.theme = m, !.due = TRUE]
<1>1. RowOK(r) /\ StoresKnow(setting, r) /\ r \in TabRecords /\ setting \in ThemeRecords
  BY DEF ThemeInv, TabOK, RowOK
<1>2. Normal(m) /\ m \in ThemeRecords
  BY <1>1, SnapshotFacts DEF Normal
<1>3. tabs' = [tabs EXCEPT ![t] = n] /\ UNCHANGED setting /\ r.reading
  BY DEF Rerender, ReaderReads
<1> HIDE DEF r, m
<1>4. /\ n \in TabRecords /\ n.app = r.app /\ n.theme = m /\ n.ref = r.ref /\ n.reading = r.reading
      /\ n.listens = r.listens /\ n.told = r.told /\ n.missed = r.missed /\ n.due /\ n.root = r.root
  BY <1>1, <1>2 DEF TabRecords
<1> HIDE DEF n
<1>5. TabOK(setting, n)
  BY <1>1, <1>2, <1>3, <1>4 DEF TabOK, RowOK, StoresKnow, EffectsLeft, m
<1>6. QED
  BY <1>3, <1>5, OneTabKeeps

(* What a reader with another setting writes is what is stored. *)
LEMMA SettingWrites ==
  ASSUME ThemeInv, NEW t \in Tabs, NEW c \in ThemeRecords, Normal(c), SetTheme(t, c)
  PROVE  tabs[t].reading /\ Written(t, c) /\ setting' = c
<1>1. NormalizeReaderTheme(c) = c
  BY NormalizeFacts DEF Normal
<1>2. QED
  BY <1>1 DEF SetTheme, Written

(* The changes the sheet offers. *)
LEMMA ChangedIsTheme ==
  ASSUME ThemeInv, NEW t \in Tabs, NEW c,
         \/ c = DefaultReaderTheme
         \/ \E p \in Presets : c = [tabs[t].theme EXCEPT !.preset = p]
         \/ \E n \in SizeMin .. SizeMax : c = [tabs[t].theme EXCEPT !.size = n]
  PROVE  /\ c \in ThemeRecords /\ Normal(c)
         /\ \/ c = DefaultReaderTheme
            \/ c.size = tabs[t].theme.size
            \/ c.preset = tabs[t].theme.preset
<1> DEFINE th == tabs[t].theme
<1>1. th \in ThemeRecords /\ Normal(th)
  BY DEF ThemeInv, TabOK, RowOK, Normal
<1> HIDE DEF th
<1>2. CASE c = DefaultReaderTheme
  BY <1>2, ThemeAssumption, PresetNames DEF DefaultReaderTheme, ThemeRecords, Normal
<1>3. ASSUME NEW p \in Presets, c = [th EXCEPT !.preset = p]
      PROVE  c \in ThemeRecords /\ Normal(c) /\ c.size = th.size
  BY <1>1, <1>3, PresetNames DEF ThemeRecords, Normal
<1>4. ASSUME NEW n \in SizeMin .. SizeMax, c = [th EXCEPT !.size = n]
      PROVE  c \in ThemeRecords /\ Normal(c) /\ c.preset = th.preset
  BY <1>1, <1>4, ThemeAssumption DEF ThemeRecords, Normal
<1>5. QED
  BY <1>2, <1>3, <1>4 DEF th

(* toggleTheme writes the stored item with another preset. *)
LEMMA ToggleWrites ==
  ASSUME ThemeInv, NEW t \in Tabs, ToggleTheme(t)
  PROVE  \E item \in ThemeRecords : Written(t, item) /\ item.size = setting.size
<1> DEFINE p == IF tabs[t].app = "dark" THEN "light" ELSE "dark"
           item == [setting EXCEPT !.preset = p]
<1>1. Written(t, item)
  BY DEF ToggleTheme, WriteShelfThemePreset
<1>2. p \in Names
  BY DEF Names
<1> HIDE DEF p
<1>3. item \in ThemeRecords /\ item.size = setting.size
  BY <1>2 DEF ThemeInv, ThemeRecords
<1>4. QED
  BY <1>1, <1>3

LEMMA ThemeStarts == ThemeInit => ThemeInv
<1> SUFFICES ASSUME ThemeInit PROVE ThemeInv
  OBVIOUS
<1>1. setting \in ThemeRecords
  BY ThemeAssumption DEF ThemeInit, ThemeRecords, Names
<1>2. QED
  BY <1>1, StartedOK DEF ThemeInit, ThemeInv

(* The writes of the settings sheet, one lemma for the three controls. *)
LEMMA SheetWrites ==
  ASSUME ThemeInv, NEW t \in Tabs,
         HandleResetTheme(t) \/ (\E p \in Presets : ChoosePreset(t, p)) \/ (\E n \in SizeMin .. SizeMax : SlideSize(t, n))
  PROVE  \E c \in ThemeRecords :
            /\ Normal(c) /\ tabs[t].reading /\ Written(t, c) /\ setting' = c
            /\ \/ c = DefaultReaderTheme
               \/ c.size = tabs[t].theme.size
               \/ c.preset = tabs[t].theme.preset
<1>1. PICK c : /\ SetTheme(t, c)
               /\ \/ c = DefaultReaderTheme
                  \/ \E p \in Presets : c = [tabs[t].theme EXCEPT !.preset = p]
                  \/ \E n \in SizeMin .. SizeMax : c = [tabs[t].theme EXCEPT !.size = n]
  BY DEF HandleResetTheme, ChoosePreset, SlideSize
<1>2. /\ c \in ThemeRecords /\ Normal(c)
      /\ c = DefaultReaderTheme \/ c.size = tabs[t].theme.size \/ c.preset = tabs[t].theme.preset
  BY <1>1, ChangedIsTheme
<1>3. tabs[t].reading /\ Written(t, c) /\ setting' = c
  BY <1>1, <1>2, SettingWrites
<1>4. QED
  BY <1>2, <1>3

LEMMA ThemeSteps ==
  ASSUME ThemeInv, ThemeNext \/ UNCHANGED <<setting, tabs>>
  PROVE  ThemeInv'
<1>1. CASE UNCHANGED <<setting, tabs>>
  BY <1>1 DEF ThemeInv
<1>2. ASSUME NEW t \in Tabs, OpenTab(t) PROVE ThemeInv'
  <2> DEFINE n == Started(setting)
  <2>1. TabOK(setting, n)
    BY StartedOK DEF ThemeInv
  <2>2. tabs' = [tabs EXCEPT ![t] = n] /\ UNCHANGED setting
    BY <1>2 DEF OpenTab
  <2> HIDE DEF n
  <2>3. QED
    BY <2>1, <2>2, OneTabKeeps
<1>3. ASSUME NEW t \in Tabs, ToggleTheme(t) PROVE ThemeInv'
  BY <1>3, ToggleWrites, WriteKeeps
<1>4. ASSUME NEW t \in Tabs,
             \/ HandleResetTheme(t)
             \/ \E p \in Presets : ChoosePreset(t, p)
             \/ \E n \in SizeMin .. SizeMax : SlideSize(t, n)
      PROVE  ThemeInv'
  <2>1. PICK c \in ThemeRecords : Written(t, c)
    BY <1>4, SheetWrites
  <2>2. QED
    BY <2>1, WriteKeeps
<1>5. CASE ThemeExternal
  BY <1>5, <1>2, <1>3, <1>4, OpenBookKeeps, CloseBookKeeps, ViewSteps DEF ThemeExternal
<1>6. CASE ThemeInternal
  BY <1>6, ListenKeeps, StorageEventKeeps, RerenderKeeps, ViewSteps, ReaderEffectKeeps, AppEffectKeeps DEF ThemeInternal
<1>7. QED
  BY <1>1, <1>5, <1>6 DEF ThemeNext

(* A write by a tab that has heard of the last one keeps the other setting. *)
LEMMA ThemeKeepsOthers ==
  ASSUME ThemeInv, ThemeNext \/ UNCHANGED <<setting, tabs>>, setting' # setting, \A t \in Tabs : ~tabs[t].told
  PROVE  \/ PresetOf(setting') = PresetOf(setting)
         \/ GetSnapshot(setting').size = GetSnapshot(setting).size
         \/ setting' = DefaultReaderTheme
<1> DEFINE othersStay == \/ PresetOf(setting') = PresetOf(setting)
                         \/ GetSnapshot(setting').size = GetSnapshot(setting).size
                         \/ setting' = DefaultReaderTheme
<1>1. setting \in ThemeRecords /\ \A t \in Tabs : tabs[t].reading => tabs[t].theme = GetSnapshot(setting)
  BY DEF ThemeInv, TabOK, StoresKnow
<1>2. ASSUME NEW t \in Tabs, ToggleTheme(t) PROVE othersStay
  <2>1. PICK item \in ThemeRecords : Written(t, item) /\ item.size = setting.size
    BY <1>2, ToggleWrites
  <2>2. setting' = item
    BY <2>1 DEF Written
  <2>3. GetSnapshot(item).size = GetSnapshot(setting).size
    BY <1>1, <2>1, SnapshotSize
  <2>4. QED
    BY <2>2, <2>3
<1>3. ASSUME NEW t \in Tabs,
             \/ HandleResetTheme(t)
             \/ \E p \in Presets : ChoosePreset(t, p)
             \/ \E n \in SizeMin .. SizeMax : SlideSize(t, n)
      PROVE  othersStay
  <2>1. PICK c \in ThemeRecords :
            /\ Normal(c) /\ tabs[t].reading /\ setting' = c
            /\ \/ c = DefaultReaderTheme
               \/ c.size = tabs[t].theme.size
               \/ c.preset = tabs[t].theme.preset
    BY <1>3, SheetWrites
  <2>2. GetSnapshot(c) = c /\ PresetOf(c) = c.preset /\ GetSnapshot(setting).preset = PresetOf(setting)
    BY <1>1, <2>1, SnapshotFacts
  <2>3. QED
    BY <1>1, <2>1, <2>2
<1>4. CASE ThemeExternal
  BY <1>4, <1>2, <1>3 DEF ThemeExternal, OpenTab, OpenBook, CloseBook, DocumentLoads
<1>5. CASE ThemeInternal
  BY <1>5 DEF ThemeInternal, Listen, StorageEvent, Rerender, ViewOpens, ViewReady, ReaderEffect, AppEffect
<1>6. QED
  BY <1>4, <1>5 DEF ThemeNext

LEMMA ThemeImplies == ThemeInv => ThemesAgree /\ ChromeFollows /\ TextFollows
<1> SUFFICES ASSUME ThemeInv PROVE ThemesAgree /\ ChromeFollows /\ TextFollows
  OBVIOUS
<1>1. \A t \in Tabs : StoresKnow(setting, tabs[t]) /\ EffectsLeft(tabs[t]) /\ RootAgrees(tabs[t].root)
  BY DEF ThemeInv, TabOK, RowOK
<1>2. \A t \in Tabs : tabs[t].app # NoPreset /\ tabs[t].theme.preset # NoPreset
  BY PresetNames DEF ThemeInv, TabOK, RowOK, Normal
<1>3. ThemesAgree
  BY <1>1 DEF ThemesAgree, StoresKnow
<1>4. ChromeFollows
  BY <1>1, <1>2 DEF ChromeFollows, EffectsLeft, RootAgrees
<1>5. TextFollows
  BY <1>1 DEF TextFollows, EffectsLeft
<1>6. QED
  BY <1>3, <1>4, <1>5

(***************************************************************************)
(* The page around the book                                                *)
(***************************************************************************)

WatchedRecords == [loading : BOOLEAN, sheets : SUBSET Sheets, chapter : Chapters \cup {NoChapter}]
PageRecords == [loading : BOOLEAN, sheets : SUBSET Sheets, chapter : Chapters \cup {NoChapter}, header : BOOLEAN,
                menu : BOOLEAN, zoom : BOOLEAN, full : BOOLEAN, here : BOOLEAN]
ChromeRecords == [seen : WatchedRecords, show : BOOLEAN, locate : BOOLEAN, located : Chapters \cup {NoChapter},
                  asked : {"nothing", "enter", "exit"}, element : BOOLEAN, changed : BOOLEAN,
                  image : BOOLEAN]

(* Stronger than HeaderShown and TocLocated: the frames are told of what the *)
(* hook has seen, also while the page has moved on from it.                  *)
HeaderKept(p, c) ==
    (p.here /\ (p.loading \/ p.sheets # {}) /\ c.seen.loading = p.loading /\ c.seen.sheets = p.sheets
       /\ c.seen.chapter = p.chapter /\ ~c.show) => p.header
TocKept(p, c) ==
    (p.here /\ "toc" \in p.sheets /\ "toc" \in c.seen.sheets /\ p.chapter # NoChapter
       /\ c.seen.chapter = p.chapter /\ ~c.locate) => c.located = p.chapter

ChromeOK(p, c) == p \in PageRecords /\ c \in ChromeRecords /\ HeaderKept(p, c) /\ TocKept(p, c)

ChromeInv == ChromeOK(page, chrome)

(* Watched and what was seen of it, field by field. *)
LEMMA WatchedFacts ==
  ASSUME page \in PageRecords, chrome \in ChromeRecords
  PROVE  /\ Watched \in WatchedRecords
         /\ Watched.loading = page.loading /\ Watched.sheets = page.sheets /\ Watched.chapter = page.chapter
         /\ (Watched = chrome.seen) <=>
              (chrome.seen.loading = page.loading /\ chrome.seen.sheets = page.sheets /\ chrome.seen.chapter = page.chapter)
  BY DEF Watched, PageRecords, ChromeRecords, WatchedRecords

LEMMA FrameSteps ==
  ASSUME ChromeInv, SyncChromeState \/ ShowFrame \/ LocateFrame
  PROVE  ChromeInv'
<1> USE DEF ChromeInv
<1>1. page \in PageRecords /\ chrome \in ChromeRecords /\ HeaderKept(page, chrome) /\ TocKept(page, chrome)
  BY DEF ChromeOK
<1>2. CASE SyncChromeState
  <2> DEFINE w == Watched
             s == chrome.show \/ Pins(w)
             l == chrome.locate \/ (/\ "toc" \in page.sheets /\ page.chapter # NoChapter
                                    /\ \/ "toc" \notin chrome.seen.sheets
                                       \/ chrome.seen.chapter # page.chapter)
  <2>1. chrome' = [chrome EXCEPT !.seen = w, !.show = s, !.locate = l] /\ page' = page
    BY <1>2 DEF SyncChromeState
  <2>2. s \in BOOLEAN /\ l \in BOOLEAN
    BY Zenon
  <2>3. w \in WatchedRecords /\ w.loading = page.loading /\ w.sheets = page.sheets /\ w.chapter = page.chapter
    BY <1>1, WatchedFacts
  <2> HIDE DEF w, s, l
  <2>4. /\ chrome' \in ChromeRecords /\ chrome'.seen = w /\ chrome'.show = s /\ chrome'.locate = l
        /\ chrome'.located = chrome.located
    BY <1>1, <2>1, <2>2, <2>3 DEF ChromeRecords
  <2>5. HeaderKept(page, chrome')
    BY <2>3, <2>4 DEF HeaderKept, s, Pins
  <2>6. TocKept(page, chrome')
    BY <1>1, <2>3, <2>4 DEF TocKept, l
  <2>7. QED
    BY <1>1, <2>1, <2>4, <2>5, <2>6 DEF ChromeOK
<1>3. CASE ShowFrame
  BY <1>1, <1>3 DEF ShowFrame, ChromeOK, PageRecords, ChromeRecords, HeaderKept, TocKept
<1>4. CASE LocateFrame
  <2> DEFINE l == IF "toc" \in page.sheets THEN page.chapter ELSE chrome.located
  <2>1. l \in Chapters \cup {NoChapter}
    BY <1>1 DEF PageRecords, ChromeRecords
  <2>2. chrome' = [chrome EXCEPT !.locate = FALSE, !.located = l] /\ page' = page
    BY <1>1, <1>4 DEF LocateFrame, ChromeRecords
  <2> HIDE DEF l
  <2>3. /\ chrome' \in ChromeRecords /\ chrome'.seen = chrome.seen /\ chrome'.show = chrome.show /\ chrome'.located = l
    BY <1>1, <2>1, <2>2 DEF ChromeRecords
  <2>4. HeaderKept(page, chrome') /\ TocKept(page, chrome')
    BY <1>1, <2>3 DEF HeaderKept, TocKept, l
  <2>5. QED
    BY <1>1, <2>2, <2>3, <2>4 DEF ChromeOK
<1>5. QED
  BY <1>2, <1>3, <1>4

(* The page hides its header only where the hook has seen nothing that pins it. *)
LEMMA HideSteps ==
  ASSUME ChromeInv, ToggleToolbar \/ SpeechPlays
  PROVE  ChromeInv'
<1> USE DEF ChromeInv
<1>1. page \in PageRecords /\ chrome \in ChromeRecords /\ HeaderKept(page, chrome) /\ TocKept(page, chrome)
  BY DEF ChromeOK
<1>2. chrome' = chrome
  BY DEF ToggleToolbar, SpeechPlays
<1>3. \/ page' = page
      \/ page' = [page EXCEPT !.header = TRUE]
      \/ page' = [page EXCEPT !.header = FALSE] /\ ~chrome.seen.loading /\ chrome.seen.sheets = {}
  BY DEF ToggleToolbar, SpeechPlays, HideHeader, Pins
<1>4. page' \in PageRecords /\ HeaderKept(page', chrome) /\ TocKept(page', chrome)
  BY <1>1, <1>3 DEF PageRecords, HeaderKept, TocKept
<1>5. QED
  BY <1>1, <1>2, <1>4 DEF ChromeOK

(* What a rendering shows next, after the effect of the last one. *)
LEMMA RenderSteps ==
  ASSUME ChromeInv,
         \/ Loaded \/ CloseSheet
         \/ \E c \in Chapters \cup {NoChapter} : Relocate(c)
         \/ \E s \in Sheets : OpenSheet(s)
  PROVE  ChromeInv'
<1> USE DEF ChromeInv
<1>1. page \in PageRecords /\ chrome \in ChromeRecords /\ HeaderKept(page, chrome) /\ TocKept(page, chrome)
  BY DEF ChromeOK
<1>2. chrome.seen.loading = page.loading /\ chrome.seen.sheets = page.sheets /\ chrome.seen.chapter = page.chapter
  BY <1>1, WatchedFacts DEF Loaded, CloseSheet, Relocate, OpenSheet, Rendered
<1>3. CASE Loaded
  <2>1. page' = [page EXCEPT !.loading = FALSE] /\ page.loading /\ chrome' = chrome
    BY <1>3 DEF Loaded
  <2>2. page' \in PageRecords /\ HeaderKept(page', chrome) /\ TocKept(page', chrome)
    BY <1>1, <1>2, <2>1 DEF PageRecords, HeaderKept, TocKept
  <2>3. QED
    BY <1>1, <2>1, <2>2 DEF ChromeOK
<1>4. CASE CloseSheet
  <2>1. page' = [page EXCEPT !.sheets = {}] /\ page.sheets # {} /\ chrome' = chrome
    BY <1>4 DEF CloseSheet
  <2>2. page' \in PageRecords /\ HeaderKept(page', chrome) /\ TocKept(page', chrome)
    BY <1>1, <1>2, <2>1 DEF PageRecords, HeaderKept, TocKept
  <2>3. QED
    BY <1>1, <2>1, <2>2 DEF ChromeOK
<1>5. ASSUME NEW c \in Chapters \cup {NoChapter}, Relocate(c) PROVE ChromeInv'
  <2>1. page' = [page EXCEPT !.chapter = c] /\ chrome' = chrome
    BY <1>5 DEF Relocate
  <2>2. page' \in PageRecords /\ HeaderKept(page', chrome) /\ TocKept(page', chrome)
    BY <1>1, <1>2, <2>1 DEF PageRecords, HeaderKept, TocKept
  <2>3. QED
    BY <1>1, <2>1, <2>2 DEF ChromeOK
<1>6. ASSUME NEW s \in Sheets, OpenSheet(s) PROVE ChromeInv'
  <2> DEFINE l == IF s = "toc" THEN NoChapter ELSE chrome.located
             o == {s}
  <2>1. l \in Chapters \cup {NoChapter} /\ o \in SUBSET Sheets /\ o # {}
    BY <1>1 DEF ChromeRecords
  <2>2. page' = [page EXCEPT !.sheets = o, !.menu = FALSE] /\ page.sheets = {} /\ chrome' = [chrome EXCEPT !.located = l]
    BY <1>6 DEF OpenSheet
  <2> HIDE DEF l, o
  <2>3. /\ chrome' \in ChromeRecords /\ chrome'.seen = chrome.seen /\ chrome'.show = chrome.show
        /\ page' \in PageRecords /\ page'.sheets = o
    BY <1>1, <2>1, <2>2 DEF ChromeRecords, PageRecords
  <2>4. HeaderKept(page', chrome') /\ TocKept(page', chrome')
    BY <1>2, <2>1, <2>2, <2>3 DEF HeaderKept, TocKept
  <2>5. QED
    BY <2>3, <2>4 DEF ChromeOK
<1>7. QED
  BY <1>3, <1>4, <1>5, <1>6

LEMMA BackFacts ==
  ASSUME ChromeInv, HandleBack
  PROVE  ChromeInv'
<1> USE DEF ChromeInv
<1>1. page \in PageRecords /\ chrome \in ChromeRecords
  BY DEF ChromeOK
<1> DEFINE a == IF chrome.element THEN "exit" ELSE chrome.asked
<1>2. a \in {"nothing", "enter", "exit"}
  BY <1>1 DEF ChromeRecords
<1>3. /\ page' = [page EXCEPT !.here = FALSE, !.sheets = {}, !.menu = FALSE, !.zoom = FALSE]
      /\ chrome' = [chrome EXCEPT !.show = FALSE, !.locate = FALSE, !.asked = a]
  BY <1>1 DEF HandleBack, ChromeRecords
<1> HIDE DEF a
<1>4. chrome' \in ChromeRecords /\ page' \in PageRecords /\ ~page'.here
  BY <1>1, <1>2, <1>3 DEF ChromeRecords, PageRecords
<1>5. QED
  BY <1>4 DEF ChromeOK, HeaderKept, TocKept

(* Steps that change neither what is watched nor what the frames are told. *)
LEMMA AsideKeeps ==
  ASSUME ChromeInv, page' \in PageRecords, chrome' \in ChromeRecords,
         page'.loading = page.loading, page'.sheets = page.sheets, page'.chapter = page.chapter,
         page'.header = page.header, page'.here = page.here,
         chrome'.seen = chrome.seen, chrome'.show = chrome.show, chrome'.locate = chrome.locate,
         chrome'.located = chrome.located
  PROVE  ChromeInv'
  BY DEF ChromeInv, ChromeOK, HeaderKept, TocKept

LEMMA AsideSteps ==
  ASSUME ChromeInv,
         \/ ToggleMenu \/ DismissMenu \/ OpenImage \/ ImageEffects
         \/ ToggleFullscreen \/ FullscreenGranted \/ FullscreenRefused \/ FullscreenLost \/ FullscreenChange
         \/ page' = [page EXCEPT !.zoom = FALSE] /\ UNCHANGED chrome
         \/ chrome' = [chrome EXCEPT !.asked = "exit"] /\ UNCHANGED page
  PROVE  ChromeInv'
<1>1. page \in PageRecords /\ chrome \in ChromeRecords
  BY DEF ChromeInv, ChromeOK
<1>2. ASSUME NEW b \in BOOLEAN, NEW z \in BOOLEAN, NEW f \in BOOLEAN,
             page' = [page EXCEPT !.menu = b, !.zoom = z, !.full = f],
             NEW a \in {"nothing", "enter", "exit"}, NEW e \in BOOLEAN, NEW h \in BOOLEAN,
             chrome' = [chrome EXCEPT !.asked = a, !.element = e, !.changed = h]
      PROVE  ChromeInv'
  <2>1. /\ page' \in PageRecords /\ page'.loading = page.loading /\ page'.sheets = page.sheets
        /\ page'.chapter = page.chapter /\ page'.header = page.header /\ page'.here = page.here
    BY <1>1, <1>2 DEF PageRecords
  <2>2. /\ chrome' \in ChromeRecords /\ chrome'.seen = chrome.seen /\ chrome'.show = chrome.show
        /\ chrome'.locate = chrome.locate /\ chrome'.located = chrome.located
    BY <1>1, <1>2 DEF ChromeRecords
  <2>3. QED
    BY <2>1, <2>2, AsideKeeps
<1> DEFINE m == page.menu
           z == page.zoom
           f == page.full
           a == chrome.asked
           e == chrome.element
           h == chrome.changed
<1>3. m \in BOOLEAN /\ z \in BOOLEAN /\ f \in BOOLEAN /\ a \in {"nothing", "enter", "exit"} /\ e \in BOOLEAN /\ h \in BOOLEAN
  BY <1>1 DEF PageRecords, ChromeRecords
<1>4. /\ \A x : [page EXCEPT !.menu = x] = [page EXCEPT !.menu = x, !.zoom = z, !.full = f]
      /\ \A x : [page EXCEPT !.zoom = x] = [page EXCEPT !.menu = m, !.zoom = x, !.full = f]
      /\ \A x : [page EXCEPT !.full = x] = [page EXCEPT !.menu = m, !.zoom = z, !.full = x]
      /\ page = [page EXCEPT !.menu = m, !.zoom = z, !.full = f]
  BY <1>1 DEF PageRecords
<1>5. /\ \A x : [chrome EXCEPT !.asked = x] = [chrome EXCEPT !.asked = x, !.element = e, !.changed = h]
      /\ [chrome EXCEPT !.changed = FALSE] = [chrome EXCEPT !.asked = a, !.element = e, !.changed = FALSE]
      /\ [chrome EXCEPT !.element = FALSE, !.changed = TRUE] =
           [chrome EXCEPT !.asked = a, !.element = FALSE, !.changed = TRUE]
      /\ chrome = [chrome EXCEPT !.asked = a, !.element = e, !.changed = h]
  BY <1>1 DEF ChromeRecords
<1>6. CASE ToggleMenu
  <2> DEFINE x == ~m
  <2>1. x \in BOOLEAN
    BY Zenon
  <2>2. page' = [page EXCEPT !.menu = x] /\ chrome' = chrome
    BY <1>6 DEF ToggleMenu
  <2> HIDE DEF x, m, z, f, a, e, h
  <2>3. page' = [page EXCEPT !.menu = x, !.zoom = z, !.full = f]
    BY <2>2, <1>4
  <2>4. chrome' = [chrome EXCEPT !.asked = a, !.element = e, !.changed = h]
    BY <2>2, <1>5
  <2>5. QED
    BY <2>1, <2>3, <2>4, <1>2, <1>3
<1> HIDE DEF m, z, f, a, e, h
<1>7. CASE DismissMenu
  <2>1. page' = [page EXCEPT !.menu = FALSE, !.zoom = z, !.full = f]
    BY <1>7, <1>4 DEF DismissMenu
  <2>2. chrome' = [chrome EXCEPT !.asked = a, !.element = e, !.changed = h]
    BY <1>7, <1>5 DEF DismissMenu
  <2>3. QED
    BY <2>1, <2>2, <1>2, <1>3
<1>8. CASE OpenImage \/ (page' = [page EXCEPT !.zoom = FALSE] /\ UNCHANGED chrome)
  <2>1. PICK x \in BOOLEAN : page' = [page EXCEPT !.zoom = x] /\ chrome' = chrome
    BY <1>8 DEF OpenImage
  <2>2. page' = [page EXCEPT !.menu = m, !.zoom = x, !.full = f]
    BY <2>1, <1>4
  <2>3. chrome' = [chrome EXCEPT !.asked = a, !.element = e, !.changed = h]
    BY <2>1, <1>5
  <2>4. QED
    BY <2>1, <2>2, <2>3, <1>2, <1>3
<1>9. CASE ToggleFullscreen \/ FullscreenRefused \/ (chrome' = [chrome EXCEPT !.asked = "exit"] /\ UNCHANGED page)
  <2>1. PICK x \in {"nothing", "enter", "exit"} : chrome' = [chrome EXCEPT !.asked = x] /\ page' = page
    <3> DEFINE x == IF chrome.element THEN "exit" ELSE "enter"
    <3>1. x \in {"nothing", "enter", "exit"}
      OBVIOUS
    <3>2. ToggleFullscreen => chrome' = [chrome EXCEPT !.asked = x] /\ page' = page
      BY DEF ToggleFullscreen
    <3> HIDE DEF x
    <3>3. QED
      BY <1>9, <3>1, <3>2 DEF FullscreenRefused
  <2>2. chrome' = [chrome EXCEPT !.asked = x, !.element = e, !.changed = h]
    BY <2>1, <1>5
  <2>3. page' = [page EXCEPT !.menu = m, !.zoom = z, !.full = f]
    BY <2>1, <1>4
  <2>4. QED
    BY <2>1, <2>2, <2>3, <1>2, <1>3
<1>10. CASE FullscreenGranted
  <2> DEFINE on == chrome.asked = "enter" /\ page.here
             c == chrome.changed \/ on # chrome.element
  <2>1. on \in BOOLEAN /\ c \in BOOLEAN
    BY Zenon
  <2>2. chrome' = [chrome EXCEPT !.asked = "nothing", !.element = on, !.changed = c] /\ page' = page
    BY <1>1, <1>10 DEF FullscreenGranted, ChromeRecords
  <2> HIDE DEF on, c
  <2>3. page' = [page EXCEPT !.menu = m, !.zoom = z, !.full = f]
    BY <2>2, <1>4
  <2>4. QED
    BY <2>1, <2>2, <2>3, <1>2, <1>3
<1>11. CASE FullscreenLost
  <2>1. chrome' = [chrome EXCEPT !.asked = a, !.element = FALSE, !.changed = TRUE]
    BY <1>11, <1>5 DEF FullscreenLost
  <2>2. page' = [page EXCEPT !.menu = m, !.zoom = z, !.full = f]
    BY <1>11, <1>4 DEF FullscreenLost
  <2>3. QED
    BY <2>1, <2>2, <1>2, <1>3
<1>12. CASE FullscreenChange
  <2> DEFINE x == chrome.element /\ page.here
  <2>1. x \in BOOLEAN
    BY Zenon
  <2>2. chrome' = [chrome EXCEPT !.changed = FALSE] /\ page' = [page EXCEPT !.full = x]
    BY <1>12 DEF FullscreenChange
  <2> HIDE DEF x
  <2>3. chrome' = [chrome EXCEPT !.asked = a, !.element = e, !.changed = FALSE]
    BY <2>2, <1>5
  <2>4. page' = [page EXCEPT !.menu = m, !.zoom = z, !.full = x]
    BY <2>2, <1>4
  <2>5. QED
    BY <2>1, <2>3, <2>4, <1>2, <1>3
<1>13. CASE ImageEffects
  <2>1. z \in BOOLEAN /\ chrome' = [chrome EXCEPT !.image = z] /\ page' = page
    BY <1>3, <1>13 DEF ImageEffects, z
  <2>2. /\ chrome' \in ChromeRecords /\ chrome'.seen = chrome.seen /\ chrome'.show = chrome.show
        /\ chrome'.locate = chrome.locate /\ chrome'.located = chrome.located
    BY <1>1, <2>1 DEF ChromeRecords
  <2>3. QED
    BY <1>1, <2>1, <2>2, AsideKeeps
<1>14. QED
  BY <1>6, <1>7, <1>8, <1>9, <1>10, <1>11, <1>12, <1>13

LEMMA ChromeStarts == ChromeInit => ChromeInv
  BY DEF ChromeInit, ChromeInv, ChromeOK, PageRecords, ChromeRecords, WatchedRecords, HeaderKept, TocKept

LEMMA KeySteps ==
  ASSUME ChromeInv, ClickBack \/ EscapeInPage \/ EscapeInBook
  PROVE  ChromeInv'
<1>1. ASSUME KeyboardHandler PROVE ChromeInv'
  <2>1. CASE UNCHANGED <<page, chrome>>
    BY <2>1 DEF ChromeInv
  <2>2. QED
    BY <1>1, <2>1, BackFacts, AsideSteps DEF KeyboardHandler
<1>2. QED
  BY <1>1, BackFacts, AsideSteps DEF ClickBack, EscapeInPage, EscapeInBook

LEMMA ChromeSteps ==
  ASSUME ChromeInv, ChromeNext \/ UNCHANGED <<page, chrome>>
  PROVE  ChromeInv'
<1>1. CASE UNCHANGED <<page, chrome>>
  BY <1>1 DEF ChromeInv
<1>2. QED
  BY <1>1, FrameSteps, HideSteps, RenderSteps, AsideSteps, KeySteps DEF ChromeNext

LEMMA ChromeImplies == ChromeInv => HeaderShown /\ TocLocated
<1> SUFFICES ASSUME ChromeInv PROVE HeaderShown /\ TocLocated
  OBVIOUS
<1>1. page \in PageRecords /\ chrome \in ChromeRecords /\ HeaderKept(page, chrome) /\ TocKept(page, chrome)
  BY DEF ChromeInv, ChromeOK
<1>2. QED
  BY <1>1, WatchedFacts DEF HeaderShown, TocLocated, HeaderKept, TocKept, Pins

(* Only HandleBack leaves the reader, and it is not reached from an open image. *)
LEMMA ImageKeepsReader ==
  ASSUME ChromeInv, ChromeNext \/ UNCHANGED <<page, chrome>>, page.zoom, chrome.image, page.here
  PROVE  page'.here
<1>1. page \in PageRecords
  BY DEF ChromeInv, ChromeOK
<1> USE <1>1 DEF PageRecords
<1>2. SyncChromeState \/ ImageEffects \/ ShowFrame \/ LocateFrame \/ FullscreenGranted \/ FullscreenChange => page'.here
  BY DEF SyncChromeState, ImageEffects, ShowFrame, LocateFrame, FullscreenGranted, FullscreenChange
<1>3. ToggleToolbar \/ SpeechPlays \/ Loaded \/ CloseSheet \/ ToggleMenu \/ DismissMenu \/ OpenImage => page'.here
  BY DEF ToggleToolbar, SpeechPlays, HideHeader, Loaded, CloseSheet, ToggleMenu, DismissMenu, OpenImage
<1>4. ToggleFullscreen \/ FullscreenRefused \/ FullscreenLost => page'.here
  BY DEF ToggleFullscreen, FullscreenRefused, FullscreenLost
<1>5. ClickBack \/ EscapeInPage \/ EscapeInBook => page'.here
  BY DEF ClickBack, EscapeInPage, EscapeInBook, KeyboardHandler
<1>6. \A c \in Chapters \cup {NoChapter} : Relocate(c) => page'.here
  BY DEF Relocate
<1>7. \A s \in Sheets : OpenSheet(s) => page'.here
  BY DEF OpenSheet
<1>8. QED
  BY <1>2, <1>3, <1>4, <1>5, <1>6, <1>7 DEF ChromeNext

(***************************************************************************)
(* The fingers on an image                                                 *)
(***************************************************************************)

Images == [scale : ReaderMinImageScale .. ReaderMaxImageScale, x : Int]
Pointers == [id : Fingers, at : Int]
Drags == [id : Fingers \cup {"none"}, start : Int, origin : Int]
Gestures == [distance : Int, scale : Int, center : Int, x : Int]
ZoomRecords == [open : BOOLEAN, image : Images, interacting : BOOLEAN]
TouchRecords == [pointers : Seq(Pointers), drag : Drags, gesture : Gestures, tapped : BOOLEAN]
HandRecords == [down : SUBSET Fingers, turned : BOOLEAN]

(* A finger is on the image once. *)
Distinct(s) == \A j, k \in DOMAIN s : s[j].id = s[k].id => j = k

Accounted(z, t, h) ==
    /\ z.interacting <=> t.pointers # <<>>
    /\ FingersOn(t) \subseteq h.down
    /\ t.drag # NoDrag => t.drag.id \in FingersOn(t)
    /\ t.gesture # NoGesture => Len(t.pointers) >= 2

Holding(z, t, h) ==
    (t.drag # NoDrag /\ t.gesture = NoGesture /\ ~h.turned) =>
        \A k \in DOMAIN t.pointers :
            t.pointers[k].id = t.drag.id => z.image.x - t.pointers[k].at = t.drag.origin - t.drag.start

ZoomOK(z, t, h) ==
    /\ z \in ZoomRecords /\ t \in TouchRecords /\ h \in HandRecords
    /\ Distinct(t.pointers)
    /\ t.gesture # NoGesture => t.gesture.scale \in ReaderMinImageScale .. ReaderMaxImageScale
    /\ ~z.open => t = NoTouch
    /\ Accounted(z, t, h)
    /\ Holding(z, t, h)

ZoomInv == ZoomOK(zoom, touch, hands)

LEMMA EmptyFacts ==
  /\ Original \in Images
  /\ NoTouch \in TouchRecords /\ NoTouch.pointers = <<>> /\ NoTouch.drag = NoDrag /\ NoTouch.gesture = NoGesture
  /\ FingersOn(NoTouch) = {}
<1>1. Original \in Images
  BY DEF Original, Images, ReaderMinImageScale, ReaderMaxImageScale
<1>2. NoDrag \in Drags /\ NoGesture \in Gestures
  BY DEF NoDrag, NoGesture, Drags, Gestures
<1>3. <<>> \in Seq(Pointers)
  OBVIOUS
<1>4. NoTouch \in TouchRecords /\ NoTouch.pointers = <<>> /\ NoTouch.drag = NoDrag /\ NoTouch.gesture = NoGesture
  BY <1>2, <1>3 DEF NoTouch, TouchRecords
<1>5. FingersOn(NoTouch) = {}
  BY <1>4 DEF FingersOn
<1>6. QED
  BY <1>1, <1>4, <1>5

(* Whatever scale is asked for, the image keeps one between the limits. *)
LEMMA ZoomedFacts ==
  ASSUME NEW z \in Images, NEW n \in Int, NEW focus \in Int
  PROVE  GetZoomedState(z, n, focus) \in Images
<1> DEFINE lower == IF n < ReaderMinImageScale THEN ReaderMinImageScale ELSE n
           scale == IF lower > ReaderMaxImageScale THEN ReaderMaxImageScale ELSE lower
           a == (focus - z.x) * scale
           x == focus - (a \div z.scale)
<1>1. scale \in ReaderMinImageScale .. ReaderMaxImageScale
  BY DEF ReaderMinImageScale, ReaderMaxImageScale
<1>2. z.scale \in Int /\ z.scale > 0 /\ z.x \in Int
  BY DEF Images, ReaderMinImageScale, ReaderMaxImageScale
<1>3. GetZoomedState(z, n, focus) = [scale |-> scale, x |-> x]
  BY DEF GetZoomedState
<1> HIDE DEF scale
<1>4. a \in Int
  BY <1>1, <1>2 DEF ReaderMinImageScale, ReaderMaxImageScale
<1> HIDE DEF a
<1>5. x \in Int
  BY <1>2, <1>4
<1> HIDE DEF x
<1>6. QED
  BY <1>1, <1>3, <1>5 DEF Images

LEMMA ToggledFacts ==
  ASSUME NEW z \in Images, NEW p \in Int
  PROVE  Toggled(z, p) \in Images
<1>1. GetZoomedState(z, 5, p) \in Images
  BY ZoomedFacts
<1>2. QED
  BY <1>1, EmptyFacts DEF Toggled

LEMMA OneLong ==
  ASSUME NEW S, NEW s \in Seq(S), Len(s) = 1
  PROVE  s[1] \in S
  OBVIOUS

LEMMA TwoLong ==
  ASSUME NEW S, NEW s \in Seq(S), Len(s) = 2
  PROVE  s[1] \in S /\ s[2] \in S /\ Len(s) >= 2 /\ s # <<>>
  OBVIOUS

(* One finger lifted. *)
LEMMA RemoveAtFacts ==
  ASSUME NEW S, NEW s \in Seq(S), NEW i \in 1 .. Len(s)
  PROVE  /\ RemoveAt(s, i) \in Seq(S)
         /\ Len(RemoveAt(s, i)) = Len(s) - 1
         /\ \A j \in 1 .. Len(s) - 1 : RemoveAt(s, i)[j] = IF j < i THEN s[j] ELSE s[j + 1]
<1> DEFINE a == SubSeq(s, 1, i - 1)
           b == SubSeq(s, i + 1, Len(s))
<1>1. a \in Seq(S) /\ Len(a) = i - 1 /\ \A j \in 1 .. i - 1 : a[j] = s[j]
  OBVIOUS
<1>2. b \in Seq(S) /\ Len(b) = Len(s) - i /\ \A j \in 1 .. Len(s) - i : b[j] = s[j + i]
  OBVIOUS
<1>3. RemoveAt(s, i) = a \o b
  BY DEF RemoveAt
<1> HIDE DEF a, b
<1>4. /\ a \o b \in Seq(S) /\ Len(a \o b) = Len(s) - 1
      /\ \A j \in 1 .. Len(s) - 1 : (a \o b)[j] = IF j <= Len(a) THEN a[j] ELSE b[j - Len(a)]
  <2>1. a \o b \in Seq(S) /\ Len(a \o b) = Len(a) + Len(b)
    BY <1>1, <1>2, ConcatProperties
  <2>2. Len(a) + Len(b) = Len(s) - 1
    BY <1>1, <1>2
  <2>3. \A j \in 1 .. Len(a) + Len(b) : (a \o b)[j] = IF j <= Len(a) THEN a[j] ELSE b[j - Len(a)]
    BY <1>1, <1>2
  <2>4. QED
    BY <2>1, <2>2, <2>3
<1>5. ASSUME NEW j \in 1 .. Len(s) - 1
      PROVE  (a \o b)[j] = IF j < i THEN s[j] ELSE s[j + 1]
  <2>1. CASE j < i
    BY <2>1, <1>1, <1>4
  <2>2. CASE ~(j < i)
    <3>1. (a \o b)[j] = b[j - (i - 1)]
      BY <2>2, <1>1, <1>4
    <3>2. j - (i - 1) \in 1 .. Len(s) - i /\ (j - (i - 1)) + i = j + 1
      BY <2>2
    <3>3. QED
      BY <3>1, <3>2, <2>2, <1>2
  <2>3. QED
    BY <2>1, <2>2
<1>6. QED
  BY <1>3, <1>4, <1>5

LEMMA OpenCloseSteps ==
  ASSUME ZoomInv, HandleImageOpen \/ HandleImageClose
  PROVE  ZoomInv'
<1>1. touch' = NoTouch /\ hands' = hands /\ hands \in HandRecords
  BY DEF ZoomInv, ZoomOK, HandleImageOpen, HandleImageClose
<1>2. /\ zoom'.interacting = FALSE
      /\ zoom' \in ZoomRecords
  <2>1. PICK o \in BOOLEAN : zoom' = [open |-> o, image |-> Original, interacting |-> FALSE]
    BY DEF HandleImageOpen, HandleImageClose
  <2>2. QED
    BY <2>1, EmptyFacts DEF ZoomRecords
<1>3. QED
  BY <1>1, <1>2, EmptyFacts DEF ZoomInv, ZoomOK, Accounted, Holding, Distinct

(* A double click and the wheel change the image under the fingers; the wheel *)
(* is remembered until the drag begins anew.                                  *)
LEMMA WheelSteps ==
  ASSUME ZoomInv, NEW at \in Points, HandleImageDoubleClick(at) \/ \E up \in BOOLEAN : HandleWheel(at, up)
  PROVE  ZoomInv'
<1>1. at \in Int /\ zoom \in ZoomRecords /\ zoom.image \in Images /\ touch \in TouchRecords /\ hands \in HandRecords
  BY PointsAssumption DEF ZoomInv, ZoomOK, ZoomRecords
<1>2. touch' = touch /\ zoom.open
  BY DEF HandleImageDoubleClick, HandleWheel
<1>3. PICK i \in Images : zoom' = [zoom EXCEPT !.image = i]
  <2>1. CASE HandleImageDoubleClick(at)
    <3> DEFINE m == Toggled(zoom.image, at)
    <3>1. m \in Images
      BY <1>1, ToggledFacts
    <3>2. zoom' = [zoom EXCEPT !.image = Toggled(m, at)]
      BY <2>1 DEF HandleImageDoubleClick
    <3> HIDE DEF m
    <3>3. Toggled(m, at) \in Images
      BY <1>1, <3>1, ToggledFacts
    <3>4. QED
      BY <3>2, <3>3
  <2>2. ASSUME NEW up \in BOOLEAN, HandleWheel(at, up) PROVE \E i \in Images : zoom' = [zoom EXCEPT !.image = i]
    <3> DEFINE m == zoom.image
               n == IF up THEN m.scale * 2 ELSE m.scale \div 2
    <3>1. n \in Int
      BY <1>1 DEF Images, ReaderMinImageScale, ReaderMaxImageScale
    <3>2. zoom' = [zoom EXCEPT !.image = GetZoomedState(m, n, at)]
      BY <2>2 DEF HandleWheel
    <3>3. m \in Images
      BY <1>1
    <3> HIDE DEF m, n
    <3>4. GetZoomedState(m, n, at) \in Images
      BY <1>1, <3>1, <3>3, ZoomedFacts
    <3>5. QED
      BY <3>2, <3>4
  <2>3. QED
    BY <2>1, <2>2
<1>4. zoom' \in ZoomRecords /\ zoom'.open /\ zoom'.interacting = zoom.interacting
  BY <1>1, <1>2, <1>3 DEF ZoomRecords
<1>5. hands' \in HandRecords /\ hands'.down = hands.down
  BY <1>1 DEF HandleImageDoubleClick, HandleWheel, HandRecords
<1>6. Accounted(zoom', touch, hands')
  BY <1>4, <1>5 DEF ZoomInv, ZoomOK, Accounted
<1>7. Holding(zoom', touch, hands')
  <2>1. CASE HandleImageDoubleClick(at)
    <3>1. touch.pointers = <<>>
      BY <2>1 DEF HandleImageDoubleClick
    <3>2. QED
      BY <3>1 DEF Holding
  <2>2. CASE \E up \in BOOLEAN : HandleWheel(at, up)
    BY <2>2, <1>1 DEF HandleWheel, HandRecords, Holding
  <2>3. QED
    BY <2>1, <2>2
<1>8. QED
  BY <1>1, <1>2, <1>4, <1>5, <1>6, <1>7 DEF ZoomInv, ZoomOK

(* One finger more. *)
LEMMA OneMore ==
  ASSUME NEW S, NEW s \in Seq(S), NEW e \in S, NEW n, n = Append(s, e)
  PROVE  /\ n \in Seq(S) /\ Len(n) = Len(s) + 1 /\ n[Len(s) + 1] = e /\ n # <<>>
         /\ \A k \in 1 .. Len(s) : n[k] = s[k]
         /\ DOMAIN s = 1 .. Len(s) /\ DOMAIN n = 1 .. Len(s) + 1 /\ Len(s) \in Nat
OBVIOUS

(* A finger that goes down is not yet on the image. *)
LEMMA DownSteps ==
  ASSUME ZoomInv, NEW f \in Fingers, NEW at \in Points, HandleImagePointerDown(f, at)
  PROVE  ZoomInv'
<1> DEFINE s == touch.pointers
           p == [id |-> f, at |-> at]
           now == Append(s, p)
<1>1. /\ at \in Int /\ zoom \in ZoomRecords /\ zoom.image \in Images /\ touch \in TouchRecords /\ hands \in HandRecords
      /\ s \in Seq(Pointers) /\ Distinct(s) /\ Accounted(zoom, touch, hands) /\ Holding(zoom, touch, hands)
  BY PointsAssumption DEF ZoomInv, ZoomOK, ZoomRecords, TouchRecords
<1>2. zoom.open /\ f \notin hands.down /\ zoom' = [zoom EXCEPT !.interacting = TRUE]
  BY DEF HandleImagePointerDown
<1>3. /\ zoom' \in ZoomRecords /\ zoom'.open /\ zoom'.interacting /\ zoom'.image = zoom.image
  BY <1>1, <1>2 DEF ZoomRecords
<1>4. /\ p \in Pointers /\ p.id = f /\ p.at = at
  BY <1>1 DEF Pointers
<1>5. zoom.image.x \in Int /\ zoom.image.scale \in ReaderMinImageScale .. ReaderMaxImageScale /\ zoom.image.scale \in Int
  BY <1>1 DEF Images, ReaderMinImageScale, ReaderMaxImageScale
<1>6. PICK b \in BOOLEAN : hands' = [down |-> hands.down \cup {f}, turned |-> b] /\ (b <=> hands.turned /\ KeepsDrag)
  <2> DEFINE b == hands.turned /\ KeepsDrag
  <2>1. b \in BOOLEAN
    BY Zenon
  <2>2. hands' = [down |-> hands.down \cup {f}, turned |-> b]
    BY DEF HandleImagePointerDown
  <2>3. b <=> hands.turned /\ KeepsDrag
    BY Zenon
  <2> HIDE DEF b
  <2>4. QED
    BY <2>1, <2>2, <2>3
<1>7. hands' \in HandRecords /\ hands'.down = hands.down \cup {f} /\ hands'.turned = b
  BY <1>1, <1>6 DEF HandRecords
<1>8. \A k \in DOMAIN s : s[k] \in Pointers /\ s[k].id # f /\ s[k].id \in hands.down
  BY <1>1, <1>2 DEF Accounted, FingersOn
<1> HIDE DEF p
<1>9. /\ now \in Seq(Pointers) /\ Len(now) = Len(s) + 1 /\ now[Len(s) + 1] = p /\ now # <<>>
      /\ \A k \in 1 .. Len(s) : now[k] = s[k]
      /\ DOMAIN s = 1 .. Len(s) /\ DOMAIN now = 1 .. Len(s) + 1 /\ Len(s) \in Nat
  BY <1>1, <1>4, OneMore
<1> HIDE DEF now
<1>15. now \in Seq(Pointers) /\ s \in Seq(Pointers) /\ Len(now) = Len(s) + 1 /\ now # <<>>
  BY <1>1, <1>9
<1>10. Distinct(now)
  <2> SUFFICES ASSUME NEW j \in 1 .. Len(s) + 1, NEW k \in 1 .. Len(s) + 1, now[j].id = now[k].id PROVE j = k
    BY <1>9 DEF Distinct
  <2>1. CASE j = Len(s) + 1
    BY <2>1, <1>4, <1>8, <1>9
  <2>2. CASE k = Len(s) + 1
    BY <2>2, <1>4, <1>8, <1>9
  <2>3. CASE j \in 1 .. Len(s) /\ k \in 1 .. Len(s)
    BY <2>3, <1>1, <1>9 DEF Distinct
  <2>4. QED
    BY <2>1, <2>2, <2>3, <1>9
<1>11. \A t : t.pointers = now => f \in FingersOn(t) /\ FingersOn(t) = FingersOn(touch) \cup {f}
  <2> SUFFICES ASSUME NEW t, t.pointers = now PROVE f \in FingersOn(t) /\ FingersOn(t) = FingersOn(touch) \cup {f}
    OBVIOUS
  <2>1. FingersOn(t) = {now[k].id : k \in 1 .. Len(s) + 1} /\ FingersOn(touch) = {s[k].id : k \in 1 .. Len(s)}
    BY <1>9 DEF FingersOn
  <2>2. \A k \in 1 .. Len(s) + 1 : now[k].id = IF k = Len(s) + 1 THEN f ELSE s[k].id
    BY <1>4, <1>9
  <2>3. FingersOn(t) \subseteq FingersOn(touch) \cup {f}
    BY <2>1, <2>2, <1>9
  <2>4. FingersOn(touch) \cup {f} \subseteq FingersOn(t)
    BY <2>1, <2>2, <1>9
  <2>5. QED
    BY <2>3, <2>4
<1>12. CASE Len(now) = 2
  <2> DEFINE g == [distance |-> Distance(now[1].at, now[2].at), scale |-> zoom.image.scale,
                   center |-> (now[1].at + now[2].at) \div 2, x |-> zoom.image.x]
             d == Distance(now[1].at, now[2].at)
             c == (now[1].at + now[2].at) \div 2
  <2>1. touch' = [touch EXCEPT !.pointers = now, !.drag = NoDrag, !.gesture = g]
    BY <1>12 DEF HandleImagePointerDown, now, p
  <2>2. d \in Int /\ c \in Int
    <3>1. now[1] \in Pointers /\ now[2] \in Pointers
      BY <1>12, <1>15, TwoLong
    <3>2. QED
      BY <3>1 DEF Pointers, Distance
  <2>3. g = [distance |-> d, scale |-> zoom.image.scale, center |-> c, x |-> zoom.image.x]
    OBVIOUS
  <2> HIDE DEF d, c
  <2>4. g \in Gestures /\ g.scale = zoom.image.scale
    BY <1>5, <2>2, <2>3 DEF Gestures
  <2> HIDE DEF g
  <2>5. NoDrag \in Drags
    BY DEF NoDrag, Drags
  <2>6. touch' \in TouchRecords /\ touch'.pointers = now /\ touch'.drag = NoDrag /\ touch'.gesture = g
    BY <1>1, <1>9, <2>1, <2>4, <2>5 DEF TouchRecords
  <2>7. Accounted(zoom', touch', hands')
    <3>1. FingersOn(touch') \subseteq hands'.down
      BY <1>1, <1>7, <1>11, <2>6 DEF Accounted
    <3>2. Len(touch'.pointers) >= 2 /\ touch'.pointers # <<>>
      BY <1>12, <1>15, <2>6, TwoLong
    <3>3. QED
      BY <1>3, <2>6, <3>1, <3>2 DEF Accounted
  <2>8. Holding(zoom', touch', hands')
    BY <2>6 DEF Holding
  <2>9. QED
    BY <1>3, <1>5, <1>7, <1>10, <2>4, <2>6, <2>7, <2>8 DEF ZoomInv, ZoomOK
<1>13. CASE Len(now) # 2
  <2> DEFINE d == IF zoom.image.scale > ReaderMinImageScale THEN DragOf(p) ELSE touch.drag
  <2>1. touch' = [touch EXCEPT !.pointers = now, !.drag = d]
    BY <1>1, <1>13 DEF HandleImagePointerDown, now, p, TouchRecords
  <2>2. DragOf(p) \in Drags /\ DragOf(p).id = f /\ DragOf(p).start = at /\ DragOf(p).origin = zoom.image.x
    BY <1>1, <1>4, <1>5 DEF DragOf, Drags
  <2>3. d \in Drags
    BY <1>1, <2>2 DEF TouchRecords
  <2> HIDE DEF d
  <2>4. touch' \in TouchRecords /\ touch'.pointers = now /\ touch'.drag = d /\ touch'.gesture = touch.gesture
    BY <1>1, <1>9, <2>1, <2>3 DEF TouchRecords
  <2>5. Accounted(zoom', touch', hands')
    <3>1. d # NoDrag => d.id \in FingersOn(touch')
      BY <1>1, <1>11, <2>2, <2>4 DEF d, Accounted
    <3>2. touch'.gesture # NoGesture => Len(now) >= 2
      BY <1>1, <1>9, <2>4 DEF Accounted
    <3>3. FingersOn(touch') \subseteq hands'.down
      BY <1>1, <1>7, <1>11, <2>4 DEF Accounted
    <3>4. QED
      BY <1>3, <1>9, <2>4, <3>1, <3>2, <3>3 DEF Accounted
  <2>6. Holding(zoom', touch', hands')
    <3> SUFFICES ASSUME d # NoDrag, touch.gesture = NoGesture, ~b, NEW k \in 1 .. Len(s) + 1, now[k].id = d.id
                 PROVE  zoom.image.x - now[k].at = d.origin - d.start
      BY <1>3, <1>7, <1>9, <2>4 DEF Holding
    <3>1. CASE zoom.image.scale > ReaderMinImageScale
      <4>1. k = Len(s) + 1
        BY <3>1, <2>2, <1>8, <1>9 DEF d
      <4>2. QED
        BY <3>1, <4>1, <2>2, <1>1, <1>4, <1>5, <1>9 DEF d
    <3>2. CASE ~(zoom.image.scale > ReaderMinImageScale)
      <4>1. d = touch.drag /\ d.id \in FingersOn(touch)
        BY <3>2, <1>1 DEF d, Accounted
      <4>2. PICK i \in 1 .. Len(s) : s[i].id = d.id
        BY <4>1, <1>9 DEF FingersOn
      <4>3. k \in 1 .. Len(s) /\ now[k] = s[k]
        BY <4>2, <1>4, <1>8, <1>9
      <4>4. ~hands.turned
        BY <3>2, <1>5, <1>6, <1>9, <1>13 DEF KeepsDrag, ReaderMinImageScale
      <4>5. QED
        BY <4>1, <4>3, <4>4, <1>1, <1>9 DEF Holding
    <3>3. QED
      BY <3>1, <3>2
  <2>7. QED
    BY <1>1, <1>3, <1>7, <1>10, <2>4, <2>5, <2>6 DEF ZoomInv, ZoomOK
<1>14. QED
  BY <1>12, <1>13

(* Two fingers pinch, one drags: the image is still within the limits. *)
LEMMA MoveSteps ==
  ASSUME ZoomInv, NEW f \in Fingers, NEW at \in Points, HandleImagePointerMove(f, at)
  PROVE  ZoomInv'
<1> DEFINE s == touch.pointers
           p == [id |-> f, at |-> at]
           now == [k \in DOMAIN s |-> IF s[k].id = f THEN p ELSE s[k]]
           g == touch.gesture
           drag == touch.drag
           center == (now[1].at + now[2].at) \div 2
           pinched == GetZoomedState([scale |-> g.scale, x |-> g.x],
                                     (g.scale * Distance(now[1].at, now[2].at)) \div
                                        (IF g.distance < 1 THEN 1 ELSE g.distance), g.center)
           carried == [scale |-> pinched.scale, x |-> pinched.x + center - g.center]
           dragged == [zoom.image EXCEPT !.x = drag.origin + at - drag.start]
           image == IF Len(now) >= 2 /\ g # NoGesture THEN carried ELSE IF drag.id = f THEN dragged ELSE zoom.image
<1>1. /\ at \in Int /\ zoom \in ZoomRecords /\ zoom.image \in Images /\ touch \in TouchRecords /\ hands \in HandRecords
      /\ s \in Seq(Pointers) /\ Distinct(s) /\ Accounted(zoom, touch, hands) /\ Holding(zoom, touch, hands)
      /\ g \in Gestures /\ drag \in Drags
      /\ g # NoGesture => g.scale \in ReaderMinImageScale .. ReaderMaxImageScale
  BY PointsAssumption DEF ZoomInv, ZoomOK, ZoomRecords, TouchRecords
<1>2. /\ zoom.open /\ f \in FingersOn(touch)
      /\ touch' = [touch EXCEPT !.pointers = now]
      /\ zoom' = [zoom EXCEPT !.image = image]
      /\ hands' = hands
  BY DEF HandleImagePointerMove
<1>3. p \in Pointers /\ p.id = f /\ p.at = at
  BY <1>1 DEF Pointers
<1>4. \A k \in DOMAIN s : s[k] \in Pointers
  BY <1>1
<1> HIDE DEF p
<1>5. /\ now \in Seq(Pointers) /\ DOMAIN now = DOMAIN s /\ Len(now) = Len(s)
      /\ \A k \in DOMAIN s : now[k] = IF s[k].id = f THEN p ELSE s[k]
  <2>1. DOMAIN s = 1 .. Len(s) /\ Len(s) \in Nat
    BY <1>1
  <2>2. now \in [1 .. Len(s) -> Pointers]
    BY <1>3, <1>4, <2>1
  <2>3. DOMAIN now = DOMAIN s /\ \A k \in DOMAIN s : now[k] = IF s[k].id = f THEN p ELSE s[k]
    OBVIOUS
  <2> HIDE DEF now
  <2>4. now \in Seq(Pointers) /\ Len(now) = Len(s)
    BY <2>1, <2>2
  <2>5. QED
    BY <2>3, <2>4
<1>6. \A k \in DOMAIN s : now[k].id = s[k].id
  BY <1>3, <1>5
<1>7. carried \in Images \/ ~(Len(now) >= 2 /\ g # NoGesture)
  <2> SUFFICES ASSUME Len(now) >= 2, g # NoGesture PROVE carried \in Images
    OBVIOUS
  <2> HIDE DEF now
  <2> DEFINE dist == Distance(now[1].at, now[2].at)
             den == IF g.distance < 1 THEN 1 ELSE g.distance
             num == g.scale * dist
             n == num \div den
             z == [scale |-> g.scale, x |-> g.x]
             c == g.center
  <2>1. now[1] \in Pointers /\ now[2] \in Pointers
    BY <1>5
  <2>2. dist \in Int /\ center \in Int
    BY <2>1 DEF Pointers, Distance
  <2>3. den \in Int /\ den > 0 /\ c \in Int /\ z \in Images /\ g.scale \in Int
    BY <1>1 DEF Gestures, Images
  <2>4. pinched = GetZoomedState(z, n, c)
    OBVIOUS
  <2> HIDE DEF g, dist, den, z, c, center
  <2>5. num \in Int
    BY <2>2, <2>3
  <2> HIDE DEF num
  <2>6. n \in Int
    BY <2>3, <2>5
  <2> HIDE DEF n
  <2>7. pinched \in Images
    BY <2>3, <2>4, <2>6, ZoomedFacts
  <2> HIDE DEF pinched
  <2>8. carried = [scale |-> pinched.scale, x |-> pinched.x + center - c]
    BY DEF c
  <2>9. pinched.x + center - c \in Int /\ pinched.scale \in ReaderMinImageScale .. ReaderMaxImageScale
    BY <2>2, <2>3, <2>7 DEF Images
  <2>10. QED
    BY <2>8, <2>9 DEF Images
<1>8. dragged \in Images /\ dragged.x = drag.origin + at - drag.start
  <2> DEFINE x == drag.origin + at - drag.start
  <2>1. x \in Int
    BY <1>1 DEF Drags
  <2>2. dragged = [zoom.image EXCEPT !.x = x]
    OBVIOUS
  <2> HIDE DEF x
  <2>3. dragged \in Images /\ dragged.x = x
    BY <1>1, <2>1, <2>2 DEF Images
  <2>4. QED
    BY <2>3 DEF x
<1>9. image \in Images /\ (g = NoGesture => image = IF drag.id = f THEN dragged ELSE zoom.image)
  <2> HIDE DEF carried, dragged, now
  <2>1. QED
    BY <1>1, <1>7, <1>8
<1> HIDE DEF image, now, carried, pinched, center
<1>10. /\ zoom' \in ZoomRecords /\ zoom'.image = image /\ zoom'.open /\ zoom'.interacting = zoom.interacting
       /\ touch' \in TouchRecords /\ touch'.pointers = now /\ touch'.drag = drag /\ touch'.gesture = g
  BY <1>1, <1>2, <1>5, <1>9 DEF ZoomRecords, TouchRecords
<1>11. Distinct(now)
  BY <1>1, <1>5, <1>6 DEF Distinct
<1>12. FingersOn(touch') = FingersOn(touch)
  BY <1>5, <1>6, <1>10 DEF FingersOn
<1>13. Accounted(zoom', touch', hands')
  <2>1. now # <<>> <=> s # <<>>
    BY <1>1, <1>5
  <2>2. QED
    BY <1>1, <1>2, <1>5, <1>10, <1>12, <2>1 DEF Accounted
<1>14. Holding(zoom', touch', hands')
  <2> SUFFICES ASSUME drag # NoDrag, g = NoGesture, ~hands.turned, NEW k \in DOMAIN s, now[k].id = drag.id
               PROVE  image.x - now[k].at = drag.origin - drag.start
    BY <1>2, <1>5, <1>10 DEF Holding
  <2>1. zoom.image.x - s[k].at = drag.origin - drag.start
    BY <1>1, <1>6 DEF Holding
  <2>2. CASE drag.id = f
    <3>1. now[k] = p /\ image.x = drag.origin + at - drag.start
      BY <2>2, <1>5, <1>6, <1>8, <1>9
    <3>2. drag.origin \in Int /\ drag.start \in Int
      BY <1>1 DEF Drags
    <3>3. QED
      BY <3>1, <3>2, <1>1, <1>3
  <2>3. CASE drag.id # f
    BY <2>1, <2>3, <1>5, <1>6, <1>9
  <2>4. QED
    BY <2>2, <2>3
<1>16. QED
  BY <1>1, <1>2, <1>10, <1>11, <1>13, <1>14 DEF ZoomInv, ZoomOK

(* What is left when a finger lifts. *)
LEMMA LiftFacts ==
  ASSUME ZoomInv, NEW f \in Fingers, zoom.open
  PROVE  LET l == AfterLift(f) IN
         /\ l \in TouchRecords /\ l.gesture = NoGesture /\ l.tapped = touch.tapped
         /\ Distinct(l.pointers) /\ FingersOn(l) \subseteq FingersOn(touch) \ {f}
         /\ l.drag # NoDrag => /\ Len(l.pointers) = 1 /\ l.drag.id = l.pointers[1].id
                               /\ l.drag.start = l.pointers[1].at /\ l.drag.origin = zoom.image.x
                               /\ l.pointers[1].at \in Int
<1> DEFINE s == touch.pointers
           hit == {k \in DOMAIN s : s[k].id = f}
           i == CHOOSE k \in hit : TRUE
           rest == IF hit = {} THEN s ELSE RemoveAt(s, i)
           drag == IF Len(rest) = 1 /\ zoom.image.scale > ReaderMinImageScale THEN DragOf(rest[1]) ELSE NoDrag
           l == AfterLift(f)
<1>1. /\ touch \in TouchRecords /\ s \in Seq(Pointers) /\ Distinct(s) /\ zoom.image.x \in Int
  BY DEF ZoomInv, ZoomOK, TouchRecords, ZoomRecords, Images
<1>2. l = [touch EXCEPT !.pointers = rest, !.gesture = NoGesture, !.drag = drag]
  BY DEF AfterLift
<1>3. DOMAIN s = 1 .. Len(s) /\ Len(s) \in Nat
  BY <1>1
<1>4. /\ rest \in Seq(Pointers) /\ Distinct(rest)
      /\ \A j \in DOMAIN rest : rest[j].id # f /\ \E k \in DOMAIN s : rest[j].id = s[k].id
  <2>1. CASE hit = {}
    BY <2>1, <1>1
  <2>2. CASE hit # {}
    <3>1. i \in hit
      BY <2>2, Zenon
    <3>2. rest = RemoveAt(s, i)
      BY <2>2
    <3>3. i \in 1 .. Len(s) /\ s[i].id = f
      BY <3>1, <1>3
    <3> HIDE DEF i, rest
    <3>4. /\ rest \in Seq(Pointers) /\ Len(rest) = Len(s) - 1
          /\ \A j \in 1 .. Len(s) - 1 : rest[j] = IF j < i THEN s[j] ELSE s[j + 1]
      BY <1>1, <3>2, <3>3, RemoveAtFacts
    <3> DEFINE from(j) == IF j < i THEN j ELSE j + 1
    <3>5. \A j \in 1 .. Len(s) - 1 : from(j) \in 1 .. Len(s) /\ from(j) # i /\ rest[j] = s[from(j)]
      BY <1>3, <3>3, <3>4
    <3>6. \A j, k \in 1 .. Len(s) - 1 : from(j) = from(k) => j = k
      BY <1>3, <3>3
    <3>7. DOMAIN rest = 1 .. Len(s) - 1
      BY <3>4
    <3> HIDE DEF from
    <3>8. Distinct(rest)
      BY <1>1, <1>3, <3>5, <3>6, <3>7 DEF Distinct
    <3>9. \A j \in DOMAIN rest : rest[j].id # f /\ \E k \in DOMAIN s : rest[j].id = s[k].id
      BY <1>1, <1>3, <3>3, <3>5, <3>7 DEF Distinct
    <3>10. QED
      BY <3>4, <3>8, <3>9
  <2>3. QED
    BY <2>1, <2>2
<1> HIDE DEF rest
<1>5. /\ drag \in Drags
      /\ drag # NoDrag => /\ Len(rest) = 1 /\ drag.id = rest[1].id /\ drag.start = rest[1].at
                          /\ drag.origin = zoom.image.x /\ rest[1].at \in Int
  <2>1. CASE drag = NoDrag
    BY <2>1 DEF NoDrag, Drags
  <2>2. CASE drag # NoDrag
    <3>1. Len(rest) = 1 /\ drag = DragOf(rest[1])
      BY <2>2
    <3>2. rest[1] \in Pointers
      <4>1. rest \in Seq(Pointers)
        BY <1>4
      <4>2. QED
        BY <3>1, <4>1, OneLong
    <3>3. QED
      BY <3>1, <3>2, <1>1 DEF DragOf, Drags, Pointers
  <2>3. QED
    BY <2>1, <2>2
<1> HIDE DEF drag, l
<1>6. NoGesture \in Gestures
  BY DEF NoGesture, Gestures
<1>7. l \in TouchRecords /\ l.gesture = NoGesture /\ l.tapped = touch.tapped /\ l.pointers = rest /\ l.drag = drag
  BY <1>1, <1>2, <1>4, <1>5, <1>6 DEF TouchRecords
<1>8. FingersOn(l) \subseteq FingersOn(touch) \ {f}
  BY <1>4, <1>7 DEF FingersOn
<1>9. QED
  BY <1>4, <1>5, <1>7, <1>8 DEF l

LEMMA EndSteps ==
  ASSUME ZoomInv, NEW f \in Fingers, NEW at \in Points, NEW soon \in BOOLEAN, HandleImagePointerEnd(f, at, soon)
  PROVE  ZoomInv'
<1>1. /\ at \in Int /\ zoom \in ZoomRecords /\ zoom.image \in Images /\ touch \in TouchRecords /\ hands \in HandRecords
      /\ Accounted(zoom, touch, hands) /\ Holding(zoom, touch, hands) /\ (~zoom.open => touch = NoTouch)
  BY PointsAssumption DEF ZoomInv, ZoomOK, ZoomRecords
<1>2. hands' \in HandRecords /\ hands'.down = hands.down \ {f} /\ ~hands'.turned
  BY <1>1 DEF HandleImagePointerEnd, HandRecords
<1>3. CASE ~zoom.open
  <2>1. zoom' = zoom /\ touch' = touch /\ touch = NoTouch
    BY <1>1, <1>3 DEF HandleImagePointerEnd
  <2>2. Accounted(zoom, touch, hands')
    BY <1>1, <2>1, EmptyFacts DEF Accounted
  <2>3. Holding(zoom, touch, hands')
    BY <2>1, EmptyFacts DEF Holding
  <2>4. QED
    BY <1>2, <2>1, <2>2, <2>3 DEF ZoomInv, ZoomOK
<1>4. CASE zoom.open
  <2> DEFINE l == AfterLift(f)
             moved == touch.drag # NoDrag /\ Distance(at, touch.drag.start) > 0
             taps == ~moved /\ touch.gesture = NoGesture /\ l.pointers = <<>>
             again == taps /\ touch.tapped /\ soon
             i == l.pointers # <<>>
             b == ~again
             m == IF again THEN Toggled(zoom.image, at) ELSE zoom.image
  <2>1. /\ l \in TouchRecords /\ l.gesture = NoGesture /\ l.tapped = touch.tapped
        /\ Distinct(l.pointers) /\ FingersOn(l) \subseteq FingersOn(touch) \ {f}
        /\ l.drag # NoDrag => /\ Len(l.pointers) = 1 /\ l.drag.id = l.pointers[1].id
                              /\ l.drag.start = l.pointers[1].at /\ l.drag.origin = zoom.image.x
                              /\ l.pointers[1].at \in Int
    BY <1>4, LiftFacts
  <2>2. /\ touch' = IF taps THEN [l EXCEPT !.tapped = b] ELSE l
        /\ zoom' = [zoom EXCEPT !.interacting = i, !.image = m]
    BY <1>1, <1>4 DEF HandleImagePointerEnd, ZoomRecords
  <2>3. i \in BOOLEAN /\ b \in BOOLEAN /\ (again => l.pointers = <<>>)
    BY Zenon
  <2> HIDE DEF l
  <2>4. m \in Images /\ (l.pointers # <<>> => m = zoom.image)
    BY <1>1, <2>3, ToggledFacts
  <2>5. i <=> l.pointers # <<>>
    BY Zenon
  <2> HIDE DEF i, b, m, taps
  <2>6. /\ zoom' \in ZoomRecords /\ zoom'.open /\ zoom'.interacting = i /\ zoom'.image = m
    BY <1>1, <1>4, <2>2, <2>3, <2>4 DEF ZoomRecords
  <2>7. touch' \in TouchRecords /\ touch'.pointers = l.pointers /\ touch'.drag = l.drag /\ touch'.gesture = NoGesture
    BY <2>1, <2>2, <2>3 DEF TouchRecords
  <2>8. FingersOn(touch') \subseteq hands'.down
    BY <1>1, <1>2, <2>1, <2>7 DEF Accounted, FingersOn
  <2>9. l.drag # NoDrag => l.drag.id \in FingersOn(touch') /\ l.pointers # <<>>
    <3> SUFFICES ASSUME l.drag # NoDrag PROVE l.drag.id \in FingersOn(touch') /\ l.pointers # <<>>
      OBVIOUS
    <3>1. l.pointers \in Seq(Pointers) /\ Len(l.pointers) = 1 /\ l.drag.id = l.pointers[1].id
      BY <2>1 DEF TouchRecords
    <3>2. 1 \in DOMAIN l.pointers /\ l.pointers # <<>>
      BY <3>1
    <3>3. QED
      BY <2>7, <3>1, <3>2 DEF FingersOn
  <2>10. Accounted(zoom', touch', hands')
    BY <2>5, <2>6, <2>7, <2>8, <2>9 DEF Accounted
  <2>11. Holding(zoom', touch', hands')
    <3> SUFFICES ASSUME l.drag # NoDrag, NEW k \in DOMAIN l.pointers
                 PROVE  m.x - l.pointers[k].at = l.drag.origin - l.drag.start
      BY <2>6, <2>7 DEF Holding
    <3>1. k = 1
      BY <2>1 DEF TouchRecords
    <3>2. QED
      BY <3>1, <2>1, <2>4, <2>9
  <2>12. QED
    BY <1>2, <2>1, <2>6, <2>7, <2>10, <2>11 DEF ZoomInv, ZoomOK
<1>5. QED
  BY <1>3, <1>4

LEMMA ZoomStarts == ZoomInit => ZoomInv
<1> SUFFICES ASSUME ZoomInit PROVE ZoomInv
  OBVIOUS
<1>1. zoom \in ZoomRecords /\ ~zoom.interacting /\ hands \in HandRecords /\ touch = NoTouch
  BY EmptyFacts DEF ZoomInit, ZoomRecords, HandRecords
<1>2. QED
  BY <1>1, EmptyFacts DEF ZoomInv, ZoomOK, Accounted, Holding, Distinct

LEMMA ZoomSteps ==
  ASSUME ZoomInv, ZoomNext \/ UNCHANGED <<zoom, touch, hands>>
  PROVE  ZoomInv'
<1>1. CASE UNCHANGED <<zoom, touch, hands>>
  BY <1>1 DEF ZoomInv
<1>2. QED
  BY <1>1, OpenCloseSteps, WheelSteps, DownSteps, MoveSteps, EndSteps DEF ZoomNext

LEMMA ZoomImplies == ZoomInv => PointersAccounted /\ DragHolds
  BY DEF ZoomInv, ZoomOK, Accounted, Holding, PointersAccounted, DragHolds

(***************************************************************************)
(* Pages                                                                   *)
(***************************************************************************)
PageAnchors == {a \in [kind : {"fraction", "text"}, at : Nat] : a.kind = "fraction" => a.at \in {0, 1}}

PagerRecords ==
    [index : Sections \cup {Unset, Undefined}, section : (Sections \ Missing) \cup {0}, ready : BOOLEAN,
     size : PageSizes, flow : {"paginated", "scrolled"}, at : Nat, base : Nat, anchor : PageAnchors,
     place : Int, just : BOOLEAN, moved : BOOLEAN, locked : BOOLEAN]

TaskRecords ==
    [stage : {"none", "touched", "scroll", "load", "frame", "wait", "lost"}, dir : {-1, 0, 1}, to : Int,
     pages : Nat, go : Sections \cup {0}, anchor : PageAnchors, disturbed : BOOLEAN]

(* The anchor is in the text of section i. *)
Fits(a, i) == a.kind = "text" => a.at < Texts[i]

IsShown(P) == P.ready /\ P.index = P.section
HasPlace(P) == IsShown(P) /\ P.place # Lost
HasPrev(P) == AdjacentIndex(P.index, -1) # Undefined
HasNext(P) == AdjacentIndex(P.index, 1) # Undefined

(* The view shows a section whose file exists, and the index is its own or that of one that could not be shown. *)
ViewOK(P) ==
    /\ P \in PagerRecords
    /\ P.ready => P.section # 0
    /\ P.index \in {P.section, Undefined} \cup Missing

(* The place of the reader is where the anchor is. *)
PlaceOK(P) == HasPlace(P) => P.place = AnchorPlace(P) /\ P.place \in 0 .. Length(P) - 1

(* No scroll goes past the blank pages, and one of them is reached only on the way to another section. *)
RangeOK(P) == P.ready /\ ~Scrolled(P) => P.at \in 0 .. Pages(P) - 1 /\ P.base \in 0 .. Pages(P) - 1
EdgeOK(P) == HasPlace(P) /\ ~Scrolled(P) => (P.base = 0 => HasPrev(P)) /\ (P.base = Pages(P) - 1 => HasNext(P))

PagerOK(P) == ViewOK(P) /\ PlaceOK(P) /\ RangeOK(P) /\ EdgeOK(P)

(* The reader sees the place. *)
InView(P) == HasPlace(P) /\ ~Scrolled(P) => P.place \in Visible(P)

(* Arithmetic of pages. *)
LEMMA Ceiling ==
  ASSUME NEW L \in Nat \ {0}, NEW s \in Nat \ {0}, NEW n, n = (L + s - 1) \div s
  PROVE  n \in Nat /\ n >= 1 /\ n * s >= L /\ (n - 1) * s < L
<1>1. n \in Int /\ s * n <= L + s - 1 /\ L + s - 1 < s * n + s
  <2>1. PICK x \in Nat : x = L + s - 1
    OBVIOUS
  <2>2. x = s * (x \div s) + (x % s) /\ (x % s) \in 0 .. s - 1 /\ (x \div s) \in Int
    OBVIOUS
  <2> QED BY <2>1, <2>2
<1>2. s * n >= L
  BY <1>1
<1>3. n >= 1
  BY <1>1, <1>2
<1>4. (n - 1) * s = s * n - s /\ n * s = s * n
  BY <1>1
<1> QED BY <1>1, <1>2, <1>3, <1>4

LEMMA Floor ==
  ASSUME NEW i \in Nat, NEW s \in Nat \ {0}, NEW q, q = i \div s
  PROVE  q \in Nat /\ q * s <= i /\ i < q * s + s
<1>1. i = s * (i \div s) + (i % s) /\ (i % s) \in 0 .. s - 1 /\ (i \div s) \in Int
  OBVIOUS
<1>2. q \in Int /\ s * q <= i /\ i < s * q + s
  BY <1>1
<1>3. q >= 0
  BY <1>2
<1> QED BY <1>2, <1>3

LEMMA MultMono ==
  ASSUME NEW a \in Int, NEW b \in Int, NEW s \in Nat \ {0}, a <= b
  PROVE  a * s <= b * s
<1>1. PICK d \in Nat : b = a + d
  BY SMT
<1>2. b * s = a * s + d * s
  BY <1>1
<1>3. d * s >= 0
  BY <1>1
<1> QED BY <1>1, <1>2, <1>3

LEMMA MaxOfTwo ==
  ASSUME NEW a \in Int, NEW b \in Int
  PROVE  Max({a, b}) = IF a >= b THEN a ELSE b
BY DEF Max

LEMMA MinOfTwo ==
  ASSUME NEW a \in Int, NEW b \in Int
  PROVE  Min({a, b}) = IF a <= b THEN a ELSE b
BY DEF Min

LEMMA LeastIs ==
  ASSUME NEW S \in SUBSET Int, NEW m \in S, \A x \in S : m <= x
  PROVE  Min(S) = m
<1>1. PICK k : k = Min(S)
  OBVIOUS
<1>2. k \in S /\ \A x \in S : k <= x
  BY <1>1 DEF Min
<1>3. k <= m /\ m <= k /\ k \in Int /\ m \in Int
  BY <1>2
<1> QED BY <1>1, <1>3

LEMMA LeastThere ==
  ASSUME NEW I \in SUBSET Nat, I # {}
  PROVE  \E i \in I : \A j \in I : i <= j
<1>1. PICK i \in I : \A j \in I : ~ (<<j, i>> \in OpToRel(<, Nat))
  BY NatLessThanWellFounded, WFMin
<1>2. \A j \in I : ~ (j < i)
  BY <1>1 DEF OpToRel
<1>3. \A j \in I : i <= j
  BY <1>2
<1> QED BY <1>3

LEMMA GreatestThere ==
  ASSUME NEW N \in Nat, NEW I \in SUBSET (1 .. N), I # {}
  PROVE  \E i \in I : \A j \in I : i >= j
<1> DEFINE D == {N - i : i \in I}
<1>1. D \in SUBSET Nat /\ D # {}
  <2>1. \A i \in I : N - i \in Nat
    OBVIOUS
  <2> QED BY <2>1
<1>2. PICK d \in D : \A e \in D : d <= e
  BY <1>1, LeastThere
<1>3. PICK i \in I : d = N - i
  BY <1>2
<1>4. ASSUME NEW j \in I PROVE i >= j
  <2>1. N - j \in D
    OBVIOUS
  <2> QED BY <2>1, <1>2, <1>3
<1> QED BY <1>4

LEMMA SectionsFacts ==
  /\ Sections = 1 .. Len(Texts) /\ Len(Texts) \in Nat
  /\ \A i \in Sections : Texts[i] \in Nat \ {0}
BY PaginatorAssumption DEF Sections

(* The section before or after another is a section. *)
LEMMA AdjacentFacts ==
  ASSUME NEW index, NEW dir \in {-1, 1}
  PROVE  AdjacentIndex(index, dir) \in Sections \cup {Undefined}
<1> DEFINE ahead == {i \in Sections \ NonLinear : IF dir > 0 THEN i > index ELSE i < index}
<1>1. ahead \in SUBSET (1 .. Len(Texts)) /\ ahead \in SUBSET Nat /\ ahead \subseteq Sections
  BY SectionsFacts
<1>2. ahead # {} => Min(ahead) \in ahead
  <2>1. HAVE ahead # {}
  <2>2. PICK i \in ahead : \A j \in ahead : i <= j
    BY <1>1, <2>1, LeastThere
  <2> QED BY <2>2 DEF Min
<1>3. ahead # {} => Max(ahead) \in ahead
  <2>1. HAVE ahead # {}
  <2>2. PICK i \in ahead : \A j \in ahead : i >= j
    BY <1>1, <2>1, GreatestThere, SectionsFacts
  <2> QED BY <2>2 DEF Max
<1> QED BY <1>1, <1>2, <1>3 DEF AdjacentIndex

LEMMA PageSpan ==
  ASSUME NEW L \in Nat \ {0}, NEW s \in Nat \ {0}, NEW n \in Nat, (n - 1) * s < L, NEW at \in 1 .. n
  PROVE  (at - 1) * s \in 0 .. L - 1
<1>1. at - 1 \in Nat /\ n - 1 \in Int /\ at - 1 <= n - 1 /\ 0 <= at - 1
  OBVIOUS
<1>2. PICK k \in Nat : k = at - 1
  BY <1>1
<1>3. PICK m \in Int : m = n - 1
  BY <1>1
<1>4. k * s <= m * s /\ 0 * s <= k * s
  BY <1>1, <1>2, <1>3, MultMono
<1>5. k * s \in Int /\ 0 * s = 0 /\ m * s < L
  BY <1>2, <1>3
<1>6. k * s \in 0 .. L - 1
  BY <1>4, <1>5
<1> QED BY <1>2, <1>6

LEMMA AnchorSpan ==
  ASSUME NEW L \in Nat \ {0}, NEW s \in Nat \ {0}, NEW n \in Nat, n * s >= L, NEW i \in 0 .. L - 1, NEW q, q = i \div s
  PROVE  q \in 0 .. n - 1 /\ i \in q * s .. q * s + s - 1
<1>1. q \in Nat /\ q * s <= i /\ i < q * s + s
  BY Floor
<1>2. q < n
  <2>1. SUFFICES ASSUME n <= q PROVE FALSE
    BY <1>1
  <2>2. n * s <= q * s
    BY <1>1, <2>1, MultMono
  <2> QED BY <1>1, <2>2
<1> QED BY <1>1, <1>2

(* A document that is laid out. *)
LaidOut(P) == P \in PagerRecords /\ P.ready /\ P.section # 0

LEMMA LaidFacts ==
  ASSUME NEW P, LaidOut(P)
  PROVE  P.section \in Sections /\ Length(P) \in Nat \ {0} /\ P.size \in Nat \ {0}
BY SectionsFacts, PaginatorAssumption DEF LaidOut, PagerRecords, Length

LEMMA PagesFacts ==
  ASSUME NEW P, LaidOut(P)
  PROVE  /\ Pages(P) \in Nat /\ Pages(P) >= 3
         /\ (Pages(P) - 2) * P.size >= Length(P)
         /\ (Pages(P) - 3) * P.size < Length(P)
<1>1. PICK n : n = (Length(P) + P.size - 1) \div P.size
  OBVIOUS
<1>2. PICK L \in Nat \ {0}, s \in Nat \ {0} : L = Length(P) /\ s = P.size
  BY LaidFacts
<1>3. n \in Nat /\ n >= 1 /\ n * s >= L /\ (n - 1) * s < L
  BY <1>1, <1>2, Ceiling
<1>4. Pages(P) = n + 2
  BY <1>1 DEF Pages, LaidOut
<1>5. Pages(P) - 2 = n /\ Pages(P) - 3 = n - 1
  BY <1>3, <1>4
<1>6. (Pages(P) - 2) * P.size >= Length(P) /\ (Pages(P) - 3) * P.size < Length(P)
  BY <1>2, <1>3, <1>5
<1> QED BY <1>3, <1>4, <1>6

LEMMA PagesType ==
  ASSUME NEW P, ViewOK(P)
  PROVE  /\ Pages(P) \in Nat /\ Pages(P) >= 1
         /\ P.ready => LaidOut(P)
         /\ ~P.ready => Pages(P) = 1
<1>1. P.ready => LaidOut(P)
  BY DEF ViewOK, LaidOut
<1>2. CASE P.ready
  BY <1>1, <1>2, PagesFacts
<1>3. CASE ~P.ready
  BY <1>3 DEF Pages
<1> QED BY <1>1, <1>2, <1>3

LEMMA ClampFacts ==
  ASSUME NEW P, ViewOK(P), P.ready \/ ~Scrolled(P), NEW at \in Int
  PROVE  /\ Clamp(P, at) \in Nat
         /\ ~Scrolled(P) => Clamp(P, at) = IF at < 0 THEN 0 ELSE IF at > Pages(P) - 1 THEN Pages(P) - 1 ELSE at
<1> DEFINE limit == IF Scrolled(P) THEN Max({0, Length(P) - P.size}) ELSE Pages(P) - 1
<1>1. limit \in Nat
  <2>1. CASE Scrolled(P)
    <3>1. Length(P) - P.size \in Int
      BY <2>1, PagesType, LaidFacts
    <3> QED BY <2>1, <3>1, MaxOfTwo
  <2>2. CASE ~Scrolled(P)
    BY <2>2, PagesType
  <2> QED BY <2>1, <2>2
<1>2. PICK l \in Nat : l = limit
  BY <1>1
<1>3. PICK m \in Int : m = Min({l, at}) /\ m = IF l <= at THEN l ELSE at
  BY MinOfTwo
<1>4. Max({0, m}) = IF 0 >= m THEN 0 ELSE m
  BY MaxOfTwo
<1>5. Clamp(P, at) = Max({0, m})
  BY <1>2, <1>3 DEF Clamp
<1>6. ~Scrolled(P) => l = Pages(P) - 1
  BY <1>2
<1> HIDE DEF limit
<1> QED BY <1>3, <1>4, <1>5, <1>6

(* What is visible starts in the text; on a page of text it starts where the page does. *)
LEMMA StartFacts ==
  ASSUME NEW P, LaidOut(P)
  PROVE  /\ VisibleStart(P) \in 0 .. Length(P) - 1
         /\ ~Scrolled(P) /\ P.at \in 1 .. Pages(P) - 2 => VisibleStart(P) \in Visible(P)
<1> DEFINE from == IF Scrolled(P) THEN P.at ELSE (P.at - 1) * P.size
<1>1. PICK L \in Nat \ {0}, s \in Nat \ {0}, a \in Nat : L = Length(P) /\ s = P.size /\ a = P.at
  BY LaidFacts DEF LaidOut, PagerRecords
<1>2. PICK f \in Int : f = from
  BY <1>1
<1>3. Visible(P) = {i \in f .. f + s - 1 : i >= 0 /\ i < L}
  BY <1>1, <1>2 DEF Visible
<1> HIDE DEF from
<1>4. ASSUME 0 <= f, f < L PROVE VisibleStart(P) = f /\ f \in Visible(P)
  <2>1. f \in Visible(P) /\ Visible(P) \in SUBSET Int /\ \A x \in Visible(P) : f <= x
    BY <1>3, <1>4
  <2>2. Min(Visible(P)) = f
    BY <2>1, LeastIs
  <2> QED BY <2>1, <2>2 DEF VisibleStart
<1>5. VisibleStart(P) \in 0 .. L - 1
  <2>1. CASE Visible(P) = {}
    BY <2>1, <1>1 DEF VisibleStart
  <2>2. CASE Visible(P) # {}
    <3>1. Visible(P) \in SUBSET Nat /\ \A x \in Visible(P) : x \in 0 .. L - 1
      BY <1>3
    <3>2. PICK i \in Visible(P) : \A j \in Visible(P) : i <= j
      BY <2>2, <3>1, LeastThere
    <3>3. Visible(P) \in SUBSET Int
      BY <3>1
    <3>4. Min(Visible(P)) = i
      BY <3>2, <3>3, LeastIs
    <3> QED BY <2>2, <3>1, <3>2, <3>4 DEF VisibleStart
  <2> QED BY <2>1, <2>2
<1>6. ASSUME ~Scrolled(P), P.at \in 1 .. Pages(P) - 2 PROVE VisibleStart(P) \in Visible(P)
  <2>1. PICK n \in Nat : n = Pages(P) - 2 /\ (n - 1) * s < L
    <3>1. PICK n \in Int : n = Pages(P) - 2
      BY PagesFacts
    <3>2. n \in Nat /\ n - 1 = Pages(P) - 3
      BY <3>1, PagesFacts
    <3> QED BY <3>1, <3>2, <1>1, PagesFacts
  <2>2. a \in 1 .. n
    BY <1>1, <1>6, <2>1
  <2>3. (a - 1) * s \in 0 .. L - 1
    BY <2>1, <2>2, PageSpan
  <2>4. f = (a - 1) * s
    BY <1>1, <1>2, <1>6 DEF from
  <2> QED BY <1>4, <2>3, <2>4
<1> QED BY <1>1, <1>5, <1>6

(* The page an anchor is on shows it, and it is not blank. *)
LEMMA AnchorSeen ==
  ASSUME NEW P, LaidOut(P), ~Scrolled(P), Fits(P.anchor, P.section), P.at = AnchorAt(P, P.anchor)
  PROVE  P.at \in 1 .. Pages(P) - 2 /\ AnchorPlace(P) \in Visible(P) /\ AnchorPlace(P) \in 0 .. Length(P) - 1
<1>1. PICK L \in Nat \ {0}, s \in Nat \ {0}, a \in Nat : L = Length(P) /\ s = P.size /\ a = P.at
  BY LaidFacts DEF LaidOut, PagerRecords
<1>2. PICK n \in Nat : n = Pages(P) - 2 /\ n >= 1 /\ (n - 1) * s < L /\ n * s >= L
  <2>1. PICK n \in Int : n = Pages(P) - 2
    BY PagesFacts
  <2>2. n \in Nat /\ n >= 1 /\ n - 1 = Pages(P) - 3
    BY <2>1, PagesFacts
  <2> QED BY <2>1, <2>2, <1>1, PagesFacts
<1>3. PICK k \in {"fraction", "text"}, i \in Nat :
        k = P.anchor.kind /\ i = P.anchor.at /\ (k = "fraction" => i \in {0, 1}) /\ (k = "text" => i < L)
  BY <1>1 DEF LaidOut, PagerRecords, PageAnchors, Fits, Length
<1>4. PICK p \in 0 .. L - 1 : p = AnchorPlace(P)
  BY <1>1, <1>3 DEF AnchorPlace
<1>5. a \in 1 .. n /\ p \in (a - 1) * s .. (a - 1) * s + s - 1
  <2>1. CASE k = "text"
    <3>1. p = i
      BY <1>3, <1>4, <2>1 DEF AnchorPlace
    <3>2. PICK q : q = p \div s
      OBVIOUS
    <3>3. q \in 0 .. n - 1 /\ p \in q * s .. q * s + s - 1
      BY <1>2, <3>2, AnchorSpan
    <3>4. a = q + 1
      BY <1>1, <1>3, <2>1, <3>1, <3>2 DEF AnchorAt
    <3>5. a - 1 = q /\ a \in 1 .. n
      BY <3>3, <3>4
    <3> QED BY <3>3, <3>5
  <2>2. CASE k = "fraction" /\ i = 0
    <3>1. p = 0
      BY <1>1, <1>3, <1>4, <2>2 DEF AnchorPlace
    <3>2. a = i * (Pages(P) - 3) + 1
      BY <1>1, <1>3, <2>2 DEF AnchorAt
    <3>3. a = 1
      BY <2>2, <3>2, PagesFacts
    <3> QED BY <1>2, <3>1, <3>3
  <2>3. CASE k = "fraction" /\ i = 1
    <3>1. p = L - 1
      BY <1>1, <1>3, <1>4, <2>3 DEF AnchorPlace
    <3>2. a = i * (Pages(P) - 3) + 1
      BY <1>1, <1>3, <2>3 DEF AnchorAt
    <3>3. Pages(P) - 3 = n - 1 /\ Pages(P) \in Nat
      BY <1>2, PagesFacts
    <3>4. a = n
      BY <2>3, <3>2, <3>3, <1>2
    <3>5. PICK m \in Nat : m = n - 1
      BY <1>2
    <3>6. n * s = m * s + s
      BY <3>5
    <3>7. p \in m * s .. m * s + s - 1
      BY <3>1, <3>5, <3>6, <1>2
    <3> QED BY <3>4, <3>5, <3>7, <1>2
  <2> QED BY <1>3, <2>1, <2>2, <2>3
<1>6. Visible(P) = {j \in (a - 1) * s .. (a - 1) * s + s - 1 : j >= 0 /\ j < L}
  BY <1>1 DEF Visible
<1> QED BY <1>1, <1>2, <1>4, <1>5, <1>6

(* The same document in the same layout. *)
SameView(P, Q) ==
    /\ Q.index = P.index /\ Q.section = P.section /\ Q.ready = P.ready
    /\ Q.size = P.size /\ Q.flow = P.flow /\ Q.locked = P.locked

LEMMA SameLayout ==
  ASSUME NEW P, NEW Q, SameView(P, Q)
  PROVE  /\ Length(Q) = Length(P) /\ Scrolled(Q) = Scrolled(P) /\ Pages(Q) = Pages(P) /\ IsShown(Q) = IsShown(P)
         /\ HasPrev(Q) = HasPrev(P) /\ HasNext(Q) = HasNext(P)
         /\ \A a : AnchorAt(Q, a) = AnchorAt(P, a)
<1>1. Length(Q) = Length(P) /\ Scrolled(Q) = Scrolled(P) /\ IsShown(Q) = IsShown(P)
  BY DEF SameView, Length, Scrolled, IsShown
<1>2. Pages(Q) = Pages(P)
  BY <1>1 DEF SameView, Pages
<1>3. HasPrev(Q) = HasPrev(P) /\ HasNext(Q) = HasNext(P)
  BY DEF SameView, HasPrev, HasNext
<1>4. \A a : AnchorAt(Q, a) = AnchorAt(P, a)
  BY <1>1, <1>2 DEF AnchorAt, SameView
<1> QED BY <1>1, <1>2, <1>3, <1>4

LEMMA AnchorAtType ==
  ASSUME NEW P, LaidOut(P), NEW a \in PageAnchors
  PROVE  AnchorAt(P, a) \in Int
<1>1. PICK L \in Nat \ {0}, s \in Nat \ {0}, i \in Nat, g \in Nat :
        L = Length(P) /\ s = P.size /\ i = a.at /\ g = Pages(P) /\ a.kind \in {"fraction", "text"}
  BY LaidFacts, PagesFacts DEF PageAnchors
<1>2. i \div s \in Int
  OBVIOUS
<1>3. i * L \in Int /\ i * (g - 3) + 1 \in Int /\ i \div s + 1 \in Int
  BY <1>2
<1> QED BY <1>1, <1>3 DEF AnchorAt

(* The end of a scroll, before #afterScroll. *)
LandedAt(P, c) == [P EXCEPT !.at = c, !.base = c, !.moved = @ \/ (Scrolled(P) /\ c # P.at)]

LEMMA Landed ==
  ASSUME NEW P, ViewOK(P), P.ready, NEW to \in Int, NEW c, c = Clamp(P, to), NEW B,
         B = LandedAt(P, c)
  PROVE  /\ ViewOK(B) /\ LaidOut(B) /\ SameView(P, B)
         /\ B.at = c /\ B.base = c /\ B.anchor = P.anchor /\ B.place = P.place
         /\ RangeOK(B)
<1>1. c \in Nat
  BY ClampFacts
<1>2. B.moved \in BOOLEAN
  BY DEF ViewOK, PagerRecords, LandedAt
<1>3. B \in PagerRecords /\ SameView(P, B) /\ B.at = c /\ B.base = c /\ B.anchor = P.anchor /\ B.place = P.place
  BY <1>1, <1>2 DEF ViewOK, PagerRecords, SameView, LandedAt
<1>4. ViewOK(B) /\ LaidOut(B)
  BY <1>3 DEF ViewOK, LaidOut, SameView
<1>5. RangeOK(B)
  <2>1. Pages(B) = Pages(P) /\ Scrolled(B) = Scrolled(P)
    BY <1>3, SameLayout
  <2>2. Pages(P) \in Nat /\ Pages(P) >= 1
    BY PagesType
  <2>3. ~Scrolled(P) => c \in 0 .. Pages(P) - 1
    BY <2>2, ClampFacts
  <2> QED BY <1>3, <2>1, <2>3 DEF RangeOK
<1> QED BY <1>3, <1>4, <1>5

(* A scroll to an anchor: what it stands for is on the page. *)
LEMMA ToAnchor ==
  ASSUME NEW P, ViewOK(P), P.ready, NEW a \in PageAnchors, NEW reason \in {"navigation", "selection", "anchor"},
         NEW Q, Q = ScrollToAnchor(P, a, reason)
  PROVE  /\ ViewOK(Q) /\ SameView(P, Q) /\ RangeOK(Q) /\ Q.anchor = a
         /\ Q.place = IF reason = "anchor" THEN P.place ELSE AnchorPlace(Q)
         /\ Fits(a, P.section) =>
              /\ AnchorPlace(Q) \in 0 .. Length(Q) - 1
              /\ ~Scrolled(Q) => Q.base \in 1 .. Pages(Q) - 2 /\ AnchorPlace(Q) \in Visible(Q)
<1>1. PICK A : A = [P EXCEPT !.anchor = a]
  OBVIOUS
<1>2. ViewOK(A) /\ LaidOut(A) /\ SameView(P, A) /\ A.anchor = a /\ A.place = P.place
  BY <1>1 DEF ViewOK, LaidOut, PagerRecords, SameView
<1>3. PICK to \in Int : to = AnchorAt(A, a)
  BY <1>2, AnchorAtType
<1>4. PICK c : c = Clamp(A, to)
  OBVIOUS
<1>5. PICK B : B = LandedAt(A, c)
  OBVIOUS
<1>6. A.ready
  BY <1>2 DEF LaidOut
<1>7. /\ ViewOK(B) /\ LaidOut(B) /\ SameView(A, B)
      /\ B.at = c /\ B.base = c /\ B.anchor = a /\ B.place = P.place
      /\ RangeOK(B)
  <2>1. /\ ViewOK(B) /\ LaidOut(B) /\ SameView(A, B)
        /\ B.at = c /\ B.base = c /\ B.anchor = A.anchor /\ B.place = A.place
        /\ RangeOK(B)
    BY <1>2, <1>4, <1>5, <1>6, Landed
  <2> QED BY <1>2, <2>1
<1>8. Q = AfterScroll(B, reason)
  BY <1>1, <1>3, <1>4, <1>5 DEF ScrollToAnchor, Arrive, LandedAt
<1>9. PICK place : place = IF reason = "anchor" THEN P.place ELSE AnchorPlace(B)
  OBVIOUS
<1>10. B.place = P.place /\ B.anchor = a
  BY <1>7
<1>11. Q = [B EXCEPT !.just = TRUE, !.place = place]
  BY <1>8, <1>9, <1>10 DEF AfterScroll
<1>12. place \in Int
  <2>1. Length(B) \in Int /\ a.at \in Int /\ P.place \in Int
    BY <1>7, LaidFacts DEF PageAnchors, ViewOK, PagerRecords
  <2>2. a.at * (Length(B) - 1) \in Int
    BY <2>1
  <2> QED BY <1>9, <1>10, <2>1, <2>2 DEF AnchorPlace
<1>13. Q \in PagerRecords /\ SameView(B, Q) /\ Q.at = c /\ Q.base = c /\ Q.anchor = a /\ Q.place = place
  BY <1>7, <1>11, <1>12 DEF ViewOK, PagerRecords, SameView
<1>14. SameView(P, Q)
  BY <1>2, <1>7, <1>13 DEF SameView
<1>15. /\ Length(Q) = Length(B) /\ Scrolled(Q) = Scrolled(B) /\ Pages(Q) = Pages(B)
       /\ AnchorPlace(Q) = AnchorPlace(B)
  <2>1. Length(Q) = Length(B) /\ Scrolled(Q) = Scrolled(B) /\ Pages(Q) = Pages(B)
    BY <1>13, SameLayout
  <2> QED BY <2>1, <1>7, <1>13 DEF AnchorPlace
<1>16. ViewOK(Q) /\ RangeOK(Q)
  BY <1>7, <1>13, <1>15 DEF ViewOK, RangeOK, SameView
<1>17. ASSUME Fits(a, P.section)
       PROVE  /\ AnchorPlace(Q) \in 0 .. Length(Q) - 1
              /\ ~Scrolled(Q) => Q.base \in 1 .. Pages(Q) - 2 /\ AnchorPlace(Q) \in Visible(Q)
  <2>1. Fits(B.anchor, B.section)
    BY <1>7, <1>14, <1>13, <1>17 DEF SameView
  <2>2. AnchorPlace(B) \in 0 .. Length(B) - 1
    <3>1. PICK L \in Nat \ {0}, i \in Nat : L = Length(B) /\ i = B.anchor.at
      BY <1>7, LaidFacts DEF LaidOut, PagerRecords, PageAnchors
    <3>2. (B.anchor.kind = "text" => i < L) /\ (B.anchor.kind # "text" => i \in {0, 1})
      BY <2>1, <3>1, <1>7 DEF Fits, Length, LaidOut, PagerRecords, PageAnchors
    <3>3. i \in {0, 1} => i * (L - 1) \in 0 .. L - 1
      OBVIOUS
    <3> QED BY <3>1, <3>2, <3>3 DEF AnchorPlace
  <2>3. ASSUME ~Scrolled(B) PROVE c \in 1 .. Pages(B) - 2 /\ AnchorPlace(B) \in Visible(B)
    <3>1. PICK R : R = [B EXCEPT !.at = IF to \in Nat THEN to ELSE 1]
      OBVIOUS
    <3>2. R \in PagerRecords /\ SameView(B, R) /\ R.anchor = a /\ LaidOut(R) /\ (to \in Nat => R.at = to)
      BY <3>1, <1>7 DEF LaidOut, PagerRecords, SameView
    <3>3. AnchorAt(B, a) = to /\ AnchorAt(R, a) = to
      <4>1. AnchorAt(B, a) = AnchorAt(A, a)
        BY <1>7, SameLayout
      <4>2. AnchorAt(R, a) = AnchorAt(B, a)
        BY <3>2, SameLayout
      <4> QED BY <1>3, <4>1, <4>2
    <3>4. to \in Nat
      <4>1. PICK s \in Nat \ {0}, i \in Nat, g \in Nat : s = P.size /\ s = B.size /\ i = a.at /\ g = Pages(B) /\ g >= 3
        BY <1>2, <1>7, LaidFacts, PagesFacts DEF PageAnchors, SameView
      <4>2. i \div s \in Nat
        BY Floor
      <4>3. i \in {0, 1} => i * (g - 3) + 1 \in Nat
        BY <4>1
      <4>4. to = IF a.kind = "text" THEN i \div s + 1 ELSE i * (g - 3) + 1
        BY <3>3, <2>3, <4>1 DEF AnchorAt, PageAnchors
      <4>5. a.kind # "text" => i \in {0, 1}
        BY <4>1 DEF PageAnchors
      <4> QED BY <4>2, <4>3, <4>4, <4>5
    <3>5. Scrolled(R) = Scrolled(B) /\ Pages(R) = Pages(B) /\ Length(R) = Length(B)
      BY <3>2, SameLayout
    <3>6. R.at = AnchorAt(R, R.anchor) /\ Fits(R.anchor, R.section)
      BY <3>2, <3>3, <3>4, <2>1, <1>7 DEF SameView
    <3>7. R.at \in 1 .. Pages(R) - 2 /\ AnchorPlace(R) \in Visible(R)
      BY <2>3, <3>2, <3>5, <3>6, AnchorSeen
    <3>8. Pages(A) = Pages(B) /\ ~Scrolled(A)
      BY <1>7, <2>3, SameLayout
    <3>9. to \in 1 .. Pages(B) - 2 /\ Pages(B) \in Nat
      BY <3>2, <3>4, <3>5, <3>7, <1>7, PagesFacts
    <3>10. c = to
      BY <1>2, <1>4, <3>8, <3>9, ClampFacts
    <3>11. Visible(R) = Visible(B) /\ AnchorPlace(R) = AnchorPlace(B)
      BY <3>2, <3>4, <3>5, <3>10, <1>7 DEF Visible, AnchorPlace, SameView
    <3> QED BY <3>7, <3>9, <3>10, <3>11
  <2>4. Visible(Q) = Visible(B)
    BY <1>7, <1>13, <1>15 DEF Visible, SameView
  <2> QED BY <2>2, <2>3, <2>4, <1>13, <1>15
<1> QED BY <1>9, <1>13, <1>14, <1>15, <1>16, <1>17

(* A jump, or the word read aloud, goes to the anchor. *)
LEMMA GoesToAnchor ==
  ASSUME NEW P, ViewOK(P), P.ready, NEW a \in PageAnchors, NEW reason \in {"navigation", "selection"},
         IsShown(P) => Fits(a, P.section), NEW Q, Q = ScrollToAnchor(P, a, reason)
  PROVE  PagerOK(Q) /\ InView(Q) /\ SameView(P, Q)
<1>1. /\ ViewOK(Q) /\ SameView(P, Q) /\ RangeOK(Q) /\ Q.anchor = a
      /\ Q.place = AnchorPlace(Q)
      /\ Fits(a, P.section) =>
           /\ AnchorPlace(Q) \in 0 .. Length(Q) - 1
           /\ ~Scrolled(Q) => Q.base \in 1 .. Pages(Q) - 2 /\ AnchorPlace(Q) \in Visible(Q)
  BY ToAnchor
<1>2. IsShown(Q) = IsShown(P) /\ Pages(Q) \in Nat
  BY <1>1, SameLayout, PagesType
<1>3. HasPlace(Q) => Fits(a, P.section)
  BY <1>2 DEF HasPlace
<1>4. PlaceOK(Q) /\ InView(Q)
  BY <1>1, <1>3 DEF PlaceOK, InView
<1>5. HasPlace(Q) /\ ~Scrolled(Q) => Q.base \in 1 .. Pages(Q) - 2
  BY <1>1, <1>3
<1>6. EdgeOK(Q)
  BY <1>2, <1>5 DEF EdgeOK
<1> QED BY <1>1, <1>4, <1>6 DEF PagerOK

(* A new layout goes back to the anchor, and the place is still the anchor's. *)
LEMMA LaysOut ==
  ASSUME NEW P, PagerOK(P), P.ready, NEW size \in PageSizes, NEW flow \in {"paginated", "scrolled"},
         NEW Q, Q = Expand(P, size, flow)
  PROVE  /\ PagerOK(Q) /\ InView(Q) /\ Q.ready /\ Q.index = P.index /\ Q.section = P.section /\ Q.locked = P.locked
<1>1. PICK R : R = [P EXCEPT !.size = size, !.flow = flow]
  OBVIOUS
<1>2. /\ R \in PagerRecords /\ R.ready /\ R.index = P.index /\ R.section = P.section /\ R.locked = P.locked
      /\ R.place = P.place /\ R.anchor = P.anchor /\ P.anchor \in PageAnchors
  BY <1>1 DEF PagerOK, ViewOK, PagerRecords
<1>3. ViewOK(R)
  BY <1>2 DEF PagerOK, ViewOK
<1>4. PICK a \in PageAnchors : a = P.anchor
  BY <1>2
<1>5. PICK reason \in {"navigation", "selection", "anchor"} : reason = "anchor"
  OBVIOUS
<1>6. Q = ScrollToAnchor(R, a, reason)
  BY <1>1, <1>4, <1>5 DEF Expand
<1>7. /\ ViewOK(Q) /\ SameView(R, Q) /\ RangeOK(Q) /\ Q.anchor = a
      /\ Q.place = IF reason = "anchor" THEN R.place ELSE AnchorPlace(Q)
      /\ Fits(a, R.section) =>
           /\ AnchorPlace(Q) \in 0 .. Length(Q) - 1
           /\ ~Scrolled(Q) => Q.base \in 1 .. Pages(Q) - 2 /\ AnchorPlace(Q) \in Visible(Q)
  BY <1>2, <1>3, <1>6, ToAnchor
<1>8. /\ Q.place = P.place /\ Q.ready /\ Q.index = P.index /\ Q.section = P.section /\ Q.locked = P.locked
      /\ Length(Q) = Length(P) /\ AnchorPlace(Q) = AnchorPlace(P) /\ HasPlace(Q) = HasPlace(P)
  BY <1>2, <1>4, <1>5, <1>7 DEF SameView, Length, AnchorPlace, HasPlace, IsShown
<1>9. HasPlace(Q) => Q.place = AnchorPlace(Q) /\ Fits(a, R.section)
  <2>1. HAVE HasPlace(Q)
  <2>2. P.place = AnchorPlace(P) /\ P.place \in 0 .. Length(P) - 1
    BY <1>8, <2>1 DEF PagerOK, PlaceOK
  <2>3. a.kind = "text" => a.at < Length(P)
    <3>1. Length(P) \in Nat
      BY <1>3, <1>2, LaidFacts DEF ViewOK, LaidOut, Length
    <3> QED BY <1>4, <2>2, <3>1 DEF AnchorPlace
  <2> QED BY <1>2, <1>8, <2>2, <2>3 DEF Fits, Length
<1>10. PlaceOK(Q) /\ InView(Q)
  BY <1>7, <1>9 DEF PlaceOK, InView
<1>11. HasPlace(Q) /\ ~Scrolled(Q) => Q.base \in 1 .. Pages(Q) - 2
  BY <1>7, <1>9
<1>12. Pages(Q) \in Nat
  BY <1>7, PagesType
<1>13. EdgeOK(Q)
  BY <1>11, <1>12 DEF EdgeOK
<1> QED BY <1>7, <1>8, <1>10, <1>13 DEF PagerOK

(* #afterScroll of a turn, a snap or a scroll by hand: the anchor is what the page begins with. *)
LEMMA FollowsPage ==
  ASSUME NEW P, ViewOK(P), P.ready, RangeOK(P), NEW reason \in {"page", "snap", "scroll"},
         NEW Q, Q = AfterScroll(P, reason)
  PROVE  /\ ViewOK(Q) /\ SameView(P, Q) /\ Q.at = P.at /\ Q.base = P.base
         /\ RangeOK(Q) /\ PlaceOK(Q) /\ Q.place # Lost
         /\ ~Scrolled(Q) /\ Q.at \in 1 .. Pages(Q) - 2 => Q.place \in Visible(Q)
<1>1. LaidOut(P) /\ Length(P) \in Nat
  <2>1. LaidOut(P)
    BY DEF ViewOK, LaidOut
  <2> QED BY <2>1, LaidFacts
<1>2. PICK v \in Nat : v = VisibleStart(P) /\ v \in 0 .. Length(P) - 1
  BY <1>1, StartFacts
<1>3. Q = [P EXCEPT !.anchor = Text(v), !.place = v]
  BY <1>2 DEF AfterScroll
<1>4. Text(v) \in PageAnchors /\ Text(v).kind = "text" /\ Text(v).at = v
  BY DEF PageAnchors, Text
<1>5. /\ Q \in PagerRecords /\ SameView(P, Q) /\ Q.at = P.at /\ Q.base = P.base
      /\ Q.anchor = Text(v) /\ Q.place = v
  <2>1. PICK a \in PageAnchors : a = Text(v)
    BY <1>4
  <2>2. v \in Int /\ Q = [P EXCEPT !.anchor = a, !.place = v]
    BY <1>3, <2>1
  <2>3. /\ Q \in PagerRecords /\ SameView(P, Q) /\ Q.at = P.at /\ Q.base = P.base
        /\ Q.anchor = a /\ Q.place = v
    BY <2>2 DEF ViewOK, PagerRecords, SameView
  <2> QED BY <2>1, <2>3
<1>6. Length(Q) = Length(P) /\ Scrolled(Q) = Scrolled(P) /\ Pages(Q) = Pages(P)
  BY <1>5, SameLayout
<1>7. ViewOK(Q) /\ RangeOK(Q)
  BY <1>5, <1>6 DEF ViewOK, RangeOK, SameView
<1>8. AnchorPlace(Q) = v
  BY <1>4, <1>5 DEF AnchorPlace
<1>9. PlaceOK(Q) /\ Q.place # Lost
  BY <1>2, <1>5, <1>6, <1>8 DEF PlaceOK, Lost
<1>10. Visible(Q) = Visible(P)
  BY <1>5, <1>6 DEF Visible, SameView
<1> QED BY <1>1, <1>2, <1>5, <1>6, <1>7, <1>9, <1>10, StartFacts

(* The end of an animation. *)
LEMMA ScrollEnds ==
  ASSUME NEW P, ViewOK(P), P.ready, NEW to \in Int, NEW reason \in {"page", "snap"},
         NEW Q, Q = Arrive(P, to, reason)
  PROVE  /\ ViewOK(Q) /\ SameView(P, Q) /\ RangeOK(Q) /\ PlaceOK(Q) /\ Q.place # Lost
         /\ Q.base = Clamp(P, to)
         /\ ~Scrolled(Q) /\ Q.base \in 1 .. Pages(Q) - 2 => Q.place \in Visible(Q)
<1>1. PICK c : c = Clamp(P, to)
  OBVIOUS
<1>2. PICK B : B = LandedAt(P, c)
  OBVIOUS
<1>3. ViewOK(B) /\ SameView(P, B) /\ B.at = c /\ B.base = c /\ RangeOK(B)
  BY <1>1, <1>2, Landed
<1>4. Q = AfterScroll(B, reason)
  BY <1>1, <1>2 DEF Arrive, LandedAt
<1>5. B.ready
  BY <1>3 DEF SameView
<1>6. /\ ViewOK(Q) /\ SameView(B, Q) /\ Q.at = B.at /\ Q.base = B.base
      /\ RangeOK(Q) /\ PlaceOK(Q) /\ Q.place # Lost
      /\ ~Scrolled(Q) /\ Q.at \in 1 .. Pages(Q) - 2 => Q.place \in Visible(Q)
  BY <1>3, <1>4, <1>5, FollowsPage
<1>7. SameView(P, Q)
  BY <1>3, <1>6 DEF SameView
<1> QED BY <1>1, <1>3, <1>6, <1>7

(* What the kinds of operations go through. *)
StagesOf(s) ==
    CASE s = "turn" -> {"none", "scroll", "load", "frame", "wait", "lost"}
      [] s = "snap" -> {"none", "touched", "scroll", "load", "frame"}
      [] s \in {"goTo", "link"} -> {"none", "load", "frame"}

(* An animation nothing disturbed runs over the layout it was made for, and *)
(* ends on a blank page only where another section follows.                 *)
ScrollOK(P, t) ==
    t.stage = "scroll" /\ ~t.disturbed =>
      /\ t.pages = Pages(P)
      /\ IsShown(P) /\ ~Scrolled(P) => (t.to <= 0 => HasPrev(P)) /\ (t.to >= t.pages - 1 => HasNext(P))
      /\ P.ready /\ ~Scrolled(P) => (t.dir < 0 => t.to < t.pages - 1) /\ (t.dir > 0 => t.to > 0)

TaskOK(P, s, t) ==
    /\ t \in TaskRecords /\ t.stage \in StagesOf(s)
    /\ t.stage \in {"load", "frame"} => t.go \in Sections /\ Fits(t.anchor, t.go)
    /\ t.stage = "frame" => t.go = P.section /\ ~P.ready
    /\ s = "turn" /\ t.stage = "scroll" => t.dir \in {-1, 1}
    /\ ScrollOK(P, t)

(* One frame loads at a time, that of the view, and a turn holds the lock. *)
TasksOK(P, T) ==
    /\ T = [s \in Slots |-> T[s]]
    /\ \A s \in Slots : TaskOK(P, s, T[s])
    /\ \A s, r \in Slots : T[s].stage = "frame" /\ T[r].stage = "frame" => s = r
    /\ P.locked <=> T["turn"].stage # "none"

(* The place is on the page, but while a finger or a snap moves it and before the next section is there. *)
Unsettled(T) == T["snap"].stage \in {"touched", "scroll"} \/ \E s \in Slots : T[s].stage = "load"
SeenOK(P, T) == Unsettled(T) \/ InView(P)

PageInv == PagerOK(pager) /\ TasksOK(pager, pagerTasks) /\ SeenOK(pager, pagerTasks)

LEMMA TaskStays ==
  ASSUME NEW P, NEW Q, NEW s \in Slots, NEW t, TaskOK(P, s, t),
         Q.section = P.section, Q.ready = P.ready, Q.size = P.size, Q.flow = P.flow,
         Q.index = P.index \/ Q.index # Q.section
  PROVE  TaskOK(Q, s, t)
<1>1. Pages(Q) = Pages(P) /\ Scrolled(Q) = Scrolled(P)
  BY DEF Pages, Length, Scrolled
<1>2. IsShown(Q) => IsShown(P) /\ HasPrev(Q) = HasPrev(P) /\ HasNext(Q) = HasNext(P)
  BY DEF IsShown, HasPrev, HasNext
<1>3. ScrollOK(P, t)
  BY DEF TaskOK
<1>4. ScrollOK(Q, t)
  BY <1>1, <1>2, <1>3 DEF ScrollOK
<1> QED BY <1>4 DEF TaskOK

(* One operation goes on, the others stay as they are. *)
LEMMA SetTask ==
  ASSUME NEW P, NEW T, TasksOK(P, T), NEW Q, NEW slot \in Slots, NEW u, TaskOK(Q, slot, u), u.stage # "frame",
         Q.section = P.section, Q.ready = P.ready, Q.size = P.size, Q.flow = P.flow,
         Q.index = P.index \/ Q.index # Q.section,
         NEW U, U = [T EXCEPT ![slot] = u], Q.locked <=> U["turn"].stage # "none"
  PROVE  TasksOK(Q, U)
<1>1. U = [s \in Slots |-> U[s]] /\ U[slot] = u /\ \A s \in Slots : s # slot => U[s] = T[s]
  BY DEF TasksOK
<1>2. ASSUME NEW s \in Slots PROVE TaskOK(Q, s, U[s])
  <2>1. CASE s = slot
    BY <1>1, <2>1
  <2>2. CASE s # slot
    <3>1. TaskOK(P, s, T[s])
      BY DEF TasksOK
    <3>2. TaskOK(Q, s, T[s])
      BY <3>1, TaskStays
    <3> QED BY <1>1, <2>2, <3>2
  <2> QED BY <2>1, <2>2
<1>3. \A s, r \in Slots : U[s].stage = "frame" /\ U[r].stage = "frame" => s = r
  BY <1>1 DEF TasksOK
<1> QED BY <1>1, <1>2, <1>3 DEF TasksOK

LEMMA NoTaskFacts ==
  /\ NoTask \in TaskRecords /\ NoTask.stage = "none"
  /\ \A stage \in {"none", "touched", "wait", "lost"} :
       /\ [NoTask EXCEPT !.stage = stage] \in TaskRecords /\ [NoTask EXCEPT !.stage = stage].stage = stage
<1>1. Fraction(0) \in PageAnchors
  BY DEF Fraction, PageAnchors
<1>2. NoTask \in TaskRecords /\ NoTask.stage = "none"
  BY <1>1 DEF NoTask, TaskRecords
<1>3. ASSUME NEW stage \in {"none", "touched", "wait", "lost"}
      PROVE  /\ [NoTask EXCEPT !.stage = stage] \in TaskRecords /\ [NoTask EXCEPT !.stage = stage].stage = stage
  BY <1>2 DEF TaskRecords
<1> QED BY <1>2, <1>3

LEMMA StillOK ==
  ASSUME NEW P, NEW s \in Slots, NEW stage \in {"none", "touched", "wait", "lost"} \cap StagesOf(s),
         NEW t, t = [NoTask EXCEPT !.stage = stage]
  PROVE  TaskOK(P, s, t) /\ t.stage = stage
BY NoTaskFacts DEF TaskOK, ScrollOK

LEMMA NoTaskOK ==
  ASSUME NEW P, NEW s \in Slots
  PROVE  TaskOK(P, s, NoTask)
BY NoTaskFacts DEF TaskOK, ScrollOK, StagesOf, Slots

LEMMA DoneGone ==
  ASSUME NEW P, NEW s \in Slots, NEW t, t = Done(s) \/ t = Gone(s)
  PROVE  TaskOK(P, s, t) /\ t.stage \in {"none", "wait", "lost"} /\ (t.stage = "none" <=> s # "turn")
<1>1. PICK stage \in {"none", "wait", "lost"} : t = [NoTask EXCEPT !.stage = stage] /\ (stage = "none" <=> s # "turn")
  BY DEF Done, Gone
<1>2. stage \in {"none", "touched", "wait", "lost"} \cap StagesOf(s)
  BY <1>1 DEF StagesOf, Slots
<1> QED BY <1>1, <1>2, StillOK

LEMMA LoadOK ==
  ASSUME NEW P, NEW s \in Slots, NEW i \in Sections, NEW a \in PageAnchors, Fits(a, i),
         NEW t, t = [NoTask EXCEPT !.stage = "load", !.go = i, !.anchor = a]
  PROVE  TaskOK(P, s, t) /\ t.stage = "load"
<1>1. t \in TaskRecords /\ t.stage = "load" /\ t.go = i /\ t.anchor = a
  <2>1. NoTask \in TaskRecords
    BY NoTaskFacts
  <2> QED BY <2>1 DEF TaskRecords
<1>2. "load" \in StagesOf(s)
  BY DEF StagesOf, Slots
<1> QED BY <1>1, <1>2 DEF TaskOK, ScrollOK

LEMMA DisturbedOK ==
  ASSUME NEW P, NEW Q, NEW s \in Slots, TaskOK(P, s, pagerTasks[s]), pagerTasks[s].stage # "frame", NEW t, t = Disturbed(s)
  PROVE  TaskOK(Q, s, t) /\ t.stage = pagerTasks[s].stage
<1>1. pagerTasks[s] \in TaskRecords
  BY DEF TaskOK
<1>2. /\ t \in TaskRecords /\ t.stage = pagerTasks[s].stage /\ t.go = pagerTasks[s].go /\ t.anchor = pagerTasks[s].anchor
      /\ t.dir = pagerTasks[s].dir /\ (t.stage = "scroll" => t.disturbed)
  BY <1>1 DEF Disturbed, TaskRecords
<1> QED BY <1>2 DEF TaskOK, ScrollOK

(* #goTo: the section is shown, asked for, or does not exist. *)
LEMMA GoSteps ==
  ASSUME PageInv, NEW P, PagerOK(P), NEW slot \in Slots, NEW target \in Sections \cup {Undefined}, NEW a \in PageAnchors,
         target # Undefined => Fits(a, target),
         P.section = pager.section, P.ready = pager.ready, P.size = pager.size, P.flow = pager.flow, P.index = pager.index,
         P.locked <=> (slot = "turn" \/ pagerTasks["turn"].stage # "none"),
         HasPlace(P) /\ ~Scrolled(P) => target # Undefined,
         Go(P, slot, target, a)
  PROVE  PageInv'
<1>1. TasksOK(pager, pagerTasks) /\ pagerTasks = [s \in Slots |-> pagerTasks[s]] /\ "turn" \in Slots /\ "snap" \in Slots
  BY DEF PageInv, TasksOK, Slots
<1>2. PICK Q, U : Q = pager' /\ U = pagerTasks'
  OBVIOUS
<1>3. SUFFICES PagerOK(Q) /\ TasksOK(Q, U) /\ SeenOK(Q, U)
  BY <1>2 DEF PageInv
<1>4. ViewOK(P) /\ (P.ready => LaidOut(P))
  BY PagesType DEF PagerOK
<1>5. CASE target = Undefined /\ (P.index # Undefined \/ P.section = 0)
  <2>1. PICK u : u = Gone(slot)
    OBVIOUS
  <2>2. Q = P /\ U = [pagerTasks EXCEPT ![slot] = u]
    BY <1>2, <1>5, <2>1 DEF Go
  <2>3. TaskOK(P, slot, u) /\ u.stage \in {"none", "wait", "lost"} /\ (u.stage = "none" <=> slot # "turn")
    BY <2>1, DoneGone
  <2>4. P.locked <=> U["turn"].stage # "none"
    BY <1>1, <2>2, <2>3
  <2>5. TasksOK(P, U)
    BY <1>1, <2>2, <2>3, <2>4, SetTask
  <2>6. InView(P)
    BY <1>5 DEF InView
  <2> QED BY <2>2, <2>5, <2>6 DEF SeenOK
<1>6. CASE target = P.index /\ (target = Undefined => P.section # 0)
  <2>1. PICK u : u = Done(slot)
    OBVIOUS
  <2>2. Q = Show(P, a) /\ U = [pagerTasks EXCEPT ![slot] = u]
    BY <1>2, <1>6, <2>1 DEF Go
  <2>3. TaskOK(Q, slot, u) /\ u.stage \in {"none", "wait", "lost"} /\ (u.stage = "none" <=> slot # "turn")
    BY <2>1, DoneGone
  <2>4. PagerOK(Q) /\ InView(Q) /\ SameView(P, Q)
    <3>1. CASE P.ready
      <4>1. PICK reason \in {"navigation", "selection"} : reason = "navigation"
        OBVIOUS
      <4>2. Q = ScrollToAnchor(P, a, reason)
        BY <2>2, <3>1, <4>1 DEF Show
      <4>3. IsShown(P) => Fits(a, P.section)
        <5>1. P.section # Undefined
          BY <1>4, SectionsFacts DEF ViewOK, PagerRecords, Undefined
        <5> QED BY <1>6, <5>1 DEF IsShown
      <4> QED BY <1>4, <3>1, <4>2, <4>3, GoesToAnchor
    <3>2. CASE ~P.ready
      <4>1. Q = P
        BY <2>2, <3>2 DEF Show
      <4> QED BY <3>2, <4>1 DEF InView, HasPlace, IsShown, SameView
    <3> QED BY <3>1, <3>2
  <2>5. Q.locked <=> U["turn"].stage # "none"
    BY <1>1, <2>2, <2>3, <2>4 DEF SameView
  <2>6. Q.section = pager.section /\ Q.ready = pager.ready /\ Q.size = pager.size /\ Q.flow = pager.flow /\ Q.index = pager.index
    BY <2>4 DEF SameView
  <2>7. TasksOK(Q, U)
    BY <1>1, <2>2, <2>3, <2>5, <2>6, SetTask
  <2> QED BY <2>4, <2>7 DEF SeenOK
<1>7. CASE target # Undefined /\ target # P.index
  <2>1. PICK u : u = [NoTask EXCEPT !.stage = "load", !.go = target, !.anchor = a]
    OBVIOUS
  <2>2. Q = P /\ U = [pagerTasks EXCEPT ![slot] = u]
    BY <1>2, <1>7, <2>1 DEF Go
  <2>3. TaskOK(P, slot, u) /\ u.stage = "load"
    BY <1>7, <2>1, LoadOK
  <2>4. P.locked <=> U["turn"].stage # "none"
    BY <1>1, <2>2, <2>3
  <2>5. TasksOK(P, U)
    BY <1>1, <2>2, <2>3, <2>4, SetTask
  <2>6. U[slot].stage = "load"
    BY <1>1, <2>2, <2>3
  <2> QED BY <2>2, <2>5, <2>6 DEF SeenOK, Unsettled
<1> QED BY <1>5, <1>6, <1>7

LEMMA GoToSteps ==
  ASSUME PageInv, NEW slot \in {"goTo", "link"}, NEW target \in Sections, NEW a \in PageAnchors, Fits(a, target),
         GoTo(slot, target, a)
  PROVE  PageInv'
<1>1. slot \in Slots /\ slot # "turn" /\ target \in Sections \cup {Undefined} /\ target # Undefined
  BY SectionsFacts DEF Slots, Undefined
<1>2. PICK P : P = pager
  OBVIOUS
<1>3. Go(P, slot, target, a) /\ PagerOK(P) /\ (P.locked <=> (slot = "turn" \/ pagerTasks["turn"].stage # "none"))
  BY <1>1, <1>2 DEF GoTo, PageInv, TasksOK
<1> QED BY <1>1, <1>2, <1>3, GoSteps

(* A display without a new view: the index is no longer that of the view. *)
LEMMA RedisplaySteps ==
  ASSUME PageInv, NEW slot \in Slots, pagerTasks[slot].stage = "load", NEW index \in Missing \cup {Undefined},
         NEW a \in PageAnchors, Redisplay(slot, index, a)
  PROVE  PageInv'
<1>1. TasksOK(pager, pagerTasks) /\ pagerTasks = [s \in Slots |-> pagerTasks[s]] /\ "turn" \in Slots /\ ViewOK(pager)
  BY DEF PageInv, TasksOK, Slots, PagerOK
<1>2. PICK P : P = [pager EXCEPT !.index = index]
  OBVIOUS
<1>3. /\ P \in PagerRecords /\ P.index = index /\ P.section = pager.section /\ P.ready = pager.ready
      /\ P.size = pager.size /\ P.flow = pager.flow /\ P.locked = pager.locked
  BY <1>1, <1>2, PaginatorAssumption DEF ViewOK, PagerRecords
<1>4. index # pager.section
  <2>1. 0 \notin Missing /\ Undefined \notin Sections /\ Undefined # 0 /\ pager.section \in (Sections \ Missing) \cup {0}
    BY <1>1, SectionsFacts, PaginatorAssumption DEF ViewOK, PagerRecords, Undefined
  <2> QED BY <2>1
<1>5. ViewOK(P) /\ ~IsShown(P)
  BY <1>1, <1>3, <1>4 DEF ViewOK, IsShown
<1>6. PICK Q, U : Q = pager' /\ U = pagerTasks'
  OBVIOUS
<1>7. PICK u : /\ u = Done(slot) \/ u = Gone(slot)
               /\ U = [pagerTasks EXCEPT ![slot] = u]
               /\ Q = IF P.ready THEN ScrollToAnchor(P, a, "navigation") ELSE P
  <2>1. CASE pager.section = 0
    <3>1. ~P.ready /\ Q = P /\ U = [pagerTasks EXCEPT ![slot] = Gone(slot)]
      BY <1>1, <1>2, <1>3, <1>6, <2>1 DEF Redisplay, ViewOK
    <3> QED BY <3>1
  <2>2. CASE pager.section # 0
    <3>1. Q = Show(P, a) /\ U = [pagerTasks EXCEPT ![slot] = Done(slot)]
      BY <1>2, <1>6, <2>2 DEF Redisplay
    <3> QED BY <3>1 DEF Show
  <2> QED BY <2>1, <2>2
<1>8. PagerOK(Q) /\ InView(Q) /\ SameView(P, Q)
  <2>1. CASE P.ready
    <3>1. PICK reason \in {"navigation", "selection"} : reason = "navigation"
      OBVIOUS
    <3>2. Q = ScrollToAnchor(P, a, reason)
      BY <1>7, <2>1, <3>1
    <3> QED BY <1>5, <2>1, <3>2, GoesToAnchor
  <2>2. CASE ~P.ready
    <3>1. Q = P
      BY <1>7, <2>2
    <3> QED BY <1>5, <2>2, <3>1 DEF InView, HasPlace, SameView, PagerOK, PlaceOK, RangeOK, EdgeOK
  <2> QED BY <2>1, <2>2
<1>9. TaskOK(Q, slot, u) /\ u.stage \in {"none", "wait", "lost"} /\ (u.stage = "none" <=> slot # "turn")
  BY <1>7, DoneGone
<1>10. Q.locked <=> U["turn"].stage # "none"
  BY <1>1, <1>3, <1>7, <1>8, <1>9 DEF SameView, TasksOK
<1>11. /\ Q.section = pager.section /\ Q.ready = pager.ready /\ Q.size = pager.size /\ Q.flow = pager.flow
       /\ Q.index # Q.section
  BY <1>3, <1>4, <1>8 DEF SameView
<1>12. TasksOK(Q, U)
  BY <1>1, <1>7, <1>9, <1>10, <1>11, SetTask
<1> QED BY <1>6, <1>8, <1>12 DEF PageInv, SeenOK

LEMMA SectionMissingSteps ==
  ASSUME PageInv, NEW slot \in Slots, SectionMissing(slot)
  PROVE  PageInv'
<1>1. TaskOK(pager, slot, pagerTasks[slot])
  BY DEF PageInv, TasksOK
<1>2. PICK a \in PageAnchors, i \in Missing \cup {Undefined} : a = pagerTasks[slot].anchor /\ i = pagerTasks[slot].go
  BY <1>1 DEF SectionMissing, TaskOK, TaskRecords
<1>3. Redisplay(slot, i, a) /\ pagerTasks[slot].stage = "load"
  BY <1>2 DEF SectionMissing
<1> QED BY <1>3, RedisplaySteps

LEMMA SectionFailsSteps ==
  ASSUME PageInv, NEW slot \in Slots, SectionFails(slot)
  PROVE  PageInv'
<1>1. PICK a \in PageAnchors, i \in Missing \cup {Undefined} : a = Fraction(0) /\ i = Undefined
  BY DEF Fraction, PageAnchors
<1>2. Redisplay(slot, i, a) /\ pagerTasks[slot].stage = "load"
  BY <1>1 DEF SectionFails
<1> QED BY <1>2, RedisplaySteps

LEMMA SectionLoadedSteps ==
  ASSUME PageInv, NEW slot \in Slots, SectionLoaded(slot)
  PROVE  PageInv'
<1> DEFINE t == pagerTasks[slot]
<1>1. /\ TasksOK(pager, pagerTasks) /\ ViewOK(pager) /\ "turn" \in Slots
      /\ \A s \in Slots : TaskOK(pager, s, pagerTasks[s])
  BY DEF PageInv, TasksOK, Slots, PagerOK
<1>2. t \in TaskRecords /\ t.stage = "load" /\ t.go \in Sections \ Missing /\ Fits(t.anchor, t.go)
  BY <1>1 DEF SectionLoaded, TaskOK
<1>3. PICK Q, U : Q = pager' /\ U = pagerTasks'
  OBVIOUS
<1>4. Q = [pager EXCEPT !.index = t.go, !.section = t.go, !.ready = FALSE, !.at = 0]
  BY <1>3 DEF SectionLoaded
<1>5. Q \in PagerRecords /\ Q.index = t.go /\ Q.section = t.go /\ ~Q.ready /\ Q.locked = pager.locked
  BY <1>1, <1>2, <1>4 DEF ViewOK, PagerRecords
<1>6. PagerOK(Q) /\ InView(Q)
  BY <1>5 DEF PagerOK, ViewOK, PlaceOK, RangeOK, EdgeOK, InView, HasPlace, IsShown
<1>7. U = [s \in Slots |-> IF s = slot THEN [t EXCEPT !.stage = "frame"]
                           ELSE IF pagerTasks[s].stage = "frame" THEN Gone(s) ELSE Disturbed(s)]
  BY <1>3 DEF SectionLoaded
<1>8. ASSUME NEW s \in Slots
      PROVE  /\ TaskOK(Q, s, U[s]) /\ (U[s].stage = "frame" => s = slot)
             /\ s = "turn" => (U[s].stage # "none" <=> pagerTasks[s].stage # "none")
  <2>1. CASE s = slot
    <3>1. PICK u : u = [t EXCEPT !.stage = "frame"]
      OBVIOUS
    <3>2. u \in TaskRecords /\ u.stage = "frame" /\ u.go = t.go /\ u.anchor = t.anchor
      BY <1>2, <3>1 DEF TaskRecords
    <3>3. "frame" \in StagesOf(s)
      BY DEF StagesOf, Slots
    <3>4. TaskOK(Q, s, u)
      BY <1>2, <1>5, <3>2, <3>3 DEF TaskOK, ScrollOK
    <3>5. U[s] = u
      BY <1>7, <2>1, <3>1
    <3> QED BY <1>2, <2>1, <3>2, <3>4, <3>5
  <2>2. CASE s # slot /\ pagerTasks[s].stage = "frame"
    <3>1. PICK u : u = Gone(s)
      OBVIOUS
    <3>2. U[s] = u
      BY <1>7, <2>2, <3>1
    <3>3. TaskOK(Q, s, u) /\ u.stage \in {"none", "wait", "lost"} /\ (u.stage = "none" <=> s # "turn")
      BY <3>1, DoneGone
    <3> QED BY <2>2, <3>2, <3>3
  <2>3. CASE s # slot /\ pagerTasks[s].stage # "frame"
    <3>1. PICK u : u = Disturbed(s)
      OBVIOUS
    <3>2. U[s] = u
      BY <1>7, <2>3, <3>1
    <3>3. PICK P : P = pager
      OBVIOUS
    <3>4. TaskOK(P, s, pagerTasks[s])
      BY <1>1, <3>3
    <3>5. TaskOK(Q, s, u) /\ u.stage = pagerTasks[s].stage
      BY <2>3, <3>1, <3>4, DisturbedOK
    <3> QED BY <2>3, <3>2, <3>5
  <2> QED BY <2>1, <2>2, <2>3
<1>9. U = [s \in Slots |-> U[s]]
  BY <1>7
<1>10. TasksOK(Q, U)
  BY <1>1, <1>5, <1>8, <1>9 DEF TasksOK
<1> QED BY <1>3, <1>6, <1>10 DEF PageInv, SeenOK

LEMMA FrameLoadsSteps ==
  ASSUME PageInv, NEW slot \in Slots, FrameLoads(slot)
  PROVE  PageInv'
<1> DEFINE t == pagerTasks[slot]
<1>1. /\ TasksOK(pager, pagerTasks) /\ ViewOK(pager) /\ "turn" \in Slots
      /\ \A s \in Slots : TaskOK(pager, s, pagerTasks[s])
      /\ \A s \in Slots : s # slot => pagerTasks[s].stage # "frame"
  BY DEF PageInv, TasksOK, Slots, PagerOK, FrameLoads
<1>2. t.stage = "frame" /\ t.go = pager.section /\ t.go \in Sections /\ Fits(t.anchor, t.go) /\ t.anchor \in PageAnchors
  BY <1>1 DEF FrameLoads, TaskOK, TaskRecords
<1>3. PICK P, a : P = [pager EXCEPT !.ready = TRUE] /\ a = t.anchor
  OBVIOUS
<1>4. P \in PagerRecords /\ P.ready /\ P.section = pager.section /\ P.index = pager.index /\ P.locked = pager.locked
  BY <1>1, <1>3 DEF ViewOK, PagerRecords
<1>5. P.section # 0
  BY <1>2, <1>4, SectionsFacts
<1>6. ViewOK(P) /\ a \in PageAnchors /\ Fits(a, P.section)
  BY <1>1, <1>2, <1>3, <1>4, <1>5 DEF ViewOK
<1>7. PICK Q, U : Q = pager' /\ U = pagerTasks'
  OBVIOUS
<1>8. PICK reason \in {"navigation", "selection"} : reason = "navigation"
  OBVIOUS
<1>9. Q = ScrollToAnchor(P, a, reason)
  BY <1>3, <1>7, <1>8 DEF FrameLoads
<1>10. PagerOK(Q) /\ InView(Q) /\ SameView(P, Q)
  BY <1>4, <1>6, <1>9, GoesToAnchor
<1>11. U = [s \in Slots |-> IF s = slot THEN Done(slot) ELSE Disturbed(s)]
  BY <1>7 DEF FrameLoads
<1>12. ASSUME NEW s \in Slots
       PROVE  /\ TaskOK(Q, s, U[s]) /\ U[s].stage # "frame"
              /\ s = "turn" => (U[s].stage # "none" <=> pagerTasks[s].stage # "none")
  <2>1. CASE s = slot
    <3>1. PICK u : u = Done(s)
      OBVIOUS
    <3>2. U[s] = u
      BY <1>11, <2>1, <3>1
    <3>3. TaskOK(Q, s, u) /\ u.stage \in {"none", "wait", "lost"} /\ (u.stage = "none" <=> s # "turn")
      BY <3>1, DoneGone
    <3> QED BY <1>2, <2>1, <3>2, <3>3
  <2>2. CASE s # slot
    <3>1. PICK u : u = Disturbed(s)
      OBVIOUS
    <3>2. U[s] = u
      BY <1>11, <2>2, <3>1
    <3>3. PICK R : R = pager
      OBVIOUS
    <3>4. TaskOK(R, s, pagerTasks[s]) /\ pagerTasks[s].stage # "frame"
      BY <1>1, <2>2, <3>3
    <3>5. TaskOK(Q, s, u) /\ u.stage = pagerTasks[s].stage
      BY <3>1, <3>4, DisturbedOK
    <3> QED BY <3>2, <3>4, <3>5
  <2> QED BY <2>1, <2>2
<1>13. U = [s \in Slots |-> U[s]]
  BY <1>11
<1>14. TasksOK(Q, U)
  BY <1>1, <1>4, <1>10, <1>12, <1>13 DEF TasksOK, SameView
<1> QED BY <1>7, <1>10, <1>14 DEF PageInv, SeenOK

LEMMA ScrollTaskFacts ==
  ASSUME NEW P, ViewOK(P), NEW dir \in {-1, 0, 1}, NEW to \in Int, NEW t, t = ScrollTask(P, dir, to)
  PROVE  /\ t \in TaskRecords /\ t.stage = "scroll" /\ t.dir = dir /\ t.to = to /\ t.pages = Pages(P)
         /\ t.disturbed = (P.place = Lost)
<1>1. Pages(P) \in Nat /\ NoTask \in TaskRecords
  BY PagesType, NoTaskFacts
<1> QED BY <1>1 DEF ScrollTask, TaskRecords

LEMMA StepBack ==
  ASSUME NEW g \in Nat, g >= 3, NEW at \in 0 .. g - 1, NEW to, to = IF at - 1 < 0 THEN 0 ELSE IF at - 1 > g - 1 THEN g - 1 ELSE at - 1
  PROVE  to \in Int /\ to < g - 1 /\ (to <= 0 => at <= 1) /\ ~(to >= g - 1)
OBVIOUS

LEMMA StepOn ==
  ASSUME NEW g \in Nat, g >= 3, NEW at \in 0 .. g - 1, NEW to, to = IF at + 1 < 0 THEN 0 ELSE IF at + 1 > g - 1 THEN g - 1 ELSE at + 1
  PROVE  to \in Int /\ to > 0 /\ (to >= g - 1 => at >= g - 2) /\ ~(to <= 0)
OBVIOUS

(* #scrollPrev and #scrollNext: one page, and a blank one only where a section follows. *)
LEMMA PageScroll ==
  ASSUME NEW P, ViewOK(P), RangeOK(P), ~Scrolled(P), NEW dir \in {-1, 1}, ~(IF dir < 0 THEN AtStart(P) ELSE AtEnd(P)),
         NEW t, t = ScrollTask(P, dir, Clamp(P, P.at + dir))
  PROVE  TaskOK(P, "turn", t) /\ t.stage = "scroll"
<1>1. P.at \in Nat
  BY DEF ViewOK, PagerRecords
<1>2. PICK x \in Int : x = P.at + dir
  BY <1>1
<1>3. PICK to \in Int : to = Clamp(P, x)
  BY ClampFacts
<1>4. t = ScrollTask(P, dir, to)
  BY <1>2, <1>3
<1>5. /\ t \in TaskRecords /\ t.stage = "scroll" /\ t.dir = dir /\ t.to = to /\ t.pages = Pages(P)
  BY <1>4, ScrollTaskFacts
<1>6. ASSUME P.ready
      PROVE  /\ to <= 0 => HasPrev(P)
             /\ to >= Pages(P) - 1 => HasNext(P)
             /\ (dir < 0 => to < Pages(P) - 1) /\ (dir > 0 => to > 0)
  <2>1. PICK g \in Nat : g = Pages(P) /\ g >= 3 /\ P.at \in 0 .. g - 1
    BY <1>6, PagesType, PagesFacts DEF RangeOK
  <2>2. to = IF x < 0 THEN 0 ELSE IF x > g - 1 THEN g - 1 ELSE x
    BY <1>3, <2>1, ClampFacts
  <2>3. CASE dir = -1
    <3>1. x = P.at - 1
      BY <1>1, <1>2, <2>3
    <3>2. to < g - 1 /\ (to <= 0 => P.at <= 1) /\ ~(to >= g - 1)
      BY <2>1, <2>2, <3>1, StepBack
    <3>3. P.at <= 1 => HasPrev(P)
      BY <2>3 DEF AtStart, HasPrev
    <3> QED BY <2>1, <2>3, <3>2, <3>3
  <2>4. CASE dir = 1
    <3>1. x = P.at + 1
      BY <1>1, <1>2, <2>4
    <3>2. to > 0 /\ (to >= g - 1 => P.at >= g - 2) /\ ~(to <= 0)
      BY <2>1, <2>2, <3>1, StepOn
    <3>3. P.at >= g - 2 => HasNext(P)
      BY <2>1, <2>4 DEF AtEnd, HasNext
    <3> QED BY <2>1, <2>4, <3>2, <3>3
  <2> QED BY <2>3, <2>4
<1>7. ScrollOK(P, t)
  BY <1>5, <1>6 DEF ScrollOK, IsShown
<1>8. "scroll" \in StagesOf("turn")
  BY DEF StagesOf
<1> QED BY <1>5, <1>7, <1>8 DEF TaskOK

(* The lock is not part of what is shown. *)
LEMMA LockFacts ==
  ASSUME NEW P, PagerOK(P), NEW b \in BOOLEAN, NEW Q, Q = [P EXCEPT !.locked = b]
  PROVE  /\ PagerOK(Q) /\ Q.locked = b /\ Q.section = P.section /\ Q.ready = P.ready /\ Q.size = P.size
         /\ Q.flow = P.flow /\ Q.index = P.index /\ (InView(P) => InView(Q))
<1>1. /\ Q \in PagerRecords /\ Q.locked = b /\ Q.section = P.section /\ Q.ready = P.ready /\ Q.size = P.size
      /\ Q.flow = P.flow /\ Q.index = P.index /\ Q.at = P.at /\ Q.base = P.base /\ Q.anchor = P.anchor /\ Q.place = P.place
  BY DEF PagerOK, ViewOK, PagerRecords
<1>2. Length(Q) = Length(P) /\ Scrolled(Q) = Scrolled(P) /\ HasPlace(Q) = HasPlace(P)
      /\ HasPrev(Q) = HasPrev(P) /\ HasNext(Q) = HasNext(P)
  BY <1>1 DEF Length, Scrolled, HasPlace, IsShown, HasPrev, HasNext
<1>3. Pages(Q) = Pages(P) /\ AnchorPlace(Q) = AnchorPlace(P) /\ Visible(Q) = Visible(P)
  <2>1. Pages(Q) = Pages(P)
    BY <1>1, <1>2 DEF Pages
  <2>2. AnchorPlace(Q) = AnchorPlace(P)
    BY <1>1, <1>2 DEF AnchorPlace
  <2>3. Visible(Q) = Visible(P)
    BY <1>1, <1>2 DEF Visible
  <2> QED BY <2>1, <2>2, <2>3
<1>4. ViewOK(Q)
  BY <1>1 DEF PagerOK, ViewOK
<1>5. PlaceOK(Q) /\ RangeOK(Q) /\ EdgeOK(Q)
  BY <1>1, <1>2, <1>3 DEF PagerOK, PlaceOK, RangeOK, EdgeOK
<1> QED BY <1>1, <1>2, <1>3, <1>4, <1>5 DEF PagerOK, InView

LEMMA LockedFacts ==
  ASSUME NEW P, PagerOK(P), NEW Q, Q = Locked(P)
  PROVE  /\ PagerOK(Q) /\ Q.locked /\ Q.section = P.section /\ Q.ready = P.ready /\ Q.size = P.size /\ Q.flow = P.flow
         /\ Q.index = P.index /\ (InView(P) => InView(Q))
<1>1. PICK b \in BOOLEAN : b = TRUE
  OBVIOUS
<1>2. Q = [P EXCEPT !.locked = b]
  BY <1>1 DEF Locked
<1>3. /\ PagerOK(Q) /\ Q.locked = b /\ Q.section = P.section /\ Q.ready = P.ready /\ Q.size = P.size
      /\ Q.flow = P.flow /\ Q.index = P.index /\ (InView(P) => InView(Q))
  BY <1>2, LockFacts
<1> QED BY <1>1, <1>3

LEMMA UnlockedFacts ==
  ASSUME NEW P, PagerOK(P), NEW Q, Q = [P EXCEPT !.locked = FALSE]
  PROVE  /\ PagerOK(Q) /\ ~Q.locked /\ Q.section = P.section /\ Q.ready = P.ready /\ Q.size = P.size /\ Q.flow = P.flow
         /\ Q.index = P.index /\ (InView(P) => InView(Q))
<1>1. PICK b \in BOOLEAN : b = FALSE
  OBVIOUS
<1>2. Q = [P EXCEPT !.locked = b]
  BY <1>1
<1>3. /\ PagerOK(Q) /\ Q.locked = b /\ Q.section = P.section /\ Q.ready = P.ready /\ Q.size = P.size
      /\ Q.flow = P.flow /\ Q.index = P.index /\ (InView(P) => InView(Q))
  BY <1>2, LockFacts
<1> QED BY <1>1, <1>3

LEMMA EntryFacts ==
  ASSUME NEW dir
  PROVE  Entry(dir) \in PageAnchors /\ \A i : Fits(Entry(dir), i)
BY DEF Entry, Fraction, PageAnchors, Fits

(* A scroll of the turn begins, from a state with the same layout. *)
LEMMA TurnBegins ==
  ASSUME PageInv, ~pager.locked, NEW t, TaskOK(pager, "turn", t), t.stage = "scroll",
         pager' = Locked(pager), pagerTasks' = [pagerTasks EXCEPT !["turn"] = t]
  PROVE  PageInv'
<1>1. PagerOK(pager) /\ TasksOK(pager, pagerTasks) /\ SeenOK(pager, pagerTasks) /\ "turn" \in Slots /\ "snap" \in Slots
  BY DEF PageInv, Slots
<1>2. PICK P, T : P = pager /\ T = pagerTasks
  OBVIOUS
<1>3. PICK Q, U : Q = pager' /\ U = pagerTasks'
  OBVIOUS
<1>4. PagerOK(P) /\ TasksOK(P, T) /\ SeenOK(P, T) /\ TaskOK(P, "turn", t) /\ Q = Locked(P) /\ U = [T EXCEPT !["turn"] = t]
  BY <1>1, <1>2, <1>3
<1>5. /\ PagerOK(Q) /\ Q.locked /\ Q.section = P.section /\ Q.ready = P.ready /\ Q.size = P.size /\ Q.flow = P.flow
      /\ Q.index = P.index /\ (InView(P) => InView(Q))
  BY <1>4, LockedFacts
<1>6. TaskOK(Q, "turn", t)
  BY <1>1, <1>4, <1>5, TaskStays
<1>7. U["turn"] = t /\ \A s \in Slots : s # "turn" => U[s] = T[s]
  BY <1>1, <1>4 DEF TasksOK
<1>8. t.stage # "frame" /\ (Q.locked <=> U["turn"].stage # "none")
  BY <1>5, <1>7
<1>9. TasksOK(Q, U)
  <2>1. PICK slot \in Slots : slot = "turn"
    BY <1>1
  <2>2. TaskOK(Q, slot, t) /\ U = [T EXCEPT ![slot] = t]
    BY <1>4, <1>6, <2>1
  <2>3. TasksOK(P, T) /\ Q.section = P.section /\ Q.ready = P.ready /\ Q.size = P.size /\ Q.flow = P.flow
        /\ Q.index = P.index
    BY <1>4, <1>5
  <2> QED BY <1>8, <2>2, <2>3, SetTask, Zenon
<1>10. T["turn"].stage = "none"
  BY <1>2, <1>4 DEF TasksOK
<1>11. Unsettled(T) => Unsettled(U)
  BY <1>1, <1>7, <1>10 DEF Unsettled
<1>12. SeenOK(Q, U)
  BY <1>4, <1>5, <1>11 DEF SeenOK
<1> QED BY <1>3, <1>5, <1>9, <1>12 DEF PageInv

LEMMA TurnSteps ==
  ASSUME PageInv, NEW dir \in {-1, 1}, Turn(dir)
  PROVE  PageInv'
<1> DEFINE next == IF Scrolled(pager) THEN pager.at + dir * pager.size ELSE pager.at + dir
           edge == ~pager.ready \/ (IF dir < 0 THEN pager.at = 0 ELSE pager.at + pager.size >= Length(pager))
           still == IF dir < 0 THEN AtStart(pager) ELSE AtEnd(pager)
<1>1. PagerOK(pager) /\ ViewOK(pager) /\ RangeOK(pager) /\ TasksOK(pager, pagerTasks)
  BY DEF PageInv, PagerOK
<1>2. ~pager.locked
  BY DEF Turn
<1>3. CASE pager.section = 0 \/ (Scrolled(pager) /\ edge)
  <2>1. PICK P, a, target : P = Locked(pager) /\ a = Entry(dir) /\ target = AdjacentIndex(pager.index, dir)
    OBVIOUS
  <2>2. Go(P, "turn", target, a)
    BY <1>3, <2>1 DEF Turn
  <2>3. PICK R : R = pager
    OBVIOUS
  <2>4. /\ PagerOK(P) /\ P.locked /\ P.section = R.section /\ P.ready = R.ready /\ P.size = R.size /\ P.flow = R.flow
        /\ P.index = R.index
    BY <1>1, <2>1, <2>3, LockedFacts
  <2>5. target \in Sections \cup {Undefined} /\ a \in PageAnchors /\ Fits(a, target) /\ "turn" \in Slots
    BY <2>1, AdjacentFacts, EntryFacts DEF Slots
  <2>6. ~(HasPlace(P) /\ ~Scrolled(P))
    BY <1>1, <1>3, <2>3, <2>4 DEF HasPlace, IsShown, Scrolled, ViewOK
  <2>7. /\ P.section = pager.section /\ P.ready = pager.ready /\ P.size = pager.size /\ P.flow = pager.flow
        /\ P.index = pager.index
    BY <2>3, <2>4
  <2> QED BY <2>2, <2>4, <2>5, <2>6, <2>7, GoSteps
<1>4. CASE ~(pager.section = 0 \/ (Scrolled(pager) /\ edge)) /\ pager.section # 0 /\ ~Scrolled(pager) /\ still
  <2>1. pager' = pager /\ pagerTasks' = pagerTasks
    BY <1>4 DEF Turn
  <2> QED BY <2>1 DEF PageInv
<1>5. CASE ~(pager.section = 0 \/ (Scrolled(pager) /\ edge)) /\ ~(pager.section # 0 /\ ~Scrolled(pager) /\ still)
  <2>1. PICK t : t = ScrollTask(pager, dir, Clamp(pager, next))
    OBVIOUS
  <2>2. pager' = Locked(pager) /\ pagerTasks' = [pagerTasks EXCEPT !["turn"] = t]
    BY <1>5, <2>1 DEF Turn
  <2>3. TaskOK(pager, "turn", t) /\ t.stage = "scroll"
    <3>1. PICK P : P = pager
      OBVIOUS
    <3>2. CASE ~Scrolled(pager)
      <4>1. ViewOK(P) /\ RangeOK(P) /\ ~Scrolled(P) /\ ~(IF dir < 0 THEN AtStart(P) ELSE AtEnd(P))
        BY <1>1, <1>5, <3>1, <3>2
      <4>2. t = ScrollTask(P, dir, Clamp(P, P.at + dir))
        BY <2>1, <3>1, <3>2
      <4> QED BY <3>1, <4>1, <4>2, PageScroll
    <3>3. CASE Scrolled(pager)
      <4>1. P.ready /\ Scrolled(P) /\ ViewOK(P)
        BY <1>1, <1>5, <3>1, <3>3
      <4>2. LaidOut(P)
        BY <4>1, PagesType
      <4>3. P.at \in Nat /\ P.size \in Nat
        BY <4>2, LaidFacts DEF LaidOut, PagerRecords
      <4>4. PICK x \in Int : x = P.at + dir * P.size
        BY <4>3
      <4>5. PICK to \in Int : to = Clamp(P, x)
        BY <4>1, ClampFacts
      <4>6. t = ScrollTask(P, dir, to)
        BY <2>1, <3>1, <3>3, <4>4, <4>5
      <4>7. t \in TaskRecords /\ t.stage = "scroll" /\ t.dir = dir /\ t.pages = Pages(P)
        BY <4>1, <4>6, ScrollTaskFacts
      <4>8. "scroll" \in StagesOf("turn")
        BY DEF StagesOf
      <4> QED BY <3>1, <4>1, <4>7, <4>8 DEF TaskOK, ScrollOK
    <3> QED BY <3>2, <3>3
  <2> QED BY <1>2, <2>2, <2>3, TurnBegins
<1> QED BY <1>3, <1>4, <1>5

LEMMA TasksStay ==
  ASSUME NEW P, NEW T, TasksOK(P, T), NEW Q, SameView(P, Q)
  PROVE  TasksOK(Q, T)
<1>1. ASSUME NEW s \in Slots PROVE TaskOK(Q, s, T[s])
  <2>1. PICK t : t = T[s]
    OBVIOUS
  <2>2. TaskOK(P, s, t)
    BY <2>1 DEF TasksOK
  <2>3. TaskOK(Q, s, t)
    BY <2>2, TaskStays DEF SameView
  <2> QED BY <2>1, <2>3
<1> QED BY <1>1 DEF TasksOK, SameView

(* The end of an animation: the page it was made for, or, over another layout, a place that is lost. *)
LEMMA ScrollDone ==
  ASSUME PagerOK(pager), NEW s \in Slots, NEW t, TaskOK(pager, s, t), t.stage = "scroll",
         NEW reason \in {"page", "snap"}, NEW P, P = Scroll(t, reason)
  PROVE  /\ PagerOK(P) /\ SameView(pager, P)
         /\ HasPlace(P) /\ ~Scrolled(P) =>
              /\ (t.to <= 0 => HasPrev(P)) /\ (t.to >= t.pages - 1 => HasNext(P))
              /\ (t.dir < 0 => t.to < t.pages - 1) /\ (t.dir > 0 => t.to > 0)
              /\ t.to > 0 /\ t.to < t.pages - 1 => InView(P)
<1>1. PICK R : R = pager
  OBVIOUS
<1>2. PICK to \in Int : to = t.to
  BY DEF TaskOK, TaskRecords
<1>3. PagerOK(R) /\ TaskOK(R, s, t) /\ ViewOK(R) /\ ScrollOK(R, t)
  BY <1>1 DEF PagerOK, TaskOK
<1>4. PICK X : X = IF R.ready THEN Arrive(R, to, reason) ELSE R
  OBVIOUS
<1>5. P = [X EXCEPT !.place = IF t.disturbed THEN Lost ELSE @]
  BY <1>1, <1>2, <1>4 DEF Scroll
<1>6. R.ready => /\ ViewOK(X) /\ SameView(R, X) /\ RangeOK(X) /\ PlaceOK(X) /\ X.place # Lost
                 /\ X.base = Clamp(R, to)
                 /\ ~Scrolled(X) /\ X.base \in 1 .. Pages(X) - 2 => X.place \in Visible(X)
  <2>1. HAVE R.ready
  <2>2. X = Arrive(R, to, reason)
    BY <1>4, <2>1
  <2> QED BY <1>3, <2>1, <2>2, ScrollEnds
<1>7. ViewOK(X) /\ SameView(R, X) /\ RangeOK(X)
  BY <1>3, <1>4, <1>6 DEF PagerOK, SameView
<1>8. CASE t.disturbed \/ ~R.ready
  <2>1. /\ P \in PagerRecords /\ P.index = X.index /\ P.section = X.section /\ P.ready = X.ready /\ P.size = X.size
        /\ P.flow = X.flow /\ P.locked = X.locked /\ P.at = X.at /\ P.base = X.base
        /\ t.disturbed => P.place = Lost
    <3>1. PICK p \in Int : p = IF t.disturbed THEN Lost ELSE X.place
      BY <1>7 DEF ViewOK, PagerRecords, Lost
    <3>2. P = [X EXCEPT !.place = p]
      BY <1>5, <3>1
    <3> QED BY <1>7, <3>1, <3>2 DEF ViewOK, PagerRecords
  <2>2. SameView(X, P)
    BY <2>1 DEF SameView
  <2>3. Pages(P) = Pages(X) /\ Scrolled(P) = Scrolled(X)
    BY <2>2, SameLayout
  <2>4. ViewOK(P) /\ RangeOK(P)
    BY <1>7, <2>1, <2>3 DEF ViewOK, RangeOK
  <2>5. ~HasPlace(P)
    BY <1>7, <1>8, <2>1 DEF HasPlace, IsShown, SameView
  <2>6. SameView(pager, P)
    BY <1>1, <1>7, <2>2 DEF SameView
  <2> QED BY <2>4, <2>5, <2>6 DEF PagerOK, PlaceOK, EdgeOK
<1>9. CASE ~t.disturbed /\ R.ready
  <2>1. P = X
    BY <1>5, <1>7, <1>9 DEF ViewOK, PagerRecords
  <2>2. PICK g \in Nat : g = Pages(R) /\ g >= 3 /\ g = t.pages
    BY <1>3, <1>9, PagesType, PagesFacts DEF ScrollOK
  <2>3. /\ Pages(P) = g /\ Scrolled(P) = Scrolled(R) /\ IsShown(P) = IsShown(R)
        /\ HasPrev(P) = HasPrev(R) /\ HasNext(P) = HasNext(R)
    BY <1>6, <1>9, <2>1, <2>2, SameLayout
  <2>4. HasPlace(P) /\ ~Scrolled(P) =>
          /\ (to <= 0 => HasPrev(P)) /\ (to >= g - 1 => HasNext(P))
          /\ (t.dir < 0 => to < g - 1) /\ (t.dir > 0 => to > 0)
    BY <1>2, <1>3, <1>9, <2>2, <2>3 DEF ScrollOK, HasPlace
  <2>5. ~Scrolled(P) => P.base = IF to < 0 THEN 0 ELSE IF to > g - 1 THEN g - 1 ELSE to
    BY <1>3, <1>6, <1>9, <2>1, <2>2, <2>3, ClampFacts
  <2>6. EdgeOK(P)
    BY <2>2, <2>3, <2>4, <2>5 DEF EdgeOK
  <2>7. ~Scrolled(P) /\ to > 0 /\ to < g - 1 => P.place \in Visible(P)
    <3>1. HAVE ~Scrolled(P) /\ to > 0 /\ to < g - 1
    <3>2. P.base \in 1 .. g - 2
      BY <2>2, <2>5, <3>1
    <3> QED BY <1>6, <1>9, <2>1, <2>3, <3>1, <3>2
  <2>8. PagerOK(P) /\ SameView(pager, P)
    BY <1>1, <1>6, <1>9, <2>1, <2>6 DEF PagerOK
  <2> QED BY <1>2, <2>2, <2>4, <2>7, <2>8 DEF InView
<1> QED BY <1>8, <1>9

LEMMA TurnScrolledSteps ==
  ASSUME PageInv, TurnScrolled
  PROVE  PageInv'
<1>1. PagerOK(pager) /\ TasksOK(pager, pagerTasks) /\ "turn" \in Slots /\ TaskOK(pager, "turn", pagerTasks["turn"])
  BY DEF PageInv, TasksOK, Slots
<1>2. PICK t : t = pagerTasks["turn"] /\ t.stage = "scroll" /\ TaskOK(pager, "turn", t)
  BY <1>1 DEF TurnScrolled
<1>3. PICK P, reason : P = Scroll(t, reason) /\ reason = "page"
  OBVIOUS
<1>4. reason \in {"page", "snap"}
  BY <1>3
<1>5. /\ PagerOK(P) /\ SameView(pager, P)
      /\ HasPlace(P) /\ ~Scrolled(P) =>
           /\ (t.to <= 0 => HasPrev(P)) /\ (t.to >= t.pages - 1 => HasNext(P))
           /\ (t.dir < 0 => t.to < t.pages - 1) /\ (t.dir > 0 => t.to > 0)
           /\ t.to > 0 /\ t.to < t.pages - 1 => InView(P)
  BY <1>1, <1>2, <1>3, <1>4, ScrollDone
<1>6. PICK dir \in {-1, 1}, to \in Int, g \in Nat : dir = t.dir /\ to = t.to /\ g = t.pages
  BY <1>2 DEF TaskOK, TaskRecords
<1>7. P.locked /\ pager.locked
  BY <1>1, <1>2, <1>5 DEF TasksOK, SameView
<1>8. CASE ~Scrolled(P) /\ Leaves(t)
  <2>1. PICK a, target : a = Entry(dir) /\ target = AdjacentIndex(P.index, dir)
    OBVIOUS
  <2>2. Go(P, "turn", target, a)
    BY <1>2, <1>3, <1>6, <1>8, <2>1 DEF TurnScrolled
  <2>3. target \in Sections \cup {Undefined} /\ a \in PageAnchors /\ Fits(a, target)
    BY <2>1, AdjacentFacts, EntryFacts
  <2>4. HasPlace(P) /\ ~Scrolled(P) => target # Undefined
    BY <1>5, <1>6, <1>8, <2>1 DEF Leaves, HasPrev, HasNext
  <2>5. /\ P.section = pager.section /\ P.ready = pager.ready /\ P.size = pager.size /\ P.flow = pager.flow
        /\ P.index = pager.index
    BY <1>5 DEF SameView
  <2> QED BY <1>1, <1>5, <1>7, <2>2, <2>3, <2>4, <2>5, GoSteps
<1>9. CASE ~(~Scrolled(P) /\ Leaves(t))
  <2>1. PICK Q, U, T, R : Q = pager' /\ U = pagerTasks' /\ T = pagerTasks /\ R = pager
    OBVIOUS
  <2>2. Q = [P EXCEPT !.locked = FALSE] /\ U = [T EXCEPT !["turn"] = NoTask]
    BY <1>2, <1>3, <1>9, <2>1 DEF TurnScrolled
  <2>3. InView(P)
    <3>1. HasPlace(P) /\ ~Scrolled(P) => InView(P)
      BY <1>5, <1>6, <1>9 DEF Leaves
    <3> QED BY <3>1 DEF InView
  <2>4. /\ PagerOK(Q) /\ ~Q.locked /\ Q.section = P.section /\ Q.ready = P.ready /\ Q.size = P.size /\ Q.flow = P.flow
        /\ Q.index = P.index /\ InView(Q)
    BY <1>5, <2>2, <2>3, UnlockedFacts
  <2>5. TasksOK(R, T) /\ Q.section = R.section /\ Q.ready = R.ready /\ Q.size = R.size /\ Q.flow = R.flow /\ Q.index = R.index
    BY <1>1, <1>5, <2>1, <2>4 DEF SameView
  <2>6. PICK u : u = NoTask /\ TaskOK(Q, "turn", u) /\ u.stage = "none"
    BY <1>1, NoTaskOK, NoTaskFacts
  <2>7. U = [T EXCEPT !["turn"] = u] /\ U["turn"].stage = "none"
    BY <1>1, <2>2, <2>5, <2>6 DEF TasksOK
  <2>8. TasksOK(Q, U)
    BY <1>1, <2>4, <2>5, <2>6, <2>7, SetTask
  <2> QED BY <2>1, <2>4, <2>8 DEF PageInv, SeenOK
<1> QED BY <1>8, <1>9

LEMMA TurnWaitedSteps ==
  ASSUME PageInv, TurnWaited
  PROVE  PageInv'
<1>1. PICK P, T : P = pager /\ T = pagerTasks
  OBVIOUS
<1>2. PICK Q, U : Q = pager' /\ U = pagerTasks'
  OBVIOUS
<1>3. PagerOK(P) /\ TasksOK(P, T) /\ SeenOK(P, T) /\ "turn" \in Slots /\ T["turn"].stage = "wait" /\ "snap" \in Slots
  BY <1>1 DEF PageInv, Slots, TurnWaited
<1>4. Q = [P EXCEPT !.locked = FALSE] /\ U = [T EXCEPT !["turn"] = NoTask]
  BY <1>1, <1>2 DEF TurnWaited
<1>5. /\ PagerOK(Q) /\ ~Q.locked /\ Q.section = P.section /\ Q.ready = P.ready /\ Q.size = P.size /\ Q.flow = P.flow
      /\ Q.index = P.index /\ (InView(P) => InView(Q))
  BY <1>3, <1>4, UnlockedFacts
<1>6. PICK u : u = NoTask /\ TaskOK(Q, "turn", u) /\ u.stage = "none"
  BY <1>3, NoTaskOK, NoTaskFacts
<1>7. U = [T EXCEPT !["turn"] = u] /\ U["turn"].stage = "none" /\ \A s \in Slots : s # "turn" => U[s] = T[s]
  BY <1>3, <1>4, <1>6 DEF TasksOK
<1>8. TasksOK(Q, U)
  BY <1>3, <1>5, <1>6, <1>7, SetTask
<1>9. Unsettled(T) => Unsettled(U)
  BY <1>3, <1>7 DEF Unsettled
<1> QED BY <1>2, <1>3, <1>5, <1>8, <1>9 DEF PageInv, SeenOK

LEMMA SnapScrolledSteps ==
  ASSUME PageInv, SnapScrolled
  PROVE  PageInv'
<1>1. PagerOK(pager) /\ TasksOK(pager, pagerTasks) /\ "snap" \in Slots /\ "turn" \in Slots /\ TaskOK(pager, "snap", pagerTasks["snap"])
  BY DEF PageInv, TasksOK, Slots
<1>2. PICK t : t = pagerTasks["snap"] /\ t.stage = "scroll" /\ TaskOK(pager, "snap", t)
  BY <1>1 DEF SnapScrolled
<1>3. PICK P, reason : P = Scroll(t, reason) /\ reason = "snap"
  OBVIOUS
<1>4. reason \in {"page", "snap"}
  BY <1>3
<1>5. /\ PagerOK(P) /\ SameView(pager, P)
      /\ HasPlace(P) /\ ~Scrolled(P) =>
           /\ (t.to <= 0 => HasPrev(P)) /\ (t.to >= t.pages - 1 => HasNext(P))
           /\ t.to > 0 /\ t.to < t.pages - 1 => InView(P)
  BY <1>1, <1>2, <1>3, <1>4, ScrollDone
<1>6. PICK to \in Int, g \in Nat : to = t.to /\ g = t.pages
  BY <1>2 DEF TaskOK, TaskRecords
<1>7. PICK dir \in {-1, 1} : dir = IF to <= 0 THEN -1 ELSE 1
  OBVIOUS
<1>8. CASE to <= 0 \/ to >= g - 1
  <2>1. PICK a, target : a = Entry(dir) /\ target = AdjacentIndex(P.index, dir)
    OBVIOUS
  <2>2. Go(P, "snap", target, a)
    BY <1>2, <1>3, <1>6, <1>7, <1>8, <2>1 DEF SnapScrolled
  <2>3. target \in Sections \cup {Undefined} /\ a \in PageAnchors /\ Fits(a, target)
    BY <2>1, AdjacentFacts, EntryFacts
  <2>4. HasPlace(P) /\ ~Scrolled(P) => target # Undefined
    BY <1>5, <1>6, <1>7, <1>8, <2>1 DEF HasPrev, HasNext
  <2>5. /\ P.section = pager.section /\ P.ready = pager.ready /\ P.size = pager.size /\ P.flow = pager.flow
        /\ P.index = pager.index /\ (P.locked <=> ("snap" = "turn" \/ pagerTasks["turn"].stage # "none"))
    BY <1>1, <1>5 DEF SameView, TasksOK
  <2> QED BY <1>1, <1>5, <2>2, <2>3, <2>4, <2>5, GoSteps
<1>9. CASE ~(to <= 0 \/ to >= g - 1)
  <2>1. PICK U, T, R : U = pagerTasks' /\ T = pagerTasks /\ R = pager
    OBVIOUS
  <2>2. pager' = P /\ U = [T EXCEPT !["snap"] = NoTask]
    BY <1>2, <1>3, <1>6, <1>9, <2>1 DEF SnapScrolled
  <2>3. InView(P)
    <3>1. HasPlace(P) /\ ~Scrolled(P) => InView(P)
      BY <1>5, <1>6, <1>9
    <3> QED BY <3>1 DEF InView
  <2>4. TasksOK(R, T) /\ P.section = R.section /\ P.ready = R.ready /\ P.size = R.size /\ P.flow = R.flow /\ P.index = R.index
    BY <1>1, <1>5, <2>1 DEF SameView
  <2>5. PICK u : u = NoTask /\ TaskOK(P, "snap", u) /\ u.stage = "none"
    BY <1>1, NoTaskOK, NoTaskFacts
  <2>6. U = [T EXCEPT !["snap"] = u] /\ (P.locked <=> U["turn"].stage # "none")
    BY <1>1, <1>5, <2>1, <2>2, <2>5 DEF TasksOK, SameView
  <2>7. TasksOK(P, U)
    BY <1>1, <2>4, <2>5, <2>6, SetTask
  <2> QED BY <1>5, <2>1, <2>2, <2>3, <2>7 DEF PageInv, SeenOK
<1> QED BY <1>8, <1>9

LEMMA BoundsOf ==
  ASSUME NEW b \in Nat, NEW g \in Nat, NEW first \in BOOLEAN, NEW last \in BOOLEAN, NEW q,
         q \in (IF first /\ b <= 1 THEN b ELSE b - 1) .. (IF last /\ b >= g - 2 THEN b ELSE b + 1),
         b = 0 => ~first, b = g - 1 => ~last, b <= g - 1
  PROVE  (q <= 0 => ~first) /\ (q >= g - 1 => ~last)
OBVIOUS

(* A snap ends inside the bounds of the last scroll. *)
LEMMA SnapTask ==
  ASSUME NEW P, PagerOK(P), NEW q \in Bounds(P), NEW t, t = ScrollTask(P, 0, q)
  PROVE  TaskOK(P, "snap", t) /\ t.stage = "scroll"
<1>1. ViewOK(P) /\ P.base \in Nat /\ Pages(P) \in Nat
  BY PagesType DEF PagerOK, ViewOK, PagerRecords
<1>2. PICK Q : Q = [P EXCEPT !.at = P.base]
  OBVIOUS
<1>3. Q.at = P.base /\ Q.index = P.index /\ SameView(P, Q)
  BY <1>1, <1>2 DEF ViewOK, PagerRecords, SameView
<1>4. Pages(Q) = Pages(P)
  BY <1>3, SameLayout
<1>5. q \in (IF AtStart(Q) THEN Q.at ELSE Q.at - 1) .. (IF AtEnd(Q) THEN Q.at ELSE Q.at + 1)
  BY <1>2 DEF Bounds
<1>6. PICK b \in Nat, g \in Nat : b = P.base /\ g = Pages(P)
  BY <1>1
<1>7. PICK first \in BOOLEAN, last \in BOOLEAN : first = ~HasPrev(P) /\ last = ~HasNext(P)
  BY DEF HasPrev, HasNext
<1>8. AtStart(Q) = (first /\ b <= 1) /\ AtEnd(Q) = (last /\ b >= g - 2)
  BY <1>3, <1>4, <1>6, <1>7 DEF AtStart, AtEnd, HasPrev, HasNext
<1>9. q \in (IF first /\ b <= 1 THEN b ELSE b - 1) .. (IF last /\ b >= g - 2 THEN b ELSE b + 1)
  BY <1>3, <1>5, <1>6, <1>8
<1>10. q \in Int
  BY <1>9
<1>11. /\ t \in TaskRecords /\ t.stage = "scroll" /\ t.dir = 0 /\ t.to = q /\ t.pages = Pages(P)
       /\ t.disturbed = (P.place = Lost)
  BY <1>1, <1>10, ScrollTaskFacts
<1>12. ASSUME HasPlace(P), ~Scrolled(P) PROVE (q <= 0 => HasPrev(P)) /\ (q >= g - 1 => HasNext(P))
  <2>1. (b = 0 => ~first) /\ (b = g - 1 => ~last) /\ b <= g - 1
    <3>1. (P.base = 0 => HasPrev(P)) /\ (P.base = Pages(P) - 1 => HasNext(P))
      BY <1>12 DEF PagerOK, EdgeOK
    <3>2. P.base \in 0 .. Pages(P) - 1
      BY <1>12 DEF PagerOK, RangeOK, HasPlace, IsShown
    <3>3. b <= g - 1
      BY <1>6, <3>2
    <3>4. (b = 0 => ~first) /\ (b = g - 1 => ~last)
      BY <1>6, <1>7, <3>1, Zenon
    <3> QED BY <3>3, <3>4
  <2>2. (q <= 0 => ~first) /\ (q >= g - 1 => ~last)
    BY <1>9, <2>1, BoundsOf
  <2> QED BY <1>7, <2>2
<1>13. ScrollOK(P, t)
  <2>1. ~t.disturbed => P.place # Lost
    BY <1>11, Zenon
  <2>2. ~t.disturbed /\ IsShown(P) /\ ~Scrolled(P) => (t.to <= 0 => HasPrev(P)) /\ (t.to >= t.pages - 1 => HasNext(P))
    BY <1>6, <1>11, <1>12, <2>1 DEF HasPlace
  <2> QED BY <1>11, <2>2 DEF ScrollOK
<1>14. "scroll" \in StagesOf("snap")
  BY DEF StagesOf
<1> QED BY <1>11, <1>13, <1>14 DEF TaskOK

LEMMA SnapStartsSteps ==
  ASSUME PageInv, SnapStarts
  PROVE  PageInv'
<1>1. PICK P, T, U : P = pager /\ T = pagerTasks /\ U = pagerTasks'
  OBVIOUS
<1>2. PagerOK(P) /\ TasksOK(P, T) /\ "snap" \in Slots /\ "turn" \in Slots
  BY <1>1 DEF PageInv, Slots
<1>3. PICK q \in Bounds(P) : U = [T EXCEPT !["snap"] = ScrollTask(P, 0, q)]
  BY <1>1 DEF SnapStarts
<1>4. PICK t : t = ScrollTask(P, 0, q)
  OBVIOUS
<1>5. TaskOK(P, "snap", t) /\ t.stage = "scroll"
  BY <1>2, <1>4, SnapTask
<1>6. U = [T EXCEPT !["snap"] = t] /\ U["snap"] = t /\ (P.locked <=> U["turn"].stage # "none")
  BY <1>2, <1>3, <1>4 DEF TasksOK
<1>7. TasksOK(P, U)
  BY <1>2, <1>5, <1>6, SetTask
<1>8. pager' = P
  BY <1>1 DEF SnapStarts
<1> QED BY <1>1, <1>2, <1>5, <1>6, <1>7, <1>8 DEF PageInv, SeenOK, Unsettled

(* The page follows the finger; the anchor and the end of the last scroll stay. *)
LEMMA DragFacts ==
  ASSUME NEW R, PagerOK(R), R.ready, ~Scrolled(R), NEW x \in Int, NEW P, P = [R EXCEPT !.at = Clamp(R, x)]
  PROVE  PagerOK(P) /\ SameView(R, P)
<1>1. ViewOK(R) /\ Pages(R) \in Nat /\ Pages(R) >= 1
  BY PagesType DEF PagerOK
<1>2. PICK c \in Nat : c = Clamp(R, x) /\ c \in 0 .. Pages(R) - 1
  BY <1>1, ClampFacts
<1>3. /\ P \in PagerRecords /\ SameView(R, P) /\ P.at = c /\ P.base = R.base /\ P.anchor = R.anchor /\ P.place = R.place
  BY <1>1, <1>2 DEF ViewOK, PagerRecords, SameView
<1>4. /\ Length(P) = Length(R) /\ Scrolled(P) = Scrolled(R) /\ Pages(P) = Pages(R) /\ IsShown(P) = IsShown(R)
      /\ HasPrev(P) = HasPrev(R) /\ HasNext(P) = HasNext(R)
  BY <1>3, SameLayout
<1>5. AnchorPlace(P) = AnchorPlace(R) /\ HasPlace(P) = HasPlace(R)
  BY <1>3, <1>4 DEF AnchorPlace, HasPlace
<1>6. ViewOK(P)
  BY <1>1, <1>3 DEF ViewOK, SameView
<1>7. PlaceOK(P) /\ RangeOK(P) /\ EdgeOK(P)
  BY <1>2, <1>3, <1>4, <1>5 DEF PagerOK, PlaceOK, RangeOK, EdgeOK
<1> QED BY <1>3, <1>6, <1>7 DEF PagerOK

LEMMA SwipeSteps ==
  ASSUME PageInv, NEW dir \in -1 .. 1, NEW drag \in -1 .. 1, Swipe(dir, drag)
  PROVE  PageInv'
<1>1. PICK R, T, Q, U : R = pager /\ T = pagerTasks /\ Q = pager' /\ U = pagerTasks'
  OBVIOUS
<1>2. /\ PagerOK(R) /\ TasksOK(R, T) /\ "snap" \in Slots /\ "turn" \in Slots /\ R.at \in Nat
      /\ R.ready /\ ~Scrolled(R)
  BY <1>1 DEF PageInv, Slots, Swipe, PagerOK, ViewOK, PagerRecords
<1>3. PICK x \in Int : x = R.at + drag
  BY <1>2
<1>4. PICK P : P = [R EXCEPT !.at = Clamp(R, x)]
  OBVIOUS
<1>5. PagerOK(P) /\ SameView(R, P) /\ ViewOK(P) /\ RangeOK(P)
  BY <1>2, <1>4, DragFacts DEF PagerOK
<1>6. P.at = Clamp(R, x)
  BY <1>2, <1>4 DEF PagerOK, ViewOK, PagerRecords
<1>7. ~Scrolled(P)
  BY <1>2, <1>5, SameLayout
<1>8. PICK turns \in BOOLEAN : turns = (~P.locked /\ ((dir < 0 /\ ~AtStart(P)) \/ (dir > 0 /\ ~AtEnd(P))))
  OBVIOUS
<1>9. PICK u : u = [NoTask EXCEPT !.stage = "touched"]
  OBVIOUS
<1>10. PICK t : t = ScrollTask(P, dir, Clamp(P, P.at + dir))
  OBVIOUS
<1>11. /\ Q = IF turns THEN Locked(P) ELSE P
       /\ U = [T EXCEPT !["snap"] = u, !["turn"] = IF turns THEN t ELSE T["turn"]]
  <2>1. P = [pager EXCEPT !.at = Clamp(pager, pager.at + drag)]
    BY <1>1, <1>3, <1>4
  <2>2. Q = IF turns THEN Locked(P) ELSE P
    BY <1>1, <1>8, <2>1 DEF Swipe
  <2>3. U = [T EXCEPT !["snap"] = u, !["turn"] = IF turns THEN t ELSE T["turn"]]
    <3>1. CASE turns
      <4>1. ~P.locked /\ ((dir < 0 /\ ~AtStart(P)) \/ (dir > 0 /\ ~AtEnd(P)))
        BY <1>8, <3>1, Zenon
      <4>2. pagerTasks' = [pagerTasks EXCEPT !["snap"] = u, !["turn"] = t]
        BY <1>9, <1>10, <2>1, <4>1, Zenon DEF Swipe
      <4> QED BY <1>1, <3>1, <4>2
    <3>2. CASE ~turns
      BY <1>1, <1>8, <1>9, <2>1, <3>2 DEF Swipe
    <3> QED BY <3>1, <3>2
  <2> QED BY <2>2, <2>3
<1>12. PICK V : V = [T EXCEPT !["snap"] = u]
  OBVIOUS
<1>13. T = [s \in Slots |-> T[s]]
  BY <1>2 DEF TasksOK
<1>14. V["snap"] = u /\ V["turn"] = T["turn"] /\ V = [s \in Slots |-> V[s]]
  BY <1>2, <1>12, <1>13
<1>15. TaskOK(P, "snap", u) /\ u.stage = "touched"
  <2>1. "touched" \in {"none", "touched", "wait", "lost"} \cap StagesOf("snap")
    BY DEF StagesOf
  <2>2. PICK stage \in {"none", "touched", "wait", "lost"} \cap StagesOf("snap") : stage = "touched"
    BY <2>1
  <2> QED BY <1>2, <1>9, <2>2, StillOK
<1>16. TasksOK(P, V)
  <2>1. P.locked <=> V["turn"].stage # "none"
    BY <1>2, <1>5, <1>14 DEF TasksOK, SameView
  <2>2. P.section = R.section /\ P.ready = R.ready /\ P.size = R.size /\ P.flow = R.flow /\ P.index = R.index
    BY <1>5 DEF SameView
  <2>3. u.stage # "frame"
    BY <1>15
  <2> QED BY <1>2, <1>12, <1>15, <2>1, <2>2, <2>3, SetTask
<1>17. CASE ~turns
  <2>1. Q = P /\ U = V
    BY <1>2, <1>11, <1>12, <1>13, <1>17
  <2> QED BY <1>1, <1>5, <1>14, <1>15, <1>16, <2>1 DEF PageInv, SeenOK, Unsettled
<1>18. CASE turns
  <2>1. dir \in {-1, 1} /\ ~(IF dir < 0 THEN AtStart(P) ELSE AtEnd(P))
    <3>1. (dir < 0 /\ ~AtStart(P)) \/ (dir > 0 /\ ~AtEnd(P))
      BY <1>8, <1>18, Zenon
    <3> QED BY <3>1
  <2>2. TaskOK(P, "turn", t) /\ t.stage = "scroll"
    BY <1>5, <1>7, <1>10, <2>1, PageScroll
  <2>3. Q = Locked(P)
    BY <1>11, <1>18
  <2>4. U = [V EXCEPT !["turn"] = t] /\ U["turn"] = t /\ U["snap"] = u
    BY <1>2, <1>11, <1>12, <1>13, <1>18
  <2>5. /\ PagerOK(Q) /\ Q.locked /\ Q.section = P.section /\ Q.ready = P.ready /\ Q.size = P.size /\ Q.flow = P.flow
        /\ Q.index = P.index
    BY <1>5, <2>3, LockedFacts
  <2>6. TaskOK(Q, "turn", t)
    BY <1>2, <2>2, <2>5, TaskStays
  <2>7. t.stage # "frame" /\ (Q.locked <=> U["turn"].stage # "none")
    BY <2>2, <2>4, <2>5
  <2>8. TasksOK(Q, U)
    BY <1>2, <1>16, <2>4, <2>5, <2>6, <2>7, SetTask
  <2> QED BY <1>1, <1>15, <2>4, <2>5, <2>8 DEF PageInv, SeenOK, Unsettled
<1> QED BY <1>17, <1>18

LEMMA ReflowSteps ==
  ASSUME PageInv, NEW size \in PageSizes, NEW flow \in {"paginated", "scrolled"}, Reflow(size, flow)
  PROVE  PageInv'
<1>1. PICK P, Q, U : P = pager /\ Q = pager' /\ U = pagerTasks'
  OBVIOUS
<1>2. PagerOK(P) /\ P.ready /\ TasksOK(P, pagerTasks) /\ \A s \in Slots : TaskOK(P, s, pagerTasks[s]) /\ pagerTasks[s].stage # "frame"
  BY <1>1 DEF PageInv, Reflow, TasksOK, TaskOK
<1>3. Q = Expand(P, size, flow)
  BY <1>1 DEF Reflow
<1>4. PagerOK(Q) /\ InView(Q) /\ Q.locked = P.locked
  BY <1>2, <1>3, LaysOut
<1>5. U = [s \in Slots |-> Disturbed(s)]
  BY <1>1 DEF Reflow
<1>6. ASSUME NEW s \in Slots PROVE TaskOK(Q, s, U[s]) /\ U[s].stage = pagerTasks[s].stage
  <2>1. PICK t : t = Disturbed(s)
    OBVIOUS
  <2>2. TaskOK(Q, s, t) /\ t.stage = pagerTasks[s].stage
    BY <1>2, <2>1, DisturbedOK
  <2> QED BY <1>5, <2>1, <2>2
<1>7. U = [s \in Slots |-> U[s]] /\ "turn" \in Slots
  BY <1>5 DEF Slots
<1>8. TasksOK(Q, U)
  BY <1>2, <1>4, <1>6, <1>7 DEF TasksOK
<1> QED BY <1>1, <1>4, <1>8 DEF PageInv, SeenOK

LEMMA SpeechFollowsSteps ==
  ASSUME PageInv, NEW i \in Units(pager), SpeechFollows(i)
  PROVE  PageInv'
<1>1. PICK P, Q, T : P = pager /\ Q = pager' /\ T = pagerTasks
  OBVIOUS
<1>2. PagerOK(P) /\ ViewOK(P) /\ TasksOK(P, T) /\ P.ready /\ i \in 0 .. Length(P) - 1
  BY <1>1 DEF PageInv, PagerOK, Units
<1>3. Length(P) \in Nat
  BY <1>2, PagesType, LaidFacts
<1>4. PICK a \in PageAnchors : a = Text(i) /\ Fits(a, P.section)
  <2>1. i \in Nat /\ i < Texts[P.section]
    BY <1>2, <1>3 DEF Length
  <2>2. PICK a : a = Text(i)
    OBVIOUS
  <2>3. a \in PageAnchors /\ a.at = i
    BY <2>1, <2>2 DEF Text, PageAnchors
  <2> QED BY <2>1, <2>2, <2>3 DEF Fits
<1>5. PICK reason \in {"navigation", "selection"} : reason = "selection"
  OBVIOUS
<1>6. Q = ScrollToAnchor(P, a, reason)
  BY <1>1, <1>4, <1>5 DEF SpeechFollows
<1>7. PagerOK(Q) /\ InView(Q) /\ SameView(P, Q)
  BY <1>2, <1>4, <1>6, GoesToAnchor
<1>8. TasksOK(Q, T)
  BY <1>2, <1>7, TasksStay
<1> QED BY <1>1, <1>7, <1>8 DEF PageInv, SeenOK, SpeechFollows

(* Scrolled, there are no pages. *)
LEMMA ScrolledFacts ==
  ASSUME NEW P, TasksOK(P, pagerTasks), SameView(P, pager'), ViewOK(pager'), PlaceOK(pager'), Scrolled(P), pagerTasks' = pagerTasks
  PROVE  PageInv'
<1>1. PICK Q, T : Q = pager' /\ T = pagerTasks
  OBVIOUS
<1>2. SameView(P, Q) /\ ViewOK(Q) /\ PlaceOK(Q) /\ TasksOK(P, T)
  BY <1>1
<1>3. Scrolled(Q)
  BY <1>2, SameLayout
<1>4. PagerOK(Q) /\ InView(Q)
  BY <1>2, <1>3 DEF PagerOK, InView, RangeOK, EdgeOK
<1>5. TasksOK(Q, T)
  BY <1>2, TasksStay
<1> QED BY <1>1, <1>4, <1>5 DEF PageInv, SeenOK

LEMMA ScrollByHandSteps ==
  ASSUME PageInv, NEW i \in Units(pager), ScrollByHand(i)
  PROVE  PageInv'
<1>1. PICK P, Q : P = pager /\ Q = pager'
  OBVIOUS
<1>2. PagerOK(P) /\ ViewOK(P) /\ TasksOK(P, pagerTasks) /\ P.ready /\ i \in 0 .. Length(P) - 1 /\ Scrolled(P)
  BY <1>1 DEF PageInv, PagerOK, Units, ScrollByHand
<1>3. i \in Nat
  BY <1>2, PagesType, LaidFacts
<1>4. Q = [P EXCEPT !.at = i, !.moved = TRUE] /\ pagerTasks' = pagerTasks
  BY <1>1 DEF ScrollByHand
<1>5. Q \in PagerRecords /\ SameView(P, Q) /\ Q.anchor = P.anchor /\ Q.place = P.place
  BY <1>2, <1>3, <1>4 DEF ViewOK, PagerRecords, SameView
<1>6. ViewOK(Q)
  BY <1>2, <1>5 DEF ViewOK, SameView
<1>7. Length(Q) = Length(P) /\ IsShown(Q) = IsShown(P)
  BY <1>5, SameLayout
<1>8. AnchorPlace(Q) = AnchorPlace(P) /\ HasPlace(Q) = HasPlace(P)
  BY <1>5, <1>7 DEF AnchorPlace, HasPlace
<1>9. PlaceOK(Q)
  BY <1>2, <1>5, <1>7, <1>8 DEF PagerOK, PlaceOK
<1> QED BY <1>1, <1>2, <1>4, <1>5, <1>6, <1>9, ScrolledFacts

LEMMA ScrollSettlesSteps ==
  ASSUME PageInv, ScrollSettles
  PROVE  PageInv'
<1>1. PICK P, Q : P = pager /\ Q = pager'
  OBVIOUS
<1>2. PagerOK(P) /\ ViewOK(P) /\ RangeOK(P) /\ TasksOK(P, pagerTasks) /\ P.ready /\ Scrolled(P)
  BY <1>1 DEF PageInv, PagerOK, ScrollSettles
<1>3. PICK X : X = IF P.just THEN [P EXCEPT !.just = FALSE] ELSE AfterScroll(P, "scroll")
  OBVIOUS
<1>4. Q = [X EXCEPT !.moved = FALSE] /\ pagerTasks' = pagerTasks
  BY <1>1, <1>3 DEF ScrollSettles
<1>5. ViewOK(X) /\ PlaceOK(X) /\ SameView(P, X)
  <2>1. CASE P.just
    <3>1. X \in PagerRecords /\ SameView(P, X) /\ X.anchor = P.anchor /\ X.place = P.place
      BY <1>2, <1>3, <2>1 DEF ViewOK, PagerRecords, SameView
    <3>2. Length(X) = Length(P) /\ IsShown(X) = IsShown(P)
      BY <3>1, SameLayout
    <3>3. AnchorPlace(X) = AnchorPlace(P) /\ HasPlace(X) = HasPlace(P)
      BY <3>1, <3>2 DEF AnchorPlace, HasPlace
    <3> QED BY <1>2, <3>1, <3>2, <3>3 DEF ViewOK, PagerOK, PlaceOK, SameView
  <2>2. CASE ~P.just
    <3>1. PICK reason \in {"page", "snap", "scroll"} : reason = "scroll"
      OBVIOUS
    <3>2. X = AfterScroll(P, reason)
      BY <1>3, <2>2, <3>1
    <3> QED BY <1>2, <3>2, FollowsPage
  <2> QED BY <2>1, <2>2
<1>6. Q \in PagerRecords /\ SameView(X, Q) /\ Q.anchor = X.anchor /\ Q.place = X.place
  BY <1>4, <1>5 DEF ViewOK, PagerRecords, SameView
<1>7. Length(Q) = Length(X) /\ IsShown(Q) = IsShown(X)
  BY <1>6, SameLayout
<1>8. AnchorPlace(Q) = AnchorPlace(X) /\ HasPlace(Q) = HasPlace(X)
  BY <1>6, <1>7 DEF AnchorPlace, HasPlace
<1>9. ViewOK(Q) /\ PlaceOK(Q) /\ SameView(P, Q)
  BY <1>5, <1>6, <1>7, <1>8 DEF ViewOK, PlaceOK, SameView
<1> QED BY <1>1, <1>2, <1>4, <1>9, ScrolledFacts

LEMMA PageStarts == PaginatorInit => PageInv
<1> SUFFICES ASSUME PaginatorInit PROVE PageInv
  OBVIOUS
<1>1. Fraction(0) \in PageAnchors
  BY DEF Fraction, PageAnchors
<1>2. pager \in PagerRecords /\ ~pager.ready /\ pager.index = pager.section /\ ~pager.locked
  BY <1>1 DEF PaginatorInit, PagerRecords, Unset
<1>3. PagerOK(pager) /\ InView(pager)
  BY <1>2 DEF PagerOK, ViewOK, PlaceOK, RangeOK, EdgeOK, InView, HasPlace, IsShown
<1>4. \A s \in Slots : pagerTasks[s] = NoTask
  BY DEF PaginatorInit
<1>5. ASSUME NEW s \in Slots PROVE TaskOK(pager, s, pagerTasks[s])
  <2>1. PICK P : P = pager
    OBVIOUS
  <2> QED BY <1>4, <2>1, NoTaskOK
<1>6. pagerTasks = [s \in Slots |-> pagerTasks[s]] /\ "turn" \in Slots
  BY DEF PaginatorInit, Slots
<1>7. TasksOK(pager, pagerTasks)
  BY <1>2, <1>4, <1>5, <1>6, NoTaskFacts DEF TasksOK
<1> QED BY <1>3, <1>7 DEF PageInv, SeenOK

(* What a jump of the reader asks for is in the section. *)
LEMMA JumpAnchors ==
  ASSUME NEW target \in Sections, NEW a \in {Fraction(0), Text(Texts[target] - 1)}
  PROVE  a \in PageAnchors /\ Fits(a, target)
<1>1. PICK n \in Nat : n = Texts[target] - 1 /\ n < Texts[target]
  BY SectionsFacts
<1> QED BY <1>1 DEF Fraction, Text, PageAnchors, Fits

LEMMA PageSteps ==
  ASSUME PageInv, PaginatorNext \/ UNCHANGED <<pager, pagerTasks>>
  PROVE  PageInv'
<1>1. CASE UNCHANGED <<pager, pagerTasks>>
  BY <1>1 DEF PageInv
<1>2. ASSUME NEW slot \in Slots, SectionLoaded(slot) \/ SectionMissing(slot) \/ FrameLoads(slot) \/ SectionFails(slot)
      PROVE  PageInv'
  BY <1>2, SectionLoadedSteps, SectionMissingSteps, FrameLoadsSteps, SectionFailsSteps
<1>3. ASSUME TurnScrolled \/ TurnWaited \/ SnapStarts \/ SnapScrolled \/ ScrollSettles PROVE PageInv'
  BY <1>3, TurnScrolledSteps, TurnWaitedSteps, SnapStartsSteps, SnapScrolledSteps, ScrollSettlesSteps
<1>4. ASSUME NEW slot \in {"goTo", "link"}, NEW target \in Sections, NEW a \in {Fraction(0), Text(Texts[target] - 1)},
             GoTo(slot, target, a)
      PROVE  PageInv'
  <2>1. a \in PageAnchors /\ Fits(a, target)
    BY JumpAnchors
  <2> QED BY <1>4, <2>1, GoToSteps
<1>5. ASSUME NEW dir \in {-1, 1}, Turn(dir) PROVE PageInv'
  BY <1>5, TurnSteps
<1>6. ASSUME NEW dir \in -1 .. 1, NEW drag \in -1 .. 1, Swipe(dir, drag) PROVE PageInv'
  BY <1>6, SwipeSteps
<1>7. ASSUME NEW size \in PageSizes, NEW flow \in {"paginated", "scrolled"}, Reflow(size, flow) PROVE PageInv'
  BY <1>7, ReflowSteps
<1>8. ASSUME NEW i \in Units(pager), SpeechFollows(i) \/ ScrollByHand(i) PROVE PageInv'
  BY <1>8, SpeechFollowsSteps, ScrollByHandSteps
<1> QED BY <1>1, <1>2, <1>3, <1>4, <1>5, <1>6, <1>7, <1>8 DEF PaginatorNext, PagerStep

LEMMA PageImplies == PageInv => PlaceKept /\ IndexMatchesView /\ LockAccounted
<1> SUFFICES ASSUME PageInv PROVE PlaceKept /\ IndexMatchesView /\ LockAccounted
  OBVIOUS
<1>1. PagerOK(pager) /\ ViewOK(pager) /\ TasksOK(pager, pagerTasks) /\ SeenOK(pager, pagerTasks) /\ "turn" \in Slots /\ "snap" \in Slots
  BY DEF PageInv, PagerOK, Slots
<1>2. PlaceKept
  <2>1. AtRest => ~Unsettled(pagerTasks)
    BY <1>1 DEF AtRest, Unsettled
  <2> QED BY <1>1, <2>1 DEF PlaceKept, SeenOK, InView, HasPlace, IsShown, AtRest
<1>3. IndexMatchesView
  BY <1>1 DEF IndexMatchesView, ViewOK
<1>4. LockAccounted
  <2>1. TaskOK(pager, "turn", pagerTasks["turn"]) /\ (pager.locked => pagerTasks["turn"].stage # "none")
    BY <1>1 DEF TasksOK
  <2>2. pagerTasks["turn"].stage \in {"none", "scroll", "load", "frame", "wait", "lost"}
    BY <2>1 DEF TaskOK, StagesOf
  <2> QED BY <2>1, <2>2 DEF LockAccounted, TaskOK
<1> QED BY <1>2, <1>3, <1>4

(* Nothing but the end of its animation takes a turn that scrolls to the next section. *)
LEMMA TurnGoesOn ==
  ASSUME PageInv, PaginatorNext \/ UNCHANGED <<pager, pagerTasks>>, pagerTasks["turn"].stage = "scroll", pagerTasks'["turn"].stage = "load"
  PROVE  TurnScrolled
<1>1. pager.locked /\ "turn" \in Slots /\ pagerTasks = [s \in Slots |-> pagerTasks[s]] /\ pagerTasks["turn"] \in TaskRecords
  BY DEF PageInv, TasksOK, Slots, TaskOK
<1>2. Disturbed("turn").stage = "scroll"
  BY <1>1 DEF Disturbed, TaskRecords
<1>3. ASSUME NEW slot \in Slots, slot # "turn", NEW u, pagerTasks' = [pagerTasks EXCEPT ![slot] = u] PROVE FALSE
  BY <1>1, <1>3
<1>4. ASSUME NEW slot \in Slots, SectionLoaded(slot) \/ FrameLoads(slot) PROVE FALSE
  <2>1. slot # "turn"
    BY <1>4 DEF SectionLoaded, FrameLoads
  <2>2. pagerTasks'["turn"] = Disturbed("turn")
    BY <1>1, <1>4, <2>1 DEF SectionLoaded, FrameLoads
  <2> QED BY <1>2, <2>2
<1>5. ASSUME NEW slot \in Slots, SectionMissing(slot) \/ SectionFails(slot) PROVE FALSE
  <2>1. slot # "turn"
    BY <1>5 DEF SectionMissing, SectionFails
  <2>2. \E u : pagerTasks' = [pagerTasks EXCEPT ![slot] = u]
    BY <1>5 DEF SectionMissing, SectionFails, Redisplay
  <2> QED BY <1>3, <2>1, <2>2
<1>6. ASSUME SnapScrolled PROVE FALSE
  <2>1. \E u : pagerTasks' = [pagerTasks EXCEPT !["snap"] = u]
    BY <1>6 DEF SnapScrolled, Go
  <2>2. "snap" \in Slots
    BY DEF Slots
  <2> QED BY <1>3, <2>1, <2>2
<1>7. ASSUME SnapStarts PROVE FALSE
  <2>1. \E u : pagerTasks' = [pagerTasks EXCEPT !["snap"] = u]
    BY <1>7 DEF SnapStarts
  <2>2. "snap" \in Slots
    BY DEF Slots
  <2> QED BY <1>3, <2>1, <2>2
<1>8. ASSUME NEW dir \in -1 .. 1, NEW drag \in -1 .. 1, Swipe(dir, drag) PROVE FALSE
  <2>1. [pager EXCEPT !.at = Clamp(pager, pager.at + drag)].locked = pager.locked
    BY DEF PageInv, PagerOK, ViewOK, PagerRecords
  <2>2. pagerTasks'["turn"] = pagerTasks["turn"]
    BY <1>1, <1>8, <2>1 DEF Swipe
  <2> QED BY <2>2
<1>9. ASSUME NEW size, NEW flow, Reflow(size, flow) PROVE FALSE
  <2>1. pagerTasks'["turn"] = Disturbed("turn")
    BY <1>1, <1>9 DEF Reflow
  <2> QED BY <1>2, <2>1
<1>10. ASSUME UNCHANGED pagerTasks PROVE FALSE
  BY <1>10
<1>11. ~TurnWaited /\ (\A dir : ~Turn(dir)) /\ (\A slot, target, a : ~GoTo(slot, target, a))
  BY <1>1 DEF TurnWaited, Turn, GoTo
<1>12. ~ScrollSettles /\ \A i : ~SpeechFollows(i) /\ ~ScrollByHand(i)
  BY <1>10 DEF ScrollSettles, SpeechFollows, ScrollByHand
<1>13. ~UNCHANGED <<pager, pagerTasks>>
  BY <1>10
<1> QED BY <1>4, <1>5, <1>6, <1>7, <1>8, <1>9, <1>11, <1>12, <1>13 DEF PaginatorNext, PagerStep

LEMMA PageEnds ==
  ASSUME PageInv, PaginatorNext \/ UNCHANGED <<pager, pagerTasks>>, pagerTasks["turn"].stage = "scroll", pagerTasks["turn"].dir > 0,
         ~pagerTasks["turn"].disturbed, pager.ready, pagerTasks'["turn"].stage = "load"
  PROVE  (pagerTasks["turn"].to - 1) * pager.size >= Length(pager)
<1>1. TurnScrolled /\ "turn" \in Slots /\ pagerTasks = [s \in Slots |-> pagerTasks[s]]
  BY TurnGoesOn DEF Slots, PageInv, TasksOK
<1>2. PICK t : t = pagerTasks["turn"] /\ TaskOK(pager, "turn", t)
  BY <1>1 DEF PageInv, TasksOK
<1>3. Leaves(t)
  <2>1. pagerTasks' # [pagerTasks EXCEPT !["turn"] = NoTask]
    <3>1. [pagerTasks EXCEPT !["turn"] = NoTask]["turn"].stage = "none"
      BY <1>1, NoTaskFacts
    <3> QED BY <3>1
  <2> QED BY <1>1, <1>2, <2>1 DEF TurnScrolled
<1>4. PICK P : P = pager
  OBVIOUS
<1>5. LaidOut(P)
  BY <1>4, PagesType DEF PageInv, PagerOK
<1>6. PICK L \in Nat, s \in Nat \ {0}, g \in Nat : L = Length(P) /\ s = P.size /\ g = Pages(P) /\ (g - 2) * s >= L
  BY <1>5, LaidFacts, PagesFacts
<1>7. PICK to \in Int : to = t.to /\ to >= g - 1
  BY <1>2, <1>3, <1>4, <1>6 DEF TaskOK, TaskRecords, ScrollOK, Leaves
<1>8. PICK m \in Int, k \in Int : m = g - 2 /\ k = to - 1 /\ m <= k
  BY <1>7
<1>9. m * s <= k * s /\ m * s >= L
  BY <1>6, <1>8, MultMono
<1>10. k * s >= L
  BY <1>9
<1> QED BY <1>2, <1>4, <1>6, <1>7, <1>8, <1>10

(***************************************************************************)
(* Bookmarks                                                               *)
(***************************************************************************)

(* A least counterexample: what holds at 0 and goes on holds up to n. *)
LEMMA UpTo ==
  ASSUME NEW n \in Nat, NEW G \in SUBSET Nat, 0 \in G, \A i \in 1 .. n : i - 1 \in G => i \in G
  PROVE  n \in G
<1> DEFINE B == {i \in 0 .. n : i \notin G}
<1>1. SUFFICES ASSUME n \notin G PROVE FALSE
  OBVIOUS
<1>2. B \in SUBSET Nat /\ B # {}
  BY <1>1
<1>3. \E m \in B : \A j \in B : m <= j
  <2> HIDE DEF B
  <2> QED BY <1>2, LeastThere
<1>4. PICK m \in B : \A j \in B : m <= j
  BY <1>3
<1>5. m \in 1 .. n /\ m - 1 \in 0 .. n /\ m - 1 < m
  BY <1>4
<1>6. m - 1 \in G
  BY <1>4, <1>5
<1> QED BY <1>4, <1>5, <1>6

(* A bookmark, and the set of those in a list. *)
MarkRecords == [id : Nat, place : Places \cup {"none"}]
Marked(list) == {list[k] : k \in DOMAIN list}

(* One more bookmark at the end. *)
LEMMA AppendMark ==
  ASSUME NEW s \in Seq(MarkRecords), NEW m \in MarkRecords
  PROVE  /\ Append(s, m) \in Seq(MarkRecords) /\ Marked(Append(s, m)) = Marked(s) \cup {m}
         /\ Distinct(s) /\ (\A x \in Marked(s) : x.id # m.id) => Distinct(Append(s, m))
<1>1. PICK t : t = Append(s, m)
  OBVIOUS
<1>2. /\ t \in Seq(MarkRecords) /\ DOMAIN t = 1 .. Len(s) + 1 /\ t[Len(s) + 1] = m /\ DOMAIN s = 1 .. Len(s)
      /\ \A k \in 1 .. Len(s) : t[k] = s[k]
  BY <1>1
<1>3. Marked(t) = Marked(s) \cup {m}
  <2>1. \A k \in 1 .. Len(s) + 1 : k \in 1 .. Len(s) \/ k = Len(s) + 1
    BY <1>2
  <2>2. 1 .. Len(s) \subseteq 1 .. Len(s) + 1 /\ Len(s) + 1 \in 1 .. Len(s) + 1
    BY <1>2
  <2> QED BY <1>2, <2>1, <2>2 DEF Marked
<1>4. ASSUME Distinct(s), \A x \in Marked(s) : x.id # m.id, NEW j \in DOMAIN t, NEW k \in DOMAIN t, t[j].id = t[k].id
      PROVE  j = k
  <2>1. \A i \in DOMAIN t : i \in 1 .. Len(s) \/ i = Len(s) + 1
    BY <1>2
  <2>2. \A i \in 1 .. Len(s) : s[i].id # m.id
    BY <1>2, <1>4 DEF Marked
  <2>3. CASE j \in 1 .. Len(s) /\ k \in 1 .. Len(s)
    BY <1>2, <1>4, <2>3 DEF Distinct
  <2> QED BY <1>2, <1>4, <2>1, <2>2, <2>3
<1> QED BY <1>1, <1>2, <1>3, <1>4 DEF Distinct

(* One turn of the filter, and the function WithoutId chooses. *)
LeftTurn(list, id, f, n) ==
    IF n = 0 THEN <<>>
    ELSE IF list[n].id = id THEN f[n - 1] ELSE Append(f[n - 1], list[n])
IsLeft(list, id, m, f) == f = [n \in 0 .. m |-> LeftTurn(list, id, f, n)]

(* The recursive function of a filter exists. *)
LEMMA LeftExists ==
  ASSUME NEW list, NEW id, NEW m \in Nat
  PROVE  \E f : IsLeft(list, id, m, f)
<1> DEFINE G == {k \in Nat : \E f : IsLeft(list, id, k, f)}
<1>1. 0 \in G
  <2>1. PICK f : f = [n \in 0 .. 0 |-> <<>>]
    OBVIOUS
  <2>2. IsLeft(list, id, 0, f)
    BY <2>1 DEF IsLeft, LeftTurn
  <2> QED BY <2>2
<1>2. ASSUME NEW i \in 1 .. m, i - 1 \in G PROVE i \in G
  <2>1. PICK f : IsLeft(list, id, i - 1, f)
    BY <1>2
  <2>2. PICK g : g = [n \in 0 .. i |-> IF n < i THEN f[n] ELSE LeftTurn(list, id, f, i)]
    OBVIOUS
  <2>3. \A n \in 0 .. i - 1 : f[n] = LeftTurn(list, id, f, n)
    BY <2>1 DEF IsLeft
  <2>4. \A n \in 0 .. i : g[n] = LeftTurn(list, id, f, n)
    BY <2>2, <2>3
  <2>5. \A n \in 0 .. i : n # 0 => n - 1 \in 0 .. i /\ n - 1 < i /\ g[n - 1] = f[n - 1]
    BY <2>2
  <2>6. \A n \in 0 .. i : LeftTurn(list, id, f, n) = LeftTurn(list, id, g, n)
    BY <2>5 DEF LeftTurn
  <2>7. g = [n \in 0 .. i |-> LeftTurn(list, id, g, n)]
    BY <2>2, <2>4, <2>6
  <2> QED BY <2>7 DEF IsLeft
<1>3. m \in G
  BY <1>1, <1>2, UpTo
<1> QED BY <1>3

(* What filter leaves: the others, each once if it was there once. *)
LEMMA WithoutIdFacts ==
  ASSUME NEW list \in Seq(MarkRecords), NEW id
  PROVE  /\ WithoutId(list, id) \in Seq(MarkRecords)
         /\ Marked(WithoutId(list, id)) = {x \in Marked(list) : x.id # id}
         /\ Distinct(list) => Distinct(WithoutId(list, id))
<1>1. PICK f : f = CHOOSE g : IsLeft(list, id, Len(list), g)
  OBVIOUS
<1>2. WithoutId(list, id) = f[Len(list)]
  BY <1>1 DEF WithoutId, IsLeft, LeftTurn
<1>3. IsLeft(list, id, Len(list), f)
  <2>1. Len(list) \in Nat
    OBVIOUS
  <2>2. \E g : IsLeft(list, id, Len(list), g)
    BY <2>1, LeftExists
  <2> QED BY <1>1, <2>2
<1>4. \A n \in 0 .. Len(list) : f[n] = LeftTurn(list, id, f, n)
  BY <1>3 DEF IsLeft
<1> DEFINE LeftOf(n) == {list[k] : k \in {j \in 1 .. n : list[j].id # id}}
           G == {n \in 0 .. Len(list) : /\ f[n] \in Seq(MarkRecords) /\ Marked(f[n]) = LeftOf(n)
                                        /\ Distinct(list) => Distinct(f[n])}
<1>5. 0 \in G
  <2>1. f[0] = <<>>
    BY <1>4 DEF LeftTurn
  <2>2. <<>> \in Seq(MarkRecords) /\ Marked(<<>>) = {} /\ Distinct(<<>>)
    BY DEF Marked, Distinct
  <2>3. LeftOf(0) = {}
    OBVIOUS
  <2>4. 0 \in 0 .. Len(list)
    OBVIOUS
  <2>5. f[0] \in Seq(MarkRecords) /\ Marked(f[0]) = LeftOf(0) /\ Distinct(f[0])
    BY <2>1, <2>2, <2>3
  <2> HIDE DEF LeftOf
  <2> QED BY <2>4, <2>5
<1>6. ASSUME NEW i \in 1 .. Len(list), i - 1 \in G PROVE i \in G
  <2>1. /\ i \in 0 .. Len(list) /\ i # 0 /\ f[i - 1] \in Seq(MarkRecords) /\ Marked(f[i - 1]) = LeftOf(i - 1)
        /\ (Distinct(list) => Distinct(f[i - 1])) /\ list[i] \in MarkRecords
    BY <1>6
  <2>2. \A j \in 1 .. i : j \in 1 .. i - 1 \/ j = i
    BY <1>6
  <2>3. 1 .. i - 1 \subseteq 1 .. i /\ i \in 1 .. i
    BY <1>6
  <2>4. CASE list[i].id = id
    <3>1. f[i] = f[i - 1]
      BY <1>4, <2>1, <2>4 DEF LeftTurn
    <3>2. LeftOf(i) = LeftOf(i - 1)
      BY <2>2, <2>3, <2>4
    <3> QED BY <2>1, <3>1, <3>2
  <2>5. CASE list[i].id # id
    <3>1. f[i] = Append(f[i - 1], list[i])
      BY <1>4, <2>1, <2>5 DEF LeftTurn
    <3>2. LeftOf(i) = LeftOf(i - 1) \cup {list[i]}
      BY <2>2, <2>3, <2>5
    <3>3. f[i] \in Seq(MarkRecords) /\ Marked(f[i]) = LeftOf(i)
      BY <2>1, <3>1, <3>2, AppendMark
    <3>4. Distinct(list) => \A x \in LeftOf(i - 1) : x.id # list[i].id
      <4>1. SUFFICES ASSUME Distinct(list), NEW j \in 1 .. i - 1 PROVE list[j].id # list[i].id
        OBVIOUS
      <4>2. j \in DOMAIN list /\ i \in DOMAIN list /\ j # i
        BY <1>6
      <4> QED BY <4>1, <4>2 DEF Distinct
    <3>5. Distinct(list) => Distinct(f[i])
      BY <2>1, <3>1, <3>4, AppendMark
    <3> QED BY <2>1, <3>3, <3>5
  <2> QED BY <2>4, <2>5
<1>7. G \in SUBSET Nat /\ Len(list) \in Nat
  OBVIOUS
<1>8. \A i \in 1 .. Len(list) : i - 1 \in G => i \in G
  BY <1>6
<1> HIDE DEF G
<1>9. Len(list) \in G
  BY <1>5, <1>7, <1>8, UpTo
<1> USE DEF G
<1>10. LeftOf(Len(list)) = {x \in Marked(list) : x.id # id}
  BY DEF Marked
<1> QED BY <1>2, <1>9, <1>10

(* Two lists of the same bookmarks, each once, are equally long. *)
LEMMA SameLength ==
  ASSUME NEW a \in Seq(MarkRecords), NEW b \in Seq(MarkRecords), Distinct(a), Distinct(b), Marked(a) = Marked(b)
  PROVE  Len(a) = Len(b)
<1>1. DOMAIN a = 1 .. Len(a) /\ DOMAIN b = 1 .. Len(b) /\ Len(a) \in Nat /\ Len(b) \in Nat
  OBVIOUS
<1>2. PICK f : f = [k \in 1 .. Len(a) |-> CHOOSE j \in 1 .. Len(b) : b[j] = a[k]]
  OBVIOUS
<1>3. \A k \in 1 .. Len(a) : f[k] \in 1 .. Len(b) /\ b[f[k]] = a[k]
  <2>1. ASSUME NEW k \in 1 .. Len(a) PROVE \E j \in 1 .. Len(b) : b[j] = a[k]
    BY <1>1 DEF Marked
  <2> QED BY <1>2, <2>1
<1>4. f \in [1 .. Len(a) -> 1 .. Len(b)]
  BY <1>2, <1>3
<1>5. \A j, k \in 1 .. Len(a) : f[j] = f[k] => j = k
  BY <1>1, <1>3 DEF Distinct
<1>6. \A j \in 1 .. Len(b) : \E k \in 1 .. Len(a) : f[k] = j
  <2>1. SUFFICES ASSUME NEW j \in 1 .. Len(b) PROVE \E k \in 1 .. Len(a) : f[k] = j
    OBVIOUS
  <2>2. PICK k \in 1 .. Len(a) : a[k] = b[j]
    BY <1>1 DEF Marked
  <2>3. b[f[k]].id = b[j].id /\ f[k] \in 1 .. Len(b)
    BY <1>3, <2>2
  <2> QED BY <1>1, <2>3 DEF Distinct
<1>7. f \in Bijection(1 .. Len(a), 1 .. Len(b))
  BY <1>4, <1>5, <1>6 DEF Bijection, Injection, Surjection, IsInjective
<1>8. ExistsBijection(1 .. Len(a), 1 .. Len(b))
  BY <1>7 DEF ExistsBijection
<1>9. /\ IsFiniteSet(1 .. Len(a)) /\ Cardinality(1 .. Len(a)) = Len(a)
      /\ IsFiniteSet(1 .. Len(b)) /\ Cardinality(1 .. Len(b)) = Len(b)
  <2>1. ASSUME NEW n \in Nat PROVE IsFiniteSet(1 .. n) /\ Cardinality(1 .. n) = n
    <3>1. 1 \in Int /\ n \in Int /\ (IF 1 > n THEN 0 ELSE n - 1 + 1) = n
      OBVIOUS
    <3> QED BY <3>1, FS_Interval
  <2> QED BY <1>1, <2>1
<1> QED BY <1>8, <1>9, FS_Bijection

(* A call whose mark is with one side only: created and not yet shown, or not shown any more and not yet deleted. *)
Pending(W) == {c \in W : (c.kind = "create" /\ c.at = "answer") \/ (c.kind = "delete" /\ c.at = "request")}
Creates(c) == c.kind = "create" /\ c.at = "request"
Deletes(c) == c.kind = "delete" /\ c.at = "request"

(* While nothing has overlapped or been lost: a list is read alone, and the server's bookmarks *)
(* are the page's and those that are pending.                                                  *)
Clean(l, W, K) ==
    /\ Distinct(l) /\ Distinct(K.list)
    /\ \A x \in Marked(K.list) : x.id < K.next
    /\ \A c \in W : c.kind = "list" => W = {c} /\ (c.at = "answer" => c.answer = K.list)
    /\ \A c \in W : Creates(c) => c.mark.id < K.next /\ \A x \in Marked(K.list) : x.id # c.mark.id
    /\ (\A c \in W : c.kind # "list") =>
         /\ Marked(K.list) = Marked(l) \cup {c.mark : c \in Pending(W)}
         /\ \A c \in Pending(W) : \A x \in Marked(l) : x.id # c.mark.id
         /\ \A c, d \in Pending(W) : c.mark.id = d.mark.id => c = d

(* The bookmarks there will be once every call has reached the server. *)
Standing(W, K) ==
    {x \in Marked(K.list) : \A c \in W : Deletes(c) => c.mark.id # x.id} \cup {c.mark : c \in {d \in W : Creates(d)}}
Apart(W, K) == \A x, y \in Standing(W, K) : x.place = y.place => x = y

(* At most one bookmark is being saved, and the page knows. *)
OneCreate(W, saving) ==
    /\ \A c \in W : c.kind = "create" => saving
    /\ \A c, d \in W : c.kind = "create" /\ d.kind = "create" => c = d

MarkCalls == [kind : {"list", "create", "delete"}, mark : MarkRecords, at : {"request", "answer"},
              answer : Seq(MarkRecords)]
MarkPages == [list : Seq(MarkRecords), saving : BOOLEAN, place : Places \cup {"none"}]
KeptRecords == [list : Seq(MarkRecords), next : Nat, overlapped : BOOLEAN, lost : BOOLEAN, undeleted : BOOLEAN]

MarksOK(P, W, K) ==
    /\ P \in MarkPages /\ W \in SUBSET MarkCalls /\ K \in KeptRecords
    /\ OneCreate(W, P.saving)
    /\ ~K.overlapped /\ ~K.lost => Clean(P.list, W, K) /\ (~K.undeleted => Apart(W, K))

MarksInv == MarksOK(marks, wire, kept)

(* A list is read alone. *)
LEMMA ListAlone ==
  ASSUME NEW l, NEW W, NEW K, Clean(l, W, K), NEW c \in W
  PROVE  /\ c.kind = "list" => W = {c} /\ (c.at = "answer" => c.answer = K.list)
         /\ c.kind # "list" => \A d \in W : d.kind # "list"
BY DEF Clean

(* A list that is read alone: what is left of the invariant. *)
LEMMA CleanAlone ==
  ASSUME NEW l, NEW W, NEW K, Distinct(l), Distinct(K.list), \A x \in Marked(K.list) : x.id < K.next,
         NEW c, c.kind = "list", W = {c}, c.at = "answer" => c.answer = K.list
  PROVE  Clean(l, W, K)
<1>1. ~ Creates(c)
  BY DEF Creates
<1> QED BY <1>1 DEF Clean

(* Turning pages leaves the bookmarks alone. *)
LEMMA TurnKeeps ==
  ASSUME NEW P, NEW W, NEW K, NEW P2, MarksOK(P, W, K), P2 \in MarkPages, P2.list = P.list, P2.saving = P.saving
  PROVE  MarksOK(P2, W, K)
BY DEF MarksOK

(* The server reads its list for a call that runs alone. *)
LEMMA ListServedKeeps ==
  ASSUME NEW P, NEW W, NEW K, NEW W2, NEW c \in W, NEW c2 \in MarkCalls, MarksOK(P, W, K),
         c.kind = "list", c2.kind = "list", c2.answer = K.list, W2 = (W \ {c}) \cup {c2}
  PROVE  MarksOK(P, W2, K)
<1>1. W2 \in SUBSET MarkCalls /\ OneCreate(W2, P.saving)
  BY DEF MarksOK, OneCreate
<1>2. ASSUME ~K.overlapped, ~K.lost PROVE Clean(P.list, W2, K)
  <2>1. Clean(P.list, W, K)
    BY <1>2 DEF MarksOK
  <2>2. W2 = {c2}
    BY <2>1, ListAlone
  <2>3. Distinct(P.list) /\ Distinct(K.list) /\ \A x \in Marked(K.list) : x.id < K.next
    BY <2>1 DEF Clean
  <2> QED BY <2>2, <2>3, CleanAlone
<1>3. ASSUME ~K.overlapped, ~K.lost, ~K.undeleted PROVE Apart(W2, K)
  <2>1. Apart(W, K)
    BY <1>3 DEF MarksOK
  <2>2. ~Creates(c) /\ ~Creates(c2) /\ ~Deletes(c) /\ ~Deletes(c2)
    BY DEF Creates, Deletes
  <2>3. Standing(W2, K) \subseteq Standing(W, K)
    BY <2>2 DEF Standing
  <2> QED BY <2>1, <2>3 DEF Apart
<1> QED BY <1>1, <1>2, <1>3 DEF MarksOK

(* A bookmark that the server has and the page does not: pending now. *)
LEMMA CreateServedKeeps ==
  ASSUME NEW P, NEW W, NEW K, NEW W2, NEW K2, NEW c \in W, NEW c2 \in MarkCalls, MarksOK(P, W, K),
         c.kind = "create", c.at = "request", c2.kind = "create", c2.at = "answer", c2.mark = c.mark,
         W2 = (W \ {c}) \cup {c2}, K2 \in KeptRecords, K2.list = Append(K.list, c.mark), K2.next = K.next,
         K2.overlapped = K.overlapped, K2.lost = K.lost, K2.undeleted = K.undeleted
  PROVE  MarksOK(P, W2, K2)
<1>1. /\ W2 \in SUBSET MarkCalls /\ OneCreate(W2, P.saving) /\ \A d \in W : d.kind = "create" => d = c
      /\ c.mark \in MarkRecords /\ K.list \in Seq(MarkRecords)
  BY DEF MarksOK, OneCreate, MarkCalls, KeptRecords
<1>2. Marked(K2.list) = Marked(K.list) \cup {c.mark}
  BY <1>1, AppendMark
<1>3. Creates(c) /\ ~Creates(c2) /\ ~Deletes(c) /\ ~Deletes(c2) /\ \A d \in W2 : ~Creates(d)
  BY <1>1 DEF Creates, Deletes
<1>4. ASSUME ~K.overlapped, ~K.lost PROVE Clean(P.list, W2, K2)
  <2>1. Clean(P.list, W, K)
    BY <1>4 DEF MarksOK
  <2>2. (\A d \in W : d.kind # "list") /\ \A d \in W2 : d.kind # "list"
    BY <2>1, ListAlone
  <2>3. /\ Distinct(P.list) /\ Distinct(K.list) /\ \A x \in Marked(K.list) : x.id < K.next
        /\ c.mark.id < K.next /\ \A x \in Marked(K.list) : x.id # c.mark.id
        /\ Marked(K.list) = Marked(P.list) \cup {d.mark : d \in Pending(W)}
        /\ \A d \in Pending(W) : \A x \in Marked(P.list) : x.id # d.mark.id
        /\ \A d, e \in Pending(W) : d.mark.id = e.mark.id => d = e
    BY <2>1, <2>2, <1>3 DEF Clean
  <2>4. Distinct(K2.list)
    BY <1>1, <2>3, AppendMark
  <2>5. Pending(W2) = Pending(W) \cup {c2}
    BY <1>1 DEF Pending
  <2>6. Marked(K2.list) = Marked(P.list) \cup {d.mark : d \in Pending(W2)}
    <3>1. {d.mark : d \in Pending(W2)} = {d.mark : d \in Pending(W)} \cup {c.mark}
      BY <2>5
    <3> QED BY <1>2, <2>3, <3>1
  <2>7. \A d \in Pending(W2) : \A x \in Marked(P.list) : x.id # d.mark.id
    BY <2>3, <2>5
  <2>8. \A d, e \in Pending(W2) : d.mark.id = e.mark.id => d = e
    BY <2>3, <2>5
  <2>9. \A x \in Marked(K2.list) : x.id < K2.next
    BY <1>2, <2>3
  <2> QED BY <1>3, <2>2, <2>3, <2>4, <2>6, <2>7, <2>8, <2>9 DEF Clean
<1>5. ASSUME ~K.overlapped, ~K.lost, ~K.undeleted PROVE Apart(W2, K2)
  <2>1. Apart(W, K)
    BY <1>5 DEF MarksOK
  <2>2. Standing(W2, K2) \subseteq Standing(W, K)
    BY <1>2, <1>3 DEF Standing
  <2> QED BY <2>1, <2>2 DEF Apart
<1> QED BY <1>1, <1>4, <1>5 DEF MarksOK

(* A bookmark that neither side has any more: no longer pending. *)
LEMMA DeleteServedKeeps ==
  ASSUME NEW P, NEW W, NEW K, NEW W2, NEW K2, NEW c \in W, NEW c2 \in MarkCalls, MarksOK(P, W, K),
         c.kind = "delete", c.at = "request", c2.kind = "delete", c2.at = "answer",
         W2 = (W \ {c}) \cup {c2}, K2 \in KeptRecords, K2.list = WithoutId(K.list, c.mark.id), K2.next = K.next,
         K2.overlapped = K.overlapped, K2.lost = K.lost, K2.undeleted = K.undeleted
  PROVE  MarksOK(P, W2, K2)
<1>1. W2 \in SUBSET MarkCalls /\ OneCreate(W2, P.saving) /\ c.mark \in MarkRecords /\ K.list \in Seq(MarkRecords)
  BY DEF MarksOK, OneCreate, MarkCalls, KeptRecords
<1>2. Marked(K2.list) = {x \in Marked(K.list) : x.id # c.mark.id} /\ (Distinct(K.list) => Distinct(K2.list))
  BY <1>1, WithoutIdFacts
<1>3. ~Creates(c) /\ ~Creates(c2) /\ Deletes(c) /\ ~Deletes(c2)
  BY DEF Creates, Deletes
<1>4. ASSUME ~K.overlapped, ~K.lost PROVE Clean(P.list, W2, K2)
  <2>1. Clean(P.list, W, K)
    BY <1>4 DEF MarksOK
  <2>2. (\A d \in W : d.kind # "list") /\ \A d \in W2 : d.kind # "list"
    BY <2>1, ListAlone
  <2>3. /\ Distinct(P.list) /\ Distinct(K.list) /\ \A x \in Marked(K.list) : x.id < K.next
        /\ \A d \in W : Creates(d) => d.mark.id < K.next /\ \A x \in Marked(K.list) : x.id # d.mark.id
        /\ Marked(K.list) = Marked(P.list) \cup {d.mark : d \in Pending(W)}
        /\ \A d \in Pending(W) : \A x \in Marked(P.list) : x.id # d.mark.id
        /\ \A d, e \in Pending(W) : d.mark.id = e.mark.id => d = e
    BY <2>1, <2>2 DEF Clean
  <2>4. Pending(W2) = Pending(W) \ {c} /\ c \in Pending(W)
    BY DEF Pending
  <2>5. Marked(K2.list) = Marked(P.list) \cup {d.mark : d \in Pending(W2)}
    BY <1>2, <2>3, <2>4
  <2>6. \A d \in Pending(W2) : \A x \in Marked(P.list) : x.id # d.mark.id
    BY <2>3, <2>4
  <2>7. \A d, e \in Pending(W2) : d.mark.id = e.mark.id => d = e
    BY <2>3, <2>4
  <2>8. \A d \in W2 : Creates(d) => d.mark.id < K2.next /\ \A x \in Marked(K2.list) : x.id # d.mark.id
    BY <1>2, <1>3, <2>3
  <2>9. \A x \in Marked(K2.list) : x.id < K2.next
    BY <1>2, <2>3
  <2> QED BY <1>2, <2>2, <2>3, <2>5, <2>6, <2>7, <2>8, <2>9 DEF Clean
<1>5. ASSUME ~K.overlapped, ~K.lost, ~K.undeleted PROVE Apart(W2, K2)
  <2>1. Apart(W, K)
    BY <1>5 DEF MarksOK
  <2>2. Standing(W2, K2) \subseteq Standing(W, K)
    BY <1>2, <1>3 DEF Standing
  <2> QED BY <2>1, <2>2 DEF Apart
<1> QED BY <1>1, <1>4, <1>5 DEF MarksOK

(* A list that was read alone is still the server's when it comes. *)
LEMMA ListAnswersKeeps ==
  ASSUME NEW P, NEW W, NEW K, NEW P2, NEW W2, NEW c \in W, MarksOK(P, W, K), c.kind = "list", c.at = "answer",
         P2 \in MarkPages, P2.list = c.answer, P2.saving = P.saving, W2 = W \ {c}
  PROVE  MarksOK(P2, W2, K)
<1>1. W2 \in SUBSET MarkCalls /\ OneCreate(W2, P.saving)
  BY DEF MarksOK, OneCreate
<1>2. ASSUME ~K.overlapped, ~K.lost PROVE Clean(P2.list, W2, K)
  <2>1. Clean(P.list, W, K)
    BY <1>2 DEF MarksOK
  <2>2. W2 = {} /\ P2.list = K.list
    BY <2>1, ListAlone
  <2>3. Pending(W2) = {}
    BY <2>2 DEF Pending
  <2> QED BY <2>1, <2>2, <2>3 DEF Clean
<1>3. ASSUME ~K.overlapped, ~K.lost, ~K.undeleted PROVE Apart(W2, K)
  <2>1. Apart(W, K)
    BY <1>3 DEF MarksOK
  <2>2. ~Deletes(c)
    BY DEF Deletes
  <2>3. Standing(W2, K) \subseteq Standing(W, K)
    BY <2>2 DEF Standing
  <2> QED BY <2>1, <2>3 DEF Apart
<1> QED BY <1>1, <1>2, <1>3 DEF MarksOK

(* The page shows what was created: both sides have it. *)
LEMMA CreateAnswersKeeps ==
  ASSUME NEW P, NEW W, NEW K, NEW P2, NEW W2, NEW c \in W, MarksOK(P, W, K), c.kind = "create", c.at = "answer",
         P2 \in MarkPages, P2.list = Append(P.list, c.mark), P2.saving = FALSE, W2 = W \ {c}
  PROVE  MarksOK(P2, W2, K)
<1>1. /\ W2 \in SUBSET MarkCalls /\ \A d \in W2 : d.kind # "create"
      /\ c.mark \in MarkRecords /\ P.list \in Seq(MarkRecords)
  BY DEF MarksOK, OneCreate, MarkCalls, MarkPages
<1>2. OneCreate(W2, P2.saving)
  BY <1>1 DEF OneCreate
<1>3. ASSUME ~K.overlapped, ~K.lost PROVE Clean(P2.list, W2, K)
  <2>1. Clean(P.list, W, K)
    BY <1>3 DEF MarksOK
  <2>2. (\A d \in W : d.kind # "list") /\ \A d \in W2 : d.kind # "list"
    BY <2>1, ListAlone
  <2>3. /\ Distinct(P.list) /\ Distinct(K.list) /\ \A x \in Marked(K.list) : x.id < K.next
        /\ Marked(K.list) = Marked(P.list) \cup {d.mark : d \in Pending(W)}
        /\ \A d \in Pending(W) : \A x \in Marked(P.list) : x.id # d.mark.id
        /\ \A d, e \in Pending(W) : d.mark.id = e.mark.id => d = e
    BY <2>1, <2>2 DEF Clean
  <2>4. Pending(W2) = Pending(W) \ {c} /\ c \in Pending(W)
    BY DEF Pending
  <2>5. Marked(P2.list) = Marked(P.list) \cup {c.mark} /\ Distinct(P2.list)
    BY <1>1, <2>3, <2>4, AppendMark
  <2>6. Marked(K.list) = Marked(P2.list) \cup {d.mark : d \in Pending(W2)}
    BY <2>3, <2>4, <2>5
  <2>7. \A d \in Pending(W2) : \A x \in Marked(P2.list) : x.id # d.mark.id
    BY <2>3, <2>4, <2>5
  <2>8. \A d, e \in Pending(W2) : d.mark.id = e.mark.id => d = e
    BY <2>3, <2>4
  <2>9. \A d \in W2 : ~Creates(d)
    BY <1>1 DEF Creates
  <2> QED BY <2>2, <2>3, <2>5, <2>6, <2>7, <2>8, <2>9 DEF Clean
<1>4. ASSUME ~K.overlapped, ~K.lost, ~K.undeleted PROVE Apart(W2, K)
  <2>1. Apart(W, K)
    BY <1>4 DEF MarksOK
  <2>2. ~Deletes(c)
    BY DEF Deletes
  <2>3. Standing(W2, K) \subseteq Standing(W, K)
    BY <2>2 DEF Standing
  <2> QED BY <2>1, <2>3 DEF Apart
<1> QED BY <1>1, <1>2, <1>3, <1>4 DEF MarksOK

(* A call that is over leaves nothing behind: an answered deletion, a creation that never got there. *)
LEMMA CallOverKeeps ==
  ASSUME NEW P, NEW W, NEW K, NEW P2, NEW W2, NEW c \in W, MarksOK(P, W, K), P2 \in MarkPages, P2.list = P.list,
         \/ c.kind = "delete" /\ c.at = "answer" /\ P2.saving = P.saving
         \/ c.kind = "create" /\ c.at = "request",
         W2 = W \ {c}
  PROVE  MarksOK(P2, W2, K)
<1>1. W2 \in SUBSET MarkCalls
  BY DEF MarksOK
<1>2. OneCreate(W2, P2.saving)
  BY DEF MarksOK, OneCreate
<1>3. ASSUME ~K.overlapped, ~K.lost PROVE Clean(P.list, W2, K)
  <2>1. Clean(P.list, W, K)
    BY <1>3 DEF MarksOK
  <2>2. (\A d \in W : d.kind # "list") /\ \A d \in W2 : d.kind # "list"
    BY <2>1, ListAlone
  <2>3. Pending(W2) = Pending(W)
    BY DEF Pending
  <2>4. \A d \in W2 : d \in W
    OBVIOUS
  <2> QED BY <2>1, <2>2, <2>3, <2>4 DEF Clean
<1>4. ASSUME ~K.overlapped, ~K.lost, ~K.undeleted PROVE Apart(W2, K)
  <2>1. Apart(W, K)
    BY <1>4 DEF MarksOK
  <2>2. ~Deletes(c)
    BY DEF Deletes
  <2>3. Standing(W2, K) \subseteq Standing(W, K)
    BY <2>2 DEF Standing
  <2> QED BY <2>1, <2>3 DEF Apart
<1> QED BY <1>1, <1>2, <1>3, <1>4 DEF MarksOK

(* Once a list or an answer is lost nothing more is claimed. *)
LEMMA LostKeeps ==
  ASSUME NEW P, NEW W, NEW K, NEW P2, NEW W2, NEW K2, NEW c \in W, MarksOK(P, W, K), P2 \in MarkPages,
         c.kind = "create" \/ P2.saving = P.saving, K2 \in KeptRecords, K2.lost, W2 = W \ {c}
  PROVE  MarksOK(P2, W2, K2)
<1>1. OneCreate(W2, P2.saving)
  BY DEF MarksOK, OneCreate
<1> QED BY <1>1 DEF MarksOK

(* A deletion failed: the list is read again, alone or counted as overlapping. *)
LEMMA ReloadKeeps ==
  ASSUME NEW P, NEW W, NEW K, NEW W2, NEW K2, NEW c \in W, NEW c2 \in MarkCalls, MarksOK(P, W, K),
         c2.kind = "list", c2.at = "request", W2 = (W \ {c}) \cup {c2},
         K2 \in KeptRecords, K2.list = K.list, K2.next = K.next, K2.undeleted, K2.lost = K.lost,
         K2.overlapped = (K.overlapped \/ W \ {c} # {})
  PROVE  MarksOK(P, W2, K2)
<1>1. W2 \in SUBSET MarkCalls /\ OneCreate(W2, P.saving)
  BY DEF MarksOK, OneCreate
<1>2. ASSUME ~K2.overlapped, ~K2.lost PROVE Clean(P.list, W2, K2)
  <2>1. Clean(P.list, W, K) /\ W2 = {c2}
    BY <1>2 DEF MarksOK
  <2>2. Distinct(P.list) /\ Distinct(K2.list) /\ \A x \in Marked(K2.list) : x.id < K2.next
    BY <2>1 DEF Clean
  <2> QED BY <2>1, <2>2, CleanAlone
<1> QED BY <1>1, <1>2 DEF MarksOK

(* With no bookmark being saved, what will stand is what the page shows, so the place is free. *)
LEMMA CreateKeeps ==
  ASSUME NEW P, NEW W, NEW K, NEW P2, NEW W2, NEW K2, NEW c2 \in MarkCalls, MarksOK(P, W, K), ~P.saving,
         \A x \in Marked(P.list) : x.place # P.place, P2 \in MarkPages, P2.list = P.list, P2.saving,
         c2.kind = "create", c2.at = "request", c2.mark.id = K.next, c2.mark.place = P.place, W2 = W \cup {c2},
         K2 \in KeptRecords, K2.list = K.list, K2.next = K.next + 1, K2.undeleted = K.undeleted, K2.lost = K.lost,
         K2.overlapped = (K.overlapped \/ \E d \in W : d.kind = "list")
  PROVE  MarksOK(P2, W2, K2)
<1>1. W2 \in SUBSET MarkCalls /\ (\A d \in W : d.kind # "create") /\ K.list \in Seq(MarkRecords) /\ K.next \in Nat
  BY DEF MarksOK, OneCreate, KeptRecords
<1>2. OneCreate(W2, P2.saving)
  BY <1>1 DEF OneCreate
<1>3. Creates(c2) /\ ~Deletes(c2) /\ \A d \in W : ~Creates(d)
  BY <1>1 DEF Creates, Deletes
<1>4. ASSUME ~K2.overlapped, ~K2.lost
      PROVE  /\ Clean(P.list, W, K) /\ (~K2.undeleted => Apart(W, K)) /\ (\A d \in W : d.kind # "list")
             /\ Marked(K.list) = Marked(P.list) \cup {d.mark : d \in Pending(W)}
             /\ \A x \in Marked(K.list) : x.id < K.next /\ x.id \in Nat
  <2>1. Clean(P.list, W, K) /\ (~K2.undeleted => Apart(W, K)) /\ (\A d \in W : d.kind # "list")
    BY <1>4 DEF MarksOK
  <2>2. \A x \in Marked(K.list) : x.id \in Nat
    <3>1. \A k \in DOMAIN K.list : K.list[k] \in MarkRecords
      BY <1>1
    <3> QED BY <3>1 DEF Marked, MarkRecords
  <2> QED BY <2>1, <2>2 DEF Clean
<1>5. ASSUME ~K2.overlapped, ~K2.lost PROVE Clean(P.list, W2, K2)
  <2>1. Pending(W2) = Pending(W)
    BY DEF Pending
  <2>2. \A d \in W2 : d.kind # "list"
    BY <1>4, <1>5
  <2>3. \A x \in Marked(K2.list) : x.id < K2.next
    BY <1>1, <1>4, <1>5
  <2>4. c2.mark.id < K2.next /\ \A x \in Marked(K2.list) : x.id # c2.mark.id
    BY <1>1, <1>4, <1>5
  <2>5. \A d \in W2 : Creates(d) => d = c2
    BY <1>3
  <2>6. Distinct(P.list) /\ Distinct(K2.list)
    BY <1>4, <1>5 DEF Clean
  <2>7. /\ Marked(K2.list) = Marked(P.list) \cup {d.mark : d \in Pending(W2)}
        /\ \A d \in Pending(W2) : \A x \in Marked(P.list) : x.id # d.mark.id
        /\ \A d, e \in Pending(W2) : d.mark.id = e.mark.id => d = e
    BY <1>4, <1>5, <2>1 DEF Clean
  <2> QED BY <2>2, <2>3, <2>4, <2>5, <2>6, <2>7 DEF Clean
<1>6. ASSUME ~K2.overlapped, ~K2.lost, ~K2.undeleted PROVE Apart(W2, K2)
  <2>1. \A d \in Pending(W) : Deletes(d)
    BY <1>1 DEF Pending, Deletes
  <2>2. Pending(W) \subseteq W
    BY DEF Pending
  <2>3. \A x \in Marked(K.list) : (\A d \in W : Deletes(d) => d.mark.id # x.id) => x \in Marked(P.list) /\ x \in Standing(W, K)
    BY <1>4, <1>6, <2>1, <2>2 DEF Standing
  <2>4. \A x \in Standing(W2, K2) : x = c2.mark \/ (x \in Standing(W, K) /\ x.place # c2.mark.place)
    BY <1>3, <2>3 DEF Standing
  <2>5. Apart(W, K)
    BY <1>4, <1>6
  <2> QED BY <2>4, <2>5 DEF Apart
<1> QED BY <1>1, <1>2, <1>5, <1>6 DEF MarksOK

(* A bookmark that only the server has: pending until it is deleted there. *)
LEMMA DeleteKeeps ==
  ASSUME NEW P, NEW W, NEW K, NEW P2, NEW W2, NEW K2, NEW c2 \in MarkCalls, MarksOK(P, W, K), NEW m \in Marked(P.list),
         P2 \in MarkPages, P2.list = WithoutId(P.list, m.id), P2.saving = P.saving,
         c2.kind = "delete", c2.at = "request", c2.mark = m, W2 = W \cup {c2},
         K2 \in KeptRecords, K2.list = K.list, K2.next = K.next, K2.undeleted = K.undeleted, K2.lost = K.lost,
         K2.overlapped = (K.overlapped \/ \E d \in W : d.kind = "list")
  PROVE  MarksOK(P2, W2, K2)
<1>1. W2 \in SUBSET MarkCalls /\ OneCreate(W2, P2.saving) /\ P.list \in Seq(MarkRecords)
  BY DEF MarksOK, OneCreate, MarkPages
<1>2. Marked(P2.list) = {x \in Marked(P.list) : x.id # m.id} /\ (Distinct(P.list) => Distinct(P2.list))
  BY <1>1, WithoutIdFacts
<1>3. ~Creates(c2) /\ Deletes(c2)
  BY DEF Creates, Deletes
<1>4. ASSUME ~K2.overlapped, ~K2.lost PROVE Clean(P2.list, W2, K2)
  <2>1. Clean(P.list, W, K) /\ (\A d \in W : d.kind # "list") /\ (\A d \in W2 : d.kind # "list")
    BY <1>4 DEF MarksOK
  <2>2. /\ Distinct(P.list) /\ Distinct(K.list) /\ \A x \in Marked(K.list) : x.id < K.next
        /\ \A d \in W : Creates(d) => d.mark.id < K.next /\ \A x \in Marked(K.list) : x.id # d.mark.id
        /\ Marked(K.list) = Marked(P.list) \cup {d.mark : d \in Pending(W)}
        /\ \A d \in Pending(W) : \A x \in Marked(P.list) : x.id # d.mark.id
        /\ \A d, e \in Pending(W) : d.mark.id = e.mark.id => d = e
    BY <2>1 DEF Clean
  <2>3. Pending(W2) = Pending(W) \cup {c2}
    BY DEF Pending
  <2>4. \A x \in Marked(P.list) : x.id = m.id => x = m
    BY <2>2 DEF Distinct, Marked
  <2>5. Marked(P.list) = Marked(P2.list) \cup {m}
    BY <1>2, <2>4
  <2>6. Marked(K2.list) = Marked(P2.list) \cup {d.mark : d \in Pending(W2)}
    <3>1. {d.mark : d \in Pending(W2)} = {d.mark : d \in Pending(W)} \cup {m}
      BY <2>3
    <3> QED BY <2>2, <2>5, <3>1
  <2>7. \A d \in Pending(W2) : \A x \in Marked(P2.list) : x.id # d.mark.id
    BY <1>2, <2>2, <2>3, <2>5
  <2>8. \A d, e \in Pending(W2) : d.mark.id = e.mark.id => d = e
    BY <2>2, <2>3
  <2>9. \A d \in W2 : Creates(d) => d.mark.id < K2.next /\ \A x \in Marked(K2.list) : x.id # d.mark.id
    BY <1>3, <2>2
  <2> QED BY <1>2, <2>1, <2>2, <2>6, <2>7, <2>8, <2>9 DEF Clean
<1>5. ASSUME ~K2.overlapped, ~K2.lost, ~K2.undeleted PROVE Apart(W2, K2)
  <2>1. Apart(W, K)
    BY <1>5 DEF MarksOK
  <2>2. Standing(W2, K2) \subseteq Standing(W, K)
    BY <1>3 DEF Standing
  <2> QED BY <2>1, <2>2 DEF Apart
<1> QED BY <1>1, <1>4, <1>5 DEF MarksOK

(* The records of the invariant. *)
LEMMA MarkTypes ==
  ASSUME MarksInv
  PROVE  /\ marks \in MarkPages /\ wire \in SUBSET MarkCalls /\ kept \in KeptRecords
         /\ \A x \in Marked(marks.list) : x \in MarkRecords
<1>1. marks \in MarkPages /\ wire \in SUBSET MarkCalls /\ kept \in KeptRecords
  BY DEF MarksInv, MarksOK
<1>2. marks.list \in Seq(MarkRecords)
  BY <1>1 DEF MarkPages
<1>3. \A k \in DOMAIN marks.list : marks.list[k] \in MarkRecords
  BY <1>2
<1> QED BY <1>1, <1>3 DEF Marked

(* Another page is turned to, or a bookmark's. *)
LEMMA TurnToStep ==
  ASSUME MarksInv, NEW p \in Places \cup {"none"}, marks' = [marks EXCEPT !.place = p], UNCHANGED <<wire, kept>>
  PROVE  MarksInv'
<1>1. marks' \in MarkPages /\ marks'.list = marks.list /\ marks'.saving = marks.saving
  BY MarkTypes DEF MarkPages
<1> QED BY <1>1, TurnKeeps DEF MarksInv

(* Served: what the server does for each kind of call. *)
LEMMA ServedStep ==
  ASSUME MarksInv, NEW c \in wire, Served(c)
  PROVE  MarksInv'
<1>1. PICK P, W, K : P = marks /\ W = wire /\ K = kept
  OBVIOUS
<1>2. PICK W2, K2, c2 : W2 = wire' /\ K2 = kept' /\ c2 = [c EXCEPT !.at = "answer", !.answer = kept.list]
  OBVIOUS
<1>3. /\ MarksOK(P, W, K) /\ P = marks' /\ c \in W /\ c \in MarkCalls /\ K \in KeptRecords /\ c.at = "request"
      /\ K.list \in Seq(MarkRecords) /\ c.mark \in MarkRecords
  BY <1>1, MarkTypes DEF MarksInv, Served, MarkCalls, KeptRecords
<1>4. W2 = (W \ {c}) \cup {c2}
  BY <1>1, <1>2 DEF Served
<1>5. c2 \in MarkCalls /\ c2.kind = c.kind /\ c2.mark = c.mark /\ c2.at = "answer" /\ c2.answer = K.list
  BY <1>1, <1>2, <1>3 DEF MarkCalls
<1>6. \E l : /\ K2 = [K EXCEPT !.list = l]
             /\ l = CASE c.kind = "create" -> Append(K.list, c.mark)
                      [] c.kind = "delete" -> WithoutId(K.list, c.mark.id)
                      [] OTHER -> K.list
  BY <1>1, <1>2 DEF Served
<1>7. PICK l : /\ K2 = [K EXCEPT !.list = l]
               /\ l = CASE c.kind = "create" -> Append(K.list, c.mark)
                        [] c.kind = "delete" -> WithoutId(K.list, c.mark.id)
                        [] OTHER -> K.list
  BY <1>6
<1>8. l \in Seq(MarkRecords) /\ c.kind \in {"list", "create", "delete"}
  BY <1>3, <1>7, AppendMark, WithoutIdFacts DEF MarkCalls
<1>9. /\ K2 \in KeptRecords /\ K2.list = l /\ K2.next = K.next
      /\ K2.overlapped = K.overlapped /\ K2.lost = K.lost /\ K2.undeleted = K.undeleted
  BY <1>3, <1>7, <1>8 DEF KeptRecords
<1>10. MarksOK(P, W2, K2)
  <2>1. CASE c.kind = "list"
    <3>1. K2 = K
      BY <1>3, <1>7, <2>1 DEF KeptRecords
    <3> QED BY <1>3, <1>4, <1>5, <2>1, <3>1, ListServedKeeps
  <2>2. CASE c.kind = "create"
    <3>1. K2.list = Append(K.list, c.mark)
      BY <1>7, <1>9, <2>2
    <3> QED BY <1>3, <1>4, <1>5, <1>9, <2>2, <3>1, CreateServedKeeps
  <2>3. CASE c.kind = "delete"
    <3>1. K2.list = WithoutId(K.list, c.mark.id)
      BY <1>7, <1>9, <2>3
    <3> QED BY <1>3, <1>4, <1>5, <1>9, <2>3, <3>1, DeleteServedKeeps
  <2> QED BY <1>8, <2>1, <2>2, <2>3
<1> QED BY <1>2, <1>3, <1>10 DEF MarksInv

(* ListAnswers, CreateAnswers, DeleteAnswers. *)
LEMMA AnswersStep ==
  ASSUME MarksInv, NEW c \in wire, ListAnswers(c) \/ CreateAnswers(c) \/ DeleteAnswers(c)
  PROVE  MarksInv'
<1>1. PICK P, W, K : P = marks /\ W = wire /\ K = kept
  OBVIOUS
<1>2. PICK P2, W2 : P2 = marks' /\ W2 = wire'
  OBVIOUS
<1>3. /\ MarksOK(P, W, K) /\ K = kept' /\ c \in W /\ c \in MarkCalls /\ P \in MarkPages /\ W2 = W \ {c}
      /\ c.answer \in Seq(MarkRecords) /\ c.mark \in MarkRecords /\ P.list \in Seq(MarkRecords)
  BY <1>1, <1>2, MarkTypes DEF MarksInv, ListAnswers, CreateAnswers, DeleteAnswers, MarkCalls, MarkPages
<1>4. CASE ListAnswers(c)
  <2>1. P2 \in MarkPages /\ P2.list = c.answer /\ P2.saving = P.saving /\ c.kind = "list" /\ c.at = "answer"
    BY <1>1, <1>2, <1>3, <1>4 DEF ListAnswers, MarkPages
  <2>2. MarksOK(P2, W2, K)
    BY <1>3, <2>1, ListAnswersKeeps
  <2> QED BY <1>2, <1>3, <2>2 DEF MarksInv
<1>5. CASE CreateAnswers(c)
  <2>1. Append(P.list, c.mark) \in Seq(MarkRecords)
    BY <1>3
  <2>2. /\ P2 \in MarkPages /\ P2.list = Append(P.list, c.mark) /\ P2.saving = FALSE
        /\ c.kind = "create" /\ c.at = "answer"
    BY <1>1, <1>2, <1>3, <1>5, <2>1 DEF CreateAnswers, MarkPages
  <2>3. MarksOK(P2, W2, K)
    BY <1>3, <2>2, CreateAnswersKeeps
  <2> QED BY <1>2, <1>3, <2>3 DEF MarksInv
<1>6. CASE DeleteAnswers(c)
  <2>1. P2 = P /\ c.kind = "delete" /\ c.at = "answer"
    BY <1>1, <1>2, <1>6 DEF DeleteAnswers
  <2>2. MarksOK(P2, W2, K)
    BY <1>3, <2>1, CallOverKeeps
  <2> QED BY <1>2, <1>3, <2>2 DEF MarksInv
<1> QED BY <1>4, <1>5, <1>6

(* CallFails: a list or a creation that took effect is lost, a deletion loads the list again. *)
LEMMA CallFailsStep ==
  ASSUME MarksInv, NEW c \in wire, CallFails(c)
  PROVE  MarksInv'
<1>1. PICK P, W, K : P = marks /\ W = wire /\ K = kept
  OBVIOUS
<1>2. PICK P2, W2, K2 : P2 = marks' /\ W2 = wire' /\ K2 = kept'
  OBVIOUS
<1>3. /\ MarksOK(P, W, K) /\ c \in W /\ c \in MarkCalls /\ P \in MarkPages /\ K \in KeptRecords
      /\ c.kind \in {"list", "create", "delete"} /\ c.at \in {"request", "answer"}
      /\ P.saving \in BOOLEAN /\ K.overlapped \in BOOLEAN /\ K.lost \in BOOLEAN /\ K.undeleted \in BOOLEAN
  BY <1>1, MarkTypes DEF MarksInv, MarkCalls, MarkPages, KeptRecords
<1>4. PICK s, o, l, u :
        /\ P2 = [P EXCEPT !.saving = s] /\ s = (P.saving /\ c.kind # "create")
        /\ K2 = [K EXCEPT !.lost = l, !.undeleted = u, !.overlapped = o]
        /\ l = (K.lost \/ c.kind = "list" \/ (c.kind = "create" /\ c.at = "answer"))
        /\ u = (K.undeleted \/ c.kind = "delete")
        /\ o = (K.overlapped \/ (c.kind = "delete" /\ W \ {c} # {}))
  BY <1>1, <1>2, Zenon DEF CallFails
<1>5. s \in BOOLEAN /\ l \in BOOLEAN /\ u \in BOOLEAN /\ o \in BOOLEAN
  BY <1>4, Zenon
<1>6. P2 \in MarkPages /\ P2.list = P.list /\ P2.saving = s
  BY <1>3, <1>4, <1>5 DEF MarkPages
<1>7. /\ K2 \in KeptRecords /\ K2.list = K.list /\ K2.next = K.next
      /\ K2.lost = l /\ K2.undeleted = u /\ K2.overlapped = o
  BY <1>3, <1>4, <1>5 DEF KeptRecords
<1>8. W2 = IF c.kind = "delete" THEN (W \ {c}) \cup {Call("list", NoMark)} ELSE W \ {c}
  BY <1>1, <1>2 DEF CallFails
<1>9. MarksOK(P2, W2, K2)
  <2>1. CASE c.kind = "delete"
    <3>1. PICK c2 : c2 = Call("list", NoMark)
      OBVIOUS
    <3>2. c2 \in MarkCalls /\ c2.kind = "list" /\ c2.at = "request"
      BY <3>1 DEF Call, NoMark, MarkCalls, MarkRecords
    <3>3. s = P.saving /\ l = K.lost /\ u = TRUE /\ o = (K.overlapped \/ W \ {c} # {})
      BY <1>3, <1>4, <2>1
    <3>4. P2 = P
      BY <1>3, <1>4, <3>3 DEF MarkPages
    <3>5. W2 = (W \ {c}) \cup {c2}
      BY <1>8, <2>1, <3>1
    <3>6. K2.undeleted /\ K2.lost = K.lost /\ K2.overlapped = (K.overlapped \/ W \ {c} # {})
      BY <1>7, <3>3, Zenon
    <3>7. MarksOK(P, W2, K2)
      BY <1>3, <1>7, <3>2, <3>5, <3>6, ReloadKeeps
    <3> QED BY <3>4, <3>7
  <2>2. CASE c.kind = "list" \/ (c.kind = "create" /\ c.at = "answer")
    <3>1. l = TRUE /\ (c.kind = "create" \/ s = P.saving)
      BY <1>3, <1>4, <2>2
    <3>2. W2 = W \ {c}
      BY <1>8, <2>2
    <3>3. K2.lost /\ (c.kind = "create" \/ P2.saving = P.saving)
      BY <1>6, <1>7, <3>1, Zenon
    <3> QED BY <1>3, <1>6, <1>7, <3>2, <3>3, LostKeeps
  <2>3. CASE c.kind = "create" /\ c.at = "request"
    <3>1. l = K.lost /\ u = K.undeleted /\ o = K.overlapped
      BY <1>3, <1>4, <2>3
    <3>2. K2 = K
      BY <1>3, <1>4, <3>1 DEF KeptRecords
    <3>3. W2 = W \ {c}
      BY <1>8, <2>3
    <3> QED BY <1>3, <1>6, <2>3, <3>2, <3>3, CallOverKeeps
  <2> QED BY <1>3, <2>1, <2>2, <2>3
<1> QED BY <1>2, <1>9 DEF MarksInv

(* HandleCreateBookmark. *)
LEMMA HandleCreateStep ==
  ASSUME MarksInv, HandleCreateBookmark
  PROVE  MarksInv'
<1>1. PICK P, W, K : P = marks /\ W = wire /\ K = kept
  OBVIOUS
<1>2. PICK P2, W2, K2, c2 : P2 = marks' /\ W2 = wire' /\ K2 = kept' /\ c2 = Call("create", [id |-> K.next, place |-> P.place])
  OBVIOUS
<1>3. /\ MarksOK(P, W, K) /\ P \in MarkPages /\ K \in KeptRecords /\ ~P.saving
      /\ K.overlapped \in BOOLEAN /\ K.next \in Nat /\ P.place \in Places \cup {"none"}
      /\ \A x \in Marked(P.list) : x.place # P.place
  BY <1>1, MarkTypes DEF MarksInv, MarkPages, KeptRecords, HandleCreateBookmark, Marked
<1>4. P2 \in MarkPages /\ P2.list = P.list /\ P2.saving = TRUE
  BY <1>1, <1>2, <1>3 DEF HandleCreateBookmark, MarkPages
<1>5. PICK o, n : K2 = [K EXCEPT !.next = n, !.overlapped = o] /\ n = K.next + 1
                  /\ o = (K.overlapped \/ \E d \in W : d.kind = "list")
  <2>1. Overlaps("create") = \E d \in W : d.kind = "list"
    BY <1>1 DEF Overlaps, ListUnderWay
  <2>2. K2 = [K EXCEPT !.next = K.next + 1, !.overlapped = K.overlapped \/ Overlaps("create")]
    BY <1>1, <1>2, Zenon DEF HandleCreateBookmark
  <2> QED BY <2>1, <2>2, Zenon
<1>6. o \in BOOLEAN /\ n \in Nat
  <2>1. o \in BOOLEAN
    BY <1>5, Zenon
  <2> QED BY <1>3, <1>5, <2>1
<1>7. /\ K2 \in KeptRecords /\ K2.list = K.list /\ K2.next = K.next + 1
      /\ K2.lost = K.lost /\ K2.undeleted = K.undeleted /\ K2.overlapped = o
  BY <1>3, <1>5, <1>6 DEF KeptRecords
<1>8. /\ c2 \in MarkCalls /\ c2.kind = "create" /\ c2.at = "request"
      /\ c2.mark.id = K.next /\ c2.mark.place = P.place
  BY <1>2, <1>3 DEF Call, MarkCalls, MarkRecords
<1>9. W2 = W \cup {c2}
  BY <1>1, <1>2 DEF HandleCreateBookmark
<1>10. MarksOK(P2, W2, K2)
  <2>1. P2.saving /\ K2.overlapped = (K.overlapped \/ \E d \in W : d.kind = "list")
    BY <1>4, <1>5, <1>7, Zenon
  <2> QED BY <1>3, <1>4, <1>7, <1>8, <1>9, <2>1, CreateKeeps
<1> QED BY <1>2, <1>10 DEF MarksInv

(* HandleDeleteBookmark. *)
LEMMA HandleDeleteStep ==
  ASSUME MarksInv, NEW m \in Marked(marks.list), HandleDeleteBookmark(m)
  PROVE  MarksInv'
<1>1. PICK P, W, K : P = marks /\ W = wire /\ K = kept
  OBVIOUS
<1>2. PICK P2, W2, K2, c2 : P2 = marks' /\ W2 = wire' /\ K2 = kept' /\ c2 = Call("delete", m)
  OBVIOUS
<1>3. /\ MarksOK(P, W, K) /\ P \in MarkPages /\ K \in KeptRecords /\ K.overlapped \in BOOLEAN
      /\ m \in MarkRecords /\ m \in Marked(P.list) /\ P.list \in Seq(MarkRecords)
  BY <1>1, MarkTypes DEF MarksInv, MarkPages, KeptRecords
<1>4. PICK l : l = WithoutId(P.list, m.id)
  OBVIOUS
<1>5. l \in Seq(MarkRecords)
  BY <1>3, <1>4, WithoutIdFacts
<1>6. P2 = [P EXCEPT !.list = l]
  BY <1>1, <1>2, <1>4, Zenon DEF HandleDeleteBookmark
<1>7. P2 \in MarkPages /\ P2.list = WithoutId(P.list, m.id) /\ P2.saving = P.saving
  BY <1>3, <1>4, <1>5, <1>6 DEF MarkPages
<1>8. PICK o : K2 = [K EXCEPT !.overlapped = o] /\ o = (K.overlapped \/ \E d \in W : d.kind = "list")
  <2>1. Overlaps("delete") = \E d \in W : d.kind = "list"
    BY <1>1 DEF Overlaps, ListUnderWay
  <2>2. K2 = [K EXCEPT !.overlapped = K.overlapped \/ Overlaps("delete")]
    BY <1>1, <1>2, Zenon DEF HandleDeleteBookmark
  <2> QED BY <2>1, <2>2, Zenon
<1>9. o \in BOOLEAN
  BY <1>8, Zenon
<1>10. /\ K2 \in KeptRecords /\ K2.list = K.list /\ K2.next = K.next
       /\ K2.lost = K.lost /\ K2.undeleted = K.undeleted /\ K2.overlapped = o
  BY <1>3, <1>8, <1>9 DEF KeptRecords
<1>11. c2 \in MarkCalls /\ c2.kind = "delete" /\ c2.at = "request" /\ c2.mark = m
  BY <1>2, <1>3 DEF Call, MarkCalls
<1>12. W2 = W \cup {c2}
  BY <1>1, <1>2 DEF HandleDeleteBookmark
<1>13. MarksOK(P2, W2, K2)
  BY <1>3, <1>7, <1>8, <1>10, <1>11, <1>12, DeleteKeeps
<1> QED BY <1>2, <1>13 DEF MarksInv

(* The page opens with a list under way. *)
LEMMA MarksStarts ==
  ASSUME MarksInit
  PROVE  MarksInv
<1>1. PICK c : c = Call("list", NoMark)
  OBVIOUS
<1>2. c \in MarkCalls /\ c.kind = "list" /\ c.at = "request" /\ ~Creates(c) /\ ~Deletes(c) /\ wire = {c}
  BY <1>1 DEF MarksInit, Call, NoMark, MarkCalls, MarkRecords, Creates, Deletes
<1>3. (CHOOSE p \in Places : TRUE) \in Places
  BY MarksAssumption
<1>4. <<>> \in Seq(MarkRecords) /\ Marked(<<>>) = {} /\ Distinct(<<>>)
  BY DEF Marked, Distinct
<1>5. marks \in MarkPages /\ marks.list = <<>>
  BY <1>3, <1>4 DEF MarksInit, MarkPages
<1>6. PICK old \in {<<>>} \cup {<<[id |-> 1, place |-> p]>> : p \in Places} :
         kept = [list |-> old, next |-> 2, overlapped |-> FALSE, lost |-> FALSE, undeleted |-> FALSE]
  BY DEF MarksInit
<1>7. /\ old \in Seq(MarkRecords) /\ Distinct(old)
      /\ \A x, y \in Marked(old) : x.id < 2 /\ x = y
  <2>1. CASE old = <<>>
    BY <1>4, <2>1
  <2>2. ASSUME NEW p \in Places, old = <<[id |-> 1, place |-> p]>>
        PROVE  /\ old \in Seq(MarkRecords) /\ Distinct(old)
               /\ \A x, y \in Marked(old) : x.id < 2 /\ x = y
    <3>1. PICK m : m = [id |-> 1, place |-> p]
      OBVIOUS
    <3>2. m \in MarkRecords /\ m.id = 1 /\ old = <<m>>
      BY <2>2, <3>1 DEF MarkRecords
    <3>3. old \in Seq(MarkRecords) /\ DOMAIN old = {1} /\ old[1] = m
      BY <3>2
    <3>4. Marked(old) = {m}
      BY <3>3 DEF Marked
    <3> QED BY <3>2, <3>3, <3>4 DEF Distinct
  <2> QED BY <1>6, <2>1, <2>2
<1>8. kept \in KeptRecords /\ kept.list = old /\ kept.next = 2
  BY <1>6, <1>7 DEF KeptRecords
<1>9. Clean(marks.list, wire, kept)
  BY <1>2, <1>4, <1>5, <1>7, <1>8, CleanAlone
<1>10. Apart(wire, kept)
  <2>1. Standing(wire, kept) \subseteq Marked(old)
    BY <1>2, <1>8 DEF Standing
  <2> QED BY <1>7, <2>1 DEF Apart
<1>11. OneCreate(wire, marks.saving)
  BY <1>2 DEF OneCreate
<1> QED BY <1>2, <1>5, <1>8, <1>9, <1>10, <1>11 DEF MarksInv, MarksOK

(* With no calls both lists hold the same bookmarks; bookmarks that stand are at different places. *)
LEMMA MarksImplies ==
  ASSUME MarksInv
  PROVE  BookmarksSafe
<1>1. marks.list \in Seq(MarkRecords) /\ kept.list \in Seq(MarkRecords)
  BY MarkTypes DEF MarkPages, KeptRecords
<1>2. ASSUME ~kept.overlapped, ~kept.lost, wire = {}
      PROVE  Ids(marks.list) = Ids(kept.list) /\ Len(marks.list) = Len(kept.list)
  <2>1. Clean(marks.list, wire, kept) /\ Pending(wire) = {}
    BY <1>2 DEF MarksInv, MarksOK, Pending
  <2>2. Marked(marks.list) = Marked(kept.list) /\ Distinct(marks.list) /\ Distinct(kept.list)
    BY <1>2, <2>1 DEF Clean
  <2>3. Len(marks.list) = Len(kept.list)
    BY <1>1, <2>2, SameLength
  <2>4. \A l : Ids(l) = {x.id : x \in Marked(l)}
    BY DEF Ids, Marked
  <2> QED BY <2>2, <2>3, <2>4
<1>3. ASSUME ~kept.overlapped, ~kept.lost, ~kept.undeleted, \A c \in wire : c.kind # "delete",
             NEW j \in DOMAIN kept.list, NEW k \in DOMAIN kept.list, kept.list[j].place = kept.list[k].place
      PROVE  j = k
  <2>1. Clean(marks.list, wire, kept) /\ Apart(wire, kept)
    BY <1>3 DEF MarksInv, MarksOK
  <2>2. Marked(kept.list) \subseteq Standing(wire, kept)
    BY <1>3 DEF Standing, Deletes
  <2>3. kept.list[j] \in Marked(kept.list) /\ kept.list[k] \in Marked(kept.list)
    BY DEF Marked
  <2>4. kept.list[j] = kept.list[k]
    BY <1>3, <2>1, <2>2, <2>3 DEF Apart
  <2>5. Distinct(kept.list)
    BY <2>1 DEF Clean
  <2> QED BY <2>4, <2>5 DEF Distinct
<1> QED BY <1>2, <1>3 DEF BookmarksSafe, OnePerPlace, ListIsServers

(* Every step of the bookmarks. *)
LEMMA MarksSteps ==
  ASSUME MarksInv, MarksNext
  PROVE  MarksInv'
<1>1. Marked(marks.list) = ToSet(marks.list)
  BY DEF Marked, ToSet
<1>2. ASSUME NEW c \in wire, Served(c) \/ ListAnswers(c) \/ CreateAnswers(c) \/ DeleteAnswers(c) PROVE MarksInv'
  BY <1>2, ServedStep, AnswersStep
<1>3. ASSUME NEW c \in wire, CallFails(c) PROVE MarksInv'
  BY <1>3, CallFailsStep
<1>4. ASSUME HandleCreateBookmark PROVE MarksInv'
  BY <1>4, HandleCreateStep
<1>5. ASSUME NEW m \in Marked(marks.list), HandleDeleteBookmark(m) PROVE MarksInv'
  BY <1>5, HandleDeleteStep
<1>6. ASSUME NEW m \in Marked(marks.list), HandleGoToBookmark(m) PROVE MarksInv'
  <2>1. m.place \in Places \cup {"none"}
    BY MarkTypes DEF MarkRecords
  <2> QED BY <1>6, <2>1, TurnToStep DEF HandleGoToBookmark
<1>7. ASSUME NEW p \in Places, TurnTo(p) PROVE MarksInv'
  BY <1>7, TurnToStep DEF TurnTo
<1> QED BY <1>1, <1>2, <1>3, <1>4, <1>5, <1>6, <1>7, Zenon DEF MarksNext

(***************************************************************************)
(* Spreads                                                                 *)
(***************************************************************************)

SpreadRecords == [left : Nat, right : Nat, center : Nat]
Properties == {"left", "right", "center", "none"}

(* The page of a spread that is read first, and the one read second. *)
Early(s, rtl) == IF rtl THEN s.right ELSE s.left
Late(s, rtl) == IF rtl THEN s.left ELSE s.right
FirstOf(s, rtl) == IF s.center # 0 THEN s.center ELSE IF Early(s, rtl) # 0 THEN Early(s, rtl) ELSE Late(s, rtl)
LastOf(s, rtl) == IF s.center # 0 THEN s.center ELSE IF Late(s, rtl) # 0 THEN Late(s, rtl) ELSE Early(s, rtl)

(* A spread has a page in the centre, or some at its sides. *)
Paged(s) == (s.center # 0 /\ s.left = 0 /\ s.right = 0) \/ (s.center = 0 /\ (s.left # 0 \/ s.right # 0))
SpreadsOK(S) == S \in Seq(SpreadRecords) /\ S # <<>> /\ \A k \in 1 .. Len(S) : Paged(S[k])

(* Each spread begins with the page after the one the spread before ends with. *)
Chain(S, n, rtl) ==
    /\ FirstOf(S[1], rtl) = 1 /\ LastOf(S[Len(S)], rtl) = n
    /\ \A k \in 1 .. Len(S) : Early(S[k], rtl) # 0 /\ Late(S[k], rtl) # 0 => Late(S[k], rtl) = Early(S[k], rtl) + 1
    /\ \A k \in 1 .. Len(S) - 1 : FirstOf(S[k + 1], rtl) = LastOf(S[k], rtl) + 1

(* Another last spread. *)
WithLast(S, t) == [S EXCEPT ![Len(S)] = t]

(* A page at one side of an empty spread. *)
LEMMA SidePut ==
  ASSUME NEW i \in Nat, NEW side \in {"left", "right", "center"}, NEW e, e = [left |-> 0, right |-> 0, center |-> 0],
         NEW s, s = [e EXCEPT ![side] = i]
  PROVE  /\ s \in SpreadRecords /\ s.left = (IF side = "left" THEN i ELSE 0)
         /\ s.right = (IF side = "right" THEN i ELSE 0) /\ s.center = (IF side = "center" THEN i ELSE 0)
<1>1. e \in SpreadRecords /\ e.left = 0 /\ e.right = 0 /\ e.center = 0
  BY DEF SpreadRecords
<1>2. CASE side = "left"
  BY <1>1, <1>2 DEF SpreadRecords
<1>3. CASE side = "right"
  BY <1>1, <1>3 DEF SpreadRecords
<1>4. CASE side = "center"
  BY <1>1, <1>4 DEF SpreadRecords
<1> QED BY <1>2, <1>3, <1>4

(* The first page. *)
LEMMA PlaceFirst ==
  ASSUME NEW p \in Properties, NEW rtl \in BOOLEAN
  PROVE  \E s \in SpreadRecords :
            /\ PlacePage(<<Empty>>, 1, p, rtl) = <<s>> /\ Paged(s) /\ (s.center # 0 => p = "center")
            /\ FirstOf(s, rtl) = 1 /\ LastOf(s, rtl) = 1 /\ (Early(s, rtl) = 0 \/ Late(s, rtl) = 0)
<1>1. PICK S, e : S = <<Empty>> /\ e = Empty
  OBVIOUS
<1>2. /\ Len(S) = 1 /\ S[1] = e /\ e = [left |-> 0, right |-> 0, center |-> 0]
      /\ \A s : [S EXCEPT ![1] = s] = <<s>>
  BY <1>1 DEF Empty
<1>3. \E side \in {"left", "right", "center"} : /\ PlacePage(S, 1, p, rtl) = [S EXCEPT ![Len(S)][side] = 1]
                                                /\ side = "center" => p = "center"
  <2>1. S[Len(S)] = e /\ e.left = 0 /\ e.right = 0 /\ e.center = 0
    BY <1>2
  <2>2. CASE p = "center"
    BY <2>1, <2>2 DEF PlacePage
  <2>3. CASE rtl /\ p # "center"
    BY <2>1, <2>3 DEF PlacePage, Properties
  <2>4. CASE ~rtl /\ p # "center"
    BY <2>1, <2>4 DEF PlacePage, Properties
  <2> QED BY <2>2, <2>3, <2>4
<1>4. PICK side \in {"left", "right", "center"} : /\ PlacePage(S, 1, p, rtl) = [S EXCEPT ![Len(S)][side] = 1]
                                                  /\ side = "center" => p = "center"
  BY <1>3
<1>5. PICK s : s = [e EXCEPT ![side] = 1]
  OBVIOUS
<1>6. PlacePage(S, 1, p, rtl) = <<s>>
  BY <1>2, <1>4, <1>5
<1>7. /\ s \in SpreadRecords /\ s.left = (IF side = "left" THEN 1 ELSE 0)
      /\ s.right = (IF side = "right" THEN 1 ELSE 0) /\ s.center = (IF side = "center" THEN 1 ELSE 0)
  <2>1. PICK i \in Nat : i = 1
    OBVIOUS
  <2>2. s = [e EXCEPT ![side] = i] /\ side \in {"left", "right", "center"}
    BY <1>4, <1>5, <2>1
  <2>3. e = [left |-> 0, right |-> 0, center |-> 0]
    BY <1>2
  <2>4. /\ s \in SpreadRecords /\ s.left = (IF side = "left" THEN i ELSE 0)
        /\ s.right = (IF side = "right" THEN i ELSE 0) /\ s.center = (IF side = "center" THEN i ELSE 0)
    BY <2>2, <2>3, SidePut
  <2> QED BY <2>1, <2>4
<1>8. /\ s \in SpreadRecords /\ Paged(s) /\ (s.center # 0 => p = "center")
      /\ FirstOf(s, rtl) = 1 /\ LastOf(s, rtl) = 1 /\ (Early(s, rtl) = 0 \/ Late(s, rtl) = 0)
  BY <1>4, <1>7 DEF Paged, FirstOf, LastOf, Early, Late
<1> QED BY <1>1, <1>6, <1>8

(* One more page goes into a new spread, at the second side of the last one, *)
(* or takes the centre from the page before.                                 *)
LEMMA PlaceNext ==
  ASSUME NEW S, SpreadsOK(S), NEW i \in Nat, i > 1, NEW p \in Properties, NEW rtl \in BOOLEAN, NEW e, e = S[Len(S)]
  PROVE  \E t \in SpreadRecords :
           /\ Paged(t) /\ (t.center # 0 => p = "center")
           /\ \/ /\ PlacePage(S, i, p, rtl) = Append(S, t)
                 /\ FirstOf(t, rtl) = i /\ LastOf(t, rtl) = i /\ (Early(t, rtl) = 0 \/ Late(t, rtl) = 0)
              \/ /\ PlacePage(S, i, p, rtl) = WithLast(S, t)
                 /\ e.center = 0 /\ t.center = 0 /\ Late(e, rtl) = 0 /\ Late(t, rtl) = i
                 /\ Early(e, rtl) # 0 /\ Early(t, rtl) = Early(e, rtl)
              \/ /\ PlacePage(S, i, p, rtl) = WithLast(S, t)
                 /\ p = "center" /\ e.center # 0
<1>1. /\ Len(S) \in Nat \ {0} /\ e \in SpreadRecords /\ Paged(e)
      /\ e.left \in Nat /\ e.right \in Nat /\ e.center \in Nat
  <2>1. S \in Seq(SpreadRecords) /\ S # <<>>
    BY DEF SpreadsOK
  <2>2. Len(S) \in Nat \ {0}
    BY <2>1
  <2>3. Len(S) \in 1 .. Len(S)
    BY <2>2
  <2>4. e \in SpreadRecords
    BY <2>1, <2>3
  <2>5. Paged(e)
    BY <2>3 DEF SpreadsOK
  <2> QED BY <2>2, <2>4, <2>5 DEF SpreadRecords
<1>2. PICK first, second : /\ first = IF rtl THEN "right" ELSE "left"
                           /\ second = IF rtl THEN "left" ELSE "right"
  OBVIOUS
<1>3. e[first] = Early(e, rtl) /\ e[second] = Late(e, rtl)
  BY <1>2 DEF Early, Late
<1>4. \/ p = "center" /\ PlacePage(S, i, p, rtl) = Append(S, [Empty EXCEPT !["center"] = i])
      \/ p = "center" /\ e.center # 0 /\ e.left = 0 /\ e.right = 0 /\ PlacePage(S, i, p, rtl) = [S EXCEPT ![Len(S)]["center"] = i]
      \/ PlacePage(S, i, p, rtl) = Append(S, [Empty EXCEPT ![first] = i])
      \/ PlacePage(S, i, p, rtl) = Append(S, [Empty EXCEPT ![second] = i])
      \/ /\ e.center = 0 /\ Late(e, rtl) = 0 /\ Early(e, rtl) # 0
         /\ PlacePage(S, i, p, rtl) = [S EXCEPT ![Len(S)][second] = i]
  <2>1. CASE p = "center"
    BY <1>1, <1>2, <2>1 DEF PlacePage, Paged
  <2>2. CASE p = first
    BY <1>1, <1>2, <2>2 DEF PlacePage
  <2>3. CASE p = second
    BY <1>1, <1>2, <1>3, <2>3 DEF PlacePage, Paged, Early, Late
  <2>4. CASE p \notin {"center", first, second}
    BY <1>1, <1>2, <1>3, <2>4 DEF PlacePage, Paged, Early, Late
  <2> QED BY <2>1, <2>2, <2>3, <2>4
<1>5. ASSUME NEW side \in {"left", "right"}, NEW t, t = [Empty EXCEPT ![side] = i]
      PROVE  /\ t \in SpreadRecords /\ Paged(t) /\ t.center = 0
             /\ FirstOf(t, rtl) = i /\ LastOf(t, rtl) = i /\ (Early(t, rtl) = 0 \/ Late(t, rtl) = 0)
  <2>1. /\ t \in SpreadRecords /\ t.left = (IF side = "left" THEN i ELSE 0)
        /\ t.right = (IF side = "right" THEN i ELSE 0) /\ t.center = 0
    BY <1>5, SidePut DEF Empty
  <2> QED BY <2>1 DEF Paged, FirstOf, LastOf, Early, Late
<1>6. first \in {"left", "right"} /\ second \in {"left", "right"}
  BY <1>2
<1>7. CASE p = "center" /\ PlacePage(S, i, p, rtl) = Append(S, [Empty EXCEPT !["center"] = i])
  <2>1. PICK t : t = [Empty EXCEPT !["center"] = i]
    OBVIOUS
  <2>2. t = [left |-> 0, right |-> 0, center |-> i]
    BY <2>1 DEF Empty
  <2>3. /\ t \in SpreadRecords /\ Paged(t)
        /\ FirstOf(t, rtl) = i /\ LastOf(t, rtl) = i /\ (Early(t, rtl) = 0 \/ Late(t, rtl) = 0)
    BY <2>2 DEF SpreadRecords, Paged, FirstOf, LastOf, Early, Late
  <2> QED BY <1>7, <2>1, <2>3
<1>8. CASE PlacePage(S, i, p, rtl) = Append(S, [Empty EXCEPT ![first] = i])
  <2>1. PICK t : t = [Empty EXCEPT ![first] = i]
    OBVIOUS
  <2> QED BY <1>5, <1>6, <1>8, <2>1
<1>9. CASE PlacePage(S, i, p, rtl) = Append(S, [Empty EXCEPT ![second] = i])
  <2>1. PICK t : t = [Empty EXCEPT ![second] = i]
    OBVIOUS
  <2> QED BY <1>5, <1>6, <1>9, <2>1
<1>10. CASE /\ p = "center" /\ e.center # 0 /\ e.left = 0 /\ e.right = 0
            /\ PlacePage(S, i, p, rtl) = [S EXCEPT ![Len(S)]["center"] = i]
  <2>1. PICK t : t = [e EXCEPT !["center"] = i]
    OBVIOUS
  <2>2. t \in SpreadRecords /\ t.center = i /\ t.left = 0 /\ t.right = 0
    BY <1>1, <1>10, <2>1 DEF SpreadRecords
  <2>3. PlacePage(S, i, p, rtl) = WithLast(S, t)
    BY <1>10, <2>1 DEF WithLast
  <2>4. Paged(t)
    BY <2>2 DEF Paged
  <2> QED BY <1>10, <2>2, <2>3, <2>4
<1>11. CASE /\ e.center = 0 /\ Late(e, rtl) = 0 /\ Early(e, rtl) # 0
            /\ PlacePage(S, i, p, rtl) = [S EXCEPT ![Len(S)][second] = i]
  <2>1. PICK t : t = [e EXCEPT ![second] = i]
    OBVIOUS
  <2>2. t \in SpreadRecords /\ t.center = 0 /\ Late(t, rtl) = i /\ Early(t, rtl) = Early(e, rtl)
    <3>1. CASE rtl
      <4>1. t = [left |-> i, right |-> e.right, center |-> e.center]
        BY <1>1, <1>2, <2>1, <3>1 DEF SpreadRecords
      <4> QED BY <1>1, <1>11, <3>1, <4>1 DEF SpreadRecords, Early, Late
    <3>2. CASE ~rtl
      <4>1. t = [left |-> e.left, right |-> i, center |-> e.center]
        BY <1>1, <1>2, <2>1, <3>2 DEF SpreadRecords
      <4> QED BY <1>1, <1>11, <3>2, <4>1 DEF SpreadRecords, Early, Late
    <3> QED BY <3>1, <3>2
  <2>3. PlacePage(S, i, p, rtl) = WithLast(S, t)
    BY <1>11, <2>1 DEF WithLast
  <2>4. Paged(t)
    BY <1>11, <2>2 DEF Paged, Early, Late
  <2> QED BY <1>11, <2>2, <2>3, <2>4
<1> QED BY <1>4, <1>7, <1>8, <1>9, <1>10, <1>11

(* A spread more. *)
LEMMA ChainAppend ==
  ASSUME NEW S, SpreadsOK(S), NEW n \in Nat, NEW rtl \in BOOLEAN, NEW t \in SpreadRecords, Paged(t)
  PROVE  /\ SpreadsOK(Append(S, t)) /\ Append(S, t)[Len(Append(S, t))] = t
         /\ (Chain(S, n, rtl) /\ FirstOf(t, rtl) = n + 1 /\ LastOf(t, rtl) = n + 1 /\ (Early(t, rtl) = 0 \/ Late(t, rtl) = 0))
               => Chain(Append(S, t), n + 1, rtl)
<1>1. PICK T, m : T = Append(S, t) /\ m = Len(S)
  OBVIOUS
<1>2. /\ m \in Nat /\ m >= 1 /\ T \in Seq(SpreadRecords) /\ Len(T) = m + 1 /\ T[m + 1] = t /\ T # <<>>
      /\ \A k \in 1 .. m : T[k] = S[k]
  BY <1>1 DEF SpreadsOK
<1>3. /\ \A k \in 1 .. m + 1 : k \in 1 .. m \/ k = m + 1
      /\ \A k \in 1 .. m + 1 - 1 : k \in 1 .. m /\ (k = m \/ (k \in 1 .. m - 1 /\ k + 1 \in 1 .. m))
      /\ 1 \in 1 .. m /\ m \in 1 .. m
  BY <1>2
<1>4. SpreadsOK(T)
  BY <1>1, <1>2, <1>3 DEF SpreadsOK
<1>5. ASSUME Chain(S, n, rtl), FirstOf(t, rtl) = n + 1, LastOf(t, rtl) = n + 1, Early(t, rtl) = 0 \/ Late(t, rtl) = 0
      PROVE  Chain(T, n + 1, rtl)
  <2>1. FirstOf(T[1], rtl) = 1 /\ LastOf(T[Len(T)], rtl) = n + 1 /\ LastOf(T[m], rtl) = n
    BY <1>1, <1>2, <1>3, <1>5 DEF Chain
  <2>2. ASSUME NEW k \in 1 .. Len(T), Early(T[k], rtl) # 0, Late(T[k], rtl) # 0
        PROVE  Late(T[k], rtl) = Early(T[k], rtl) + 1
    <3>1. k \in 1 .. m /\ T[k] = S[k]
      BY <1>2, <1>3, <1>5, <2>2
    <3> QED BY <1>1, <1>5, <2>2, <3>1 DEF Chain
  <2>3. ASSUME NEW k \in 1 .. Len(T) - 1 PROVE FirstOf(T[k + 1], rtl) = LastOf(T[k], rtl) + 1
    <3>1. CASE k = m
      BY <1>2, <1>5, <2>1, <3>1
    <3>2. CASE k \in 1 .. m - 1 /\ k + 1 \in 1 .. m /\ k \in 1 .. m
      <4>1. T[k] = S[k] /\ T[k + 1] = S[k + 1]
        BY <1>2, <3>2
      <4> QED BY <1>1, <1>5, <3>2, <4>1 DEF Chain
    <3> QED BY <1>2, <1>3, <3>1, <3>2
  <2> QED BY <2>1, <2>2, <2>3 DEF Chain
<1> QED BY <1>1, <1>2, <1>4, <1>5

(* Another last spread. *)
LEMMA ChainChange ==
  ASSUME NEW S, SpreadsOK(S), NEW n \in Nat, NEW rtl \in BOOLEAN, NEW t \in SpreadRecords, Paged(t), NEW e, e = S[Len(S)],
         NEW T, T = WithLast(S, t)
  PROVE  /\ SpreadsOK(T) /\ T[Len(T)] = t
         /\ (Chain(S, n, rtl) /\ FirstOf(t, rtl) = FirstOf(e, rtl) /\ LastOf(t, rtl) = n + 1
               /\ Late(t, rtl) = Early(t, rtl) + 1)
               => Chain(T, n + 1, rtl)
<1>1. PICK m : m = Len(S)
  OBVIOUS
<1>2. /\ m \in Nat /\ m >= 1 /\ T \in Seq(SpreadRecords) /\ Len(T) = m /\ T[m] = t /\ T # <<>> /\ S[m] = e
      /\ \A k \in 1 .. m : k # m => T[k] = S[k]
  BY <1>1 DEF SpreadsOK, WithLast
<1>3. /\ \A k \in 1 .. m - 1 : k \in 1 .. m /\ k # m /\ k + 1 \in 1 .. m
      /\ 1 \in 1 .. m /\ m \in 1 .. m
  BY <1>2
<1>4. SpreadsOK(T)
  BY <1>1, <1>2, <1>3 DEF SpreadsOK
<1>5. ASSUME Chain(S, n, rtl), FirstOf(t, rtl) = FirstOf(e, rtl), LastOf(t, rtl) = n + 1, Late(t, rtl) = Early(t, rtl) + 1
      PROVE  Chain(T, n + 1, rtl)
  <2>0. \A k \in 1 .. m : FirstOf(T[k], rtl) = FirstOf(S[k], rtl)
    BY <1>2, <1>5
  <2>1. FirstOf(T[1], rtl) = 1 /\ LastOf(T[Len(T)], rtl) = n + 1
    BY <1>1, <1>2, <1>3, <1>5, <2>0 DEF Chain
  <2>2. ASSUME NEW k \in 1 .. Len(T), Early(T[k], rtl) # 0, Late(T[k], rtl) # 0
        PROVE  Late(T[k], rtl) = Early(T[k], rtl) + 1
    <3>1. CASE k = m
      BY <1>2, <1>5, <3>1
    <3>2. CASE k # m
      <4>1. k \in 1 .. m /\ T[k] = S[k]
        BY <1>2, <3>2
      <4> QED BY <1>1, <1>5, <2>2, <4>1 DEF Chain
    <3> QED BY <3>1, <3>2
  <2>3. ASSUME NEW k \in 1 .. Len(T) - 1 PROVE FirstOf(T[k + 1], rtl) = LastOf(T[k], rtl) + 1
    <3>1. k \in 1 .. m - 1 /\ k \in 1 .. m /\ k # m /\ k + 1 \in 1 .. m
      BY <1>2, <1>3
    <3>2. T[k] = S[k] /\ FirstOf(T[k + 1], rtl) = FirstOf(S[k + 1], rtl)
      BY <1>2, <2>0, <3>1
    <3> QED BY <1>1, <1>5, <3>1, <3>2 DEF Chain
  <2> QED BY <2>1, <2>2, <2>3 DEF Chain
<1> QED BY <1>2, <1>4, <1>5

PlacedTurn(b, f, i) == IF i = 0 THEN <<Empty>> ELSE PlacePage(f[i - 1], i, b.pages[i], b.rtl)
IsPlaced(b, m, f) == f = [i \in 0 .. m |-> PlacedTurn(b, f, i)]

(* The recursive function of the spreads exists. *)
LEMMA PlacedExists ==
  ASSUME NEW b, NEW m \in Nat
  PROVE  \E f : IsPlaced(b, m, f)
<1> DEFINE G == {k \in Nat : \E f : IsPlaced(b, k, f)}
<1>1. 0 \in G
  <2>1. PICK f : f = [n \in 0 .. 0 |-> <<Empty>>]
    OBVIOUS
  <2>2. IsPlaced(b, 0, f)
    BY <2>1 DEF IsPlaced, PlacedTurn
  <2> QED BY <2>2
<1>2. ASSUME NEW i \in 1 .. m, i - 1 \in G PROVE i \in G
  <2>1. PICK f : IsPlaced(b, i - 1, f)
    BY <1>2
  <2>2. PICK g : g = [n \in 0 .. i |-> IF n < i THEN f[n] ELSE PlacedTurn(b, f, i)]
    OBVIOUS
  <2>3. \A n \in 0 .. i - 1 : f[n] = PlacedTurn(b, f, n)
    BY <2>1 DEF IsPlaced
  <2>4. \A n \in 0 .. i : g[n] = PlacedTurn(b, f, n)
    BY <2>2, <2>3
  <2>5. \A n \in 0 .. i : n # 0 => n - 1 \in 0 .. i /\ n - 1 < i /\ g[n - 1] = f[n - 1]
    BY <2>2
  <2>6. \A n \in 0 .. i : PlacedTurn(b, f, n) = PlacedTurn(b, g, n)
    BY <2>5 DEF PlacedTurn
  <2>7. g = [n \in 0 .. i |-> PlacedTurn(b, g, n)]
    BY <2>2, <2>4, <2>6
  <2> QED BY <2>7 DEF IsPlaced
<1>3. m \in G
  BY <1>1, <1>2, UpTo
<1> QED BY <1>3

(* The spreads after n sections. *)
Good(b, S, n) ==
    /\ SpreadsOK(S)
    /\ ~Doubled(b) => Chain(S, n, b.rtl) /\ (S[Len(S)].center # 0 => b.pages[n] = "center")

LEMMA GoodNext ==
  ASSUME NEW b, b.rtl \in BOOLEAN, b.pages \in Seq(Properties), NEW n \in Nat, n >= 1, n + 1 \in 1 .. Len(b.pages),
         NEW S, Good(b, S, n)
  PROVE  Good(b, PlacePage(S, n + 1, b.pages[n + 1], b.rtl), n + 1)
<1>1. PICK p, rtl, e : p = b.pages[n + 1] /\ rtl = b.rtl /\ e = S[Len(S)]
  OBVIOUS
<1>2. p \in Properties /\ rtl \in BOOLEAN /\ SpreadsOK(S) /\ n + 1 \in Nat /\ n + 1 > 1 /\ Len(S) \in 1 .. Len(S)
  BY <1>1 DEF Good, SpreadsOK
<1>3. PICK T : T = PlacePage(S, n + 1, p, rtl)
  OBVIOUS
<1>10. PICK i \in Nat : i = n + 1 /\ i > 1
  BY <1>2
<1>11. T = PlacePage(S, i, p, rtl) /\ e = S[Len(S)]
  BY <1>1, <1>3, <1>10
<1>12. \E t \in SpreadRecords :
           /\ Paged(t) /\ (t.center # 0 => p = "center")
           /\ \/ /\ T = Append(S, t)
                 /\ FirstOf(t, rtl) = i /\ LastOf(t, rtl) = i /\ (Early(t, rtl) = 0 \/ Late(t, rtl) = 0)
              \/ /\ T = WithLast(S, t)
                 /\ e.center = 0 /\ t.center = 0 /\ Late(e, rtl) = 0 /\ Late(t, rtl) = i
                 /\ Early(e, rtl) # 0 /\ Early(t, rtl) = Early(e, rtl)
              \/ /\ T = WithLast(S, t)
                 /\ p = "center" /\ e.center # 0
  BY <1>2, <1>10, <1>11, PlaceNext
<1>4. PICK t \in SpreadRecords :
           /\ Paged(t) /\ (t.center # 0 => p = "center")
           /\ \/ /\ T = Append(S, t)
                 /\ FirstOf(t, rtl) = n + 1 /\ LastOf(t, rtl) = n + 1 /\ (Early(t, rtl) = 0 \/ Late(t, rtl) = 0)
              \/ /\ T = WithLast(S, t)
                 /\ e.center = 0 /\ t.center = 0 /\ Late(e, rtl) = 0 /\ Late(t, rtl) = n + 1
                 /\ Early(e, rtl) # 0 /\ Early(t, rtl) = Early(e, rtl)
              \/ /\ T = WithLast(S, t)
                 /\ p = "center" /\ e.center # 0
  BY <1>10, <1>12
<1>5. Good(b, S, n)
  OBVIOUS
<1>6. CASE /\ T = Append(S, t)
           /\ FirstOf(t, rtl) = n + 1 /\ LastOf(t, rtl) = n + 1 /\ (Early(t, rtl) = 0 \/ Late(t, rtl) = 0)
  <2>1. SpreadsOK(T) /\ T[Len(T)] = t /\ (Chain(S, n, rtl) => Chain(T, n + 1, rtl))
    BY <1>2, <1>4, <1>6, ChainAppend
  <2> QED BY <1>1, <1>3, <1>4, <1>5, <2>1 DEF Good
<1>7. CASE /\ T = WithLast(S, t)
           /\ e.center = 0 /\ t.center = 0 /\ Late(e, rtl) = 0 /\ Late(t, rtl) = n + 1
           /\ Early(e, rtl) # 0 /\ Early(t, rtl) = Early(e, rtl)
  <2>5. T = WithLast(S, t) /\ e = S[Len(S)] /\ Paged(t) /\ t \in SpreadRecords
    BY <1>1, <1>4, <1>7
  <2>1. SpreadsOK(T) /\ T[Len(T)] = t
    BY <1>2, <2>5, ChainChange
  <2>2. FirstOf(t, rtl) = FirstOf(e, rtl) /\ LastOf(t, rtl) = n + 1 /\ LastOf(e, rtl) = Early(e, rtl)
    BY <1>7 DEF FirstOf, LastOf
  <2>3. Chain(S, n, rtl) => LastOf(e, rtl) = n
    BY <1>1 DEF Chain
  <2>4. ASSUME Chain(S, n, rtl) PROVE Chain(T, n + 1, rtl)
    <3>1. Late(t, rtl) = Early(t, rtl) + 1
      BY <1>7, <2>2, <2>3, <2>4
    <3> QED BY <1>2, <2>2, <2>4, <2>5, <3>1, ChainChange
  <2> QED BY <1>1, <1>3, <1>4, <1>5, <2>1, <2>4 DEF Good
<1>8. CASE /\ T = WithLast(S, t)
           /\ p = "center" /\ e.center # 0
  <2>1. SpreadsOK(T)
    BY <1>1, <1>2, <1>4, <1>8, ChainChange
  <2>2. ASSUME ~Doubled(b) PROVE FALSE
    <3>1. b.pages[n] = "center"
      BY <1>1, <1>5, <1>8, <2>2 DEF Good
    <3>2. n \in 1 .. (Len(b.pages) - 1)
      OBVIOUS
    <3> QED BY <1>1, <1>8, <2>2, <3>1, <3>2 DEF Doubled
  <2> QED BY <1>1, <1>3, <2>1, <2>2 DEF Good
<1> QED BY <1>4, <1>6, <1>7, <1>8

LEMMA GoodFirst ==
  ASSUME NEW b, b.rtl \in BOOLEAN, b.pages \in Seq(Properties), b.pages # <<>>
  PROVE  Good(b, PlacePage(<<Empty>>, 1, b.pages[1], b.rtl), 1)
<1>1. PICK p, rtl : p = b.pages[1] /\ rtl = b.rtl
  OBVIOUS
<1>2. p \in Properties /\ rtl \in BOOLEAN
  BY <1>1
<1>3. PICK s \in SpreadRecords :
         /\ PlacePage(<<Empty>>, 1, p, rtl) = <<s>> /\ Paged(s) /\ (s.center # 0 => p = "center")
         /\ FirstOf(s, rtl) = 1 /\ LastOf(s, rtl) = 1 /\ (Early(s, rtl) = 0 \/ Late(s, rtl) = 0)
  BY <1>2, PlaceFirst
<1>4. PICK S : S = <<s>>
  OBVIOUS
<1>5. S \in Seq(SpreadRecords) /\ S # <<>> /\ Len(S) = 1 /\ S[1] = s /\ 1 .. Len(S) = {1} /\ 1 .. Len(S) - 1 = {}
  BY <1>4
<1>6. SpreadsOK(S)
  BY <1>3, <1>5 DEF SpreadsOK
<1>7. Chain(S, 1, rtl)
  BY <1>3, <1>5 DEF Chain
<1> QED BY <1>1, <1>3, <1>4, <1>5, <1>6, <1>7 DEF Good

(* Whatever sides a book asks for, its spreads hold its pages in order. *)
LEMMA SpreadsFacts ==
  ASSUME NEW b, b.rtl \in BOOLEAN, b.pages \in Seq(Properties), b.pages # <<>>
  PROVE  /\ SpreadsOK(Spreads(b))
         /\ b.spread = "none" \/ ~Doubled(b) => Chain(Spreads(b), Len(b.pages), b.rtl)
<1>1. PICK n \in Nat : n = Len(b.pages) /\ n >= 1 /\ DOMAIN b.pages = 1 .. n
  OBVIOUS
<1>2. CASE b.spread = "none"
  <2>1. PICK S : S = [i \in 1 .. n |-> [left |-> 0, right |-> 0, center |-> i]]
    OBVIOUS
  <2>2. Spreads(b) = S
    <3>1. ASSUME NEW i \in 1 .. n PROVE [Empty EXCEPT !.center = i] = [left |-> 0, right |-> 0, center |-> i]
      BY DEF Empty
    <3> QED BY <1>1, <1>2, <2>1, <3>1 DEF Spreads
  <2>3. /\ S \in Seq(SpreadRecords) /\ Len(S) = n /\ S # <<>>
        /\ \A k \in 1 .. n : S[k].center = k /\ S[k].left = 0 /\ S[k].right = 0
    <3>1. S \in [1 .. n -> SpreadRecords]
      BY <1>1, <2>1 DEF SpreadRecords
    <3>2. S \in Seq(SpreadRecords)
      BY <1>1, <3>1
    <3>3. Len(S) = n
      BY <1>1, <3>1, <3>2
    <3> QED BY <1>1, <2>1, <3>2, <3>3
  <2>4. SpreadsOK(S)
    BY <1>1, <2>3 DEF SpreadsOK, Paged
  <2>5. \A k \in 1 .. n : FirstOf(S[k], b.rtl) = k /\ LastOf(S[k], b.rtl) = k /\ Early(S[k], b.rtl) = 0
    BY <1>1, <2>3 DEF FirstOf, LastOf, Early
  <2>6. 1 \in 1 .. n /\ n \in 1 .. n /\ \A k \in 1 .. n - 1 : k \in 1 .. n /\ k + 1 \in 1 .. n
    BY <1>1
  <2>7. Chain(S, n, b.rtl)
    BY <2>3, <2>5, <2>6 DEF Chain
  <2> QED BY <1>1, <2>2, <2>4, <2>7
<1>3. CASE b.spread # "none"
  <2>1. PICK f : f = CHOOSE g : IsPlaced(b, n, g)
    OBVIOUS
  <2>2. Spreads(b) = f[n]
    BY <1>1, <1>3, <2>1 DEF Spreads, IsPlaced, PlacedTurn
  <2>3. IsPlaced(b, n, f)
    BY <2>1, PlacedExists
  <2>4. \A i \in 0 .. n : f[i] = PlacedTurn(b, f, i)
    BY <2>3 DEF IsPlaced
  <2> DEFINE G == {i \in Nat : i \in 0 .. n /\ (i # 0 => Good(b, f[i], i))}
  <2>5. 0 \in G
    BY <1>1
  <2>6. ASSUME NEW i \in 1 .. n, i - 1 \in G PROVE i \in G
    <3>1. i \in 0 .. n /\ i # 0 /\ i \in Nat /\ f[i] = PlacePage(f[i - 1], i, b.pages[i], b.rtl)
      BY <2>4 DEF PlacedTurn
    <3>2. CASE i = 1
      <4>1. f[0] = <<Empty>>
        BY <1>1, <2>4 DEF PlacedTurn
      <4> QED BY <3>1, <3>2, <4>1, GoodFirst
    <3>3. CASE i # 1
      <4>1. PICK m, S : m \in Nat /\ m = i - 1 /\ S = f[m] /\ m >= 1 /\ Good(b, S, m) /\ i = m + 1
        BY <2>6, <3>3
      <4>2. m + 1 \in 1 .. Len(b.pages)
        BY <1>1, <4>1
      <4>3. Good(b, PlacePage(S, m + 1, b.pages[m + 1], b.rtl), m + 1)
        BY <4>1, <4>2, GoodNext
      <4>4. Good(b, f[i], i)
        BY <3>1, <4>1, <4>3
      <4> QED BY <3>1, <4>4
    <3> QED BY <3>2, <3>3
  <2>7. G \in SUBSET Nat
    OBVIOUS
  <2>8. \A i \in 1 .. n : i - 1 \in G => i \in G
    BY <2>6
  <2> HIDE DEF G
  <2>9. n \in G
    BY <2>5, <2>7, <2>8, UpTo
  <2> USE DEF G
  <2>10. Good(b, f[n], n)
    BY <1>1, <2>9
  <2> QED BY <1>1, <1>3, <2>2, <2>10 DEF Good
<1> QED BY <1>2, <1>3

FlatTurn(R, f, i) == IF i = 1 THEN R[i] ELSE f[i - 1] \o R[i]
IsFlat(R, m, f) == f = [i \in 1 .. m |-> FlatTurn(R, f, i)]

(* The recursive function of a flattened sequence exists. *)
LEMMA FlatExists ==
  ASSUME NEW R, NEW m \in Nat
  PROVE  \E f : IsFlat(R, m, f)
<1> DEFINE G == {k \in Nat : \E f : IsFlat(R, k, f)}
<1>1. 0 \in G
  <2>1. PICK f : f = [n \in 1 .. 0 |-> <<>>]
    OBVIOUS
  <2>2. IsFlat(R, 0, f)
    BY <2>1 DEF IsFlat
  <2> QED BY <2>2
<1>2. ASSUME NEW i \in 1 .. m, i - 1 \in G PROVE i \in G
  <2>1. PICK f : IsFlat(R, i - 1, f)
    BY <1>2
  <2>2. PICK g : g = [n \in 1 .. i |-> IF n < i THEN f[n] ELSE FlatTurn(R, f, i)]
    OBVIOUS
  <2>3. \A n \in 1 .. i - 1 : f[n] = FlatTurn(R, f, n)
    BY <2>1 DEF IsFlat
  <2>4. \A n \in 1 .. i : g[n] = FlatTurn(R, f, n)
    BY <2>2, <2>3
  <2>5. \A n \in 1 .. i : n # 1 => n - 1 \in 1 .. i /\ n - 1 < i /\ g[n - 1] = f[n - 1]
    BY <2>2
  <2>6. \A n \in 1 .. i : FlatTurn(R, f, n) = FlatTurn(R, g, n)
    BY <2>5 DEF FlatTurn
  <2>7. g = [n \in 1 .. i |-> FlatTurn(R, g, n)]
    BY <2>2, <2>4, <2>6
  <2> QED BY <2>7 DEF IsFlat
<1>3. m \in G
  BY <1>1, <1>2, UpTo
<1> QED BY <1>3

(* The pages of a spread as they are read. *)
ReadOf(s, rtl) ==
    Given(s.center) \o (IF rtl THEN Given(s.right) \o Given(s.left) ELSE Given(s.left) \o Given(s.right))

LEMMA ReadFacts ==
  ASSUME NEW s \in SpreadRecords, Paged(s), NEW rtl \in BOOLEAN,
         Early(s, rtl) # 0 /\ Late(s, rtl) # 0 => Late(s, rtl) = Early(s, rtl) + 1
  PROVE  \E a \in Nat : /\ a = FirstOf(s, rtl)
                        /\ \/ ReadOf(s, rtl) = <<a>> /\ LastOf(s, rtl) = a
                           \/ ReadOf(s, rtl) = <<a, a + 1>> /\ LastOf(s, rtl) = a + 1
<1>1. PICK c \in Nat, u \in Nat, v \in Nat : c = s.center /\ u = Early(s, rtl) /\ v = Late(s, rtl)
  BY DEF SpreadRecords, Early, Late
<1>2. ReadOf(s, rtl) = Given(c) \o (Given(u) \o Given(v))
  BY <1>1 DEF ReadOf, Early, Late
<1>3. (c # 0 /\ u = 0 /\ v = 0) \/ (c = 0 /\ u # 0 /\ v = 0) \/ (c = 0 /\ u = 0 /\ v # 0) \/ (c = 0 /\ u # 0 /\ v = u + 1)
  BY <1>1 DEF Paged, Early, Late
<1>4. \A x : <<x>> \o <<>> = <<x>> /\ <<>> \o <<x>> = <<x>>
  OBVIOUS
<1>5. <<>> \o <<>> = <<>>
  OBVIOUS
<1>6. CASE c # 0 /\ u = 0 /\ v = 0
  <2>1. ReadOf(s, rtl) = <<c>>
    BY <1>2, <1>4, <1>5, <1>6 DEF Given
  <2> QED BY <1>1, <1>6, <2>1 DEF FirstOf, LastOf
<1>7. CASE c = 0 /\ u # 0 /\ v = 0
  <2>1. ReadOf(s, rtl) = <<u>>
    BY <1>2, <1>4, <1>7 DEF Given
  <2> QED BY <1>1, <1>7, <2>1 DEF FirstOf, LastOf
<1>8. CASE c = 0 /\ u = 0 /\ v # 0
  <2>1. ReadOf(s, rtl) = <<v>>
    BY <1>2, <1>4, <1>8 DEF Given
  <2> QED BY <1>1, <1>8, <2>1 DEF FirstOf, LastOf
<1>9. CASE c = 0 /\ u # 0 /\ v = u + 1
  <2>1. <<>> \o (<<u>> \o <<v>>) = <<u, v>>
    <3>4. u \in Nat /\ v \in Nat
      BY <1>1
    <3>5. <<u>> \in Seq(Nat) /\ <<v>> \in Seq(Nat) /\ <<u, v>> \in Seq(Nat)
      BY <3>4
    <3>2. PICK w \in Seq(Nat), x \in Seq(Nat), y \in Seq(Nat) : w = <<u, v>> /\ x = <<u>> /\ y = <<v>>
      BY <3>5
    <3>6. Len(w) = 2 /\ w[1] = u /\ w[2] = v /\ Len(x) = 1 /\ x[1] = u /\ Len(y) = 1 /\ y[1] = v
      BY <3>2
    <3>7. PICK z \in Seq(Nat) : z = x \o y /\ Len(z) = 2 /\ z[1] = u /\ z[2] = v
      <4>1. /\ x \o y \in Seq(Nat) /\ Len(x \o y) = Len(x) + Len(y)
            /\ \A i \in 1 .. Len(x) + Len(y) : (x \o y)[i] = IF i <= Len(x) THEN x[i] ELSE y[i - Len(x)]
        BY ConcatProperties
      <4>2. PICK z \in Seq(Nat) : z = x \o y
        BY <4>1
      <4>3. Len(z) = 2 /\ \A i \in 1 .. 2 : z[i] = IF i <= 1 THEN x[i] ELSE y[i - 1]
        BY <3>6, <4>1, <4>2
      <4> QED BY <3>6, <4>2, <4>3
    <3>8. z = w
      <4>3. z \in Seq(Nat) /\ w \in Seq(Nat)
        BY <3>2, <3>7
      <4>4. z = [i \in 1 .. Len(z) |-> z[i]] /\ w = [i \in 1 .. Len(w) |-> w[i]]
        BY <4>3
      <4>1. z = [i \in 1 .. 2 |-> z[i]] /\ w = [i \in 1 .. 2 |-> w[i]]
        BY <3>6, <3>7, <4>4
      <4>2. \A i \in 1 .. 2 : i = 1 \/ i = 2
        OBVIOUS
      <4> QED BY <3>6, <3>7, <4>1, <4>2
    <3>1. <<u>> \o <<v>> = <<u, v>>
      BY <3>2, <3>7, <3>8
    <3>3. <<>> \o w = w
      BY <3>2, ConcatEmptySeq
    <3> QED BY <3>1, <3>2, <3>3
  <2>2. v # 0
    BY <1>9
  <2>3. ReadOf(s, rtl) = <<u, u + 1>>
    BY <1>2, <1>9, <2>1, <2>2 DEF Given
  <2> QED BY <1>1, <1>9, <2>2, <2>3 DEF FirstOf, LastOf
<1> QED BY <1>3, <1>6, <1>7, <1>8, <1>9

Counted(m) == [i \in 1 .. m |-> i]

LEMMA CountOn ==
  ASSUME NEW a \in Nat
  PROVE  /\ Counted(a) \o <<a + 1>> = Counted(a + 1)
         /\ Counted(a) \o <<a + 1, a + 1 + 1>> = Counted(a + 1 + 1)
<1>1. Counted(a) \in Seq(Nat) /\ Len(Counted(a)) = a
  BY DEF Counted
<1>2. PICK s \in Seq(Nat), t \in Seq(Nat), u \in Seq(Nat) : s = Counted(a) /\ t = <<a + 1>> /\ u = <<a + 1, a + 1 + 1>>
  <2>1. PICK x \in Nat, y \in Nat : x = a + 1 /\ y = a + 1 + 1
    OBVIOUS
  <2>2. <<x>> \in Seq(Nat) /\ <<x, y>> \in Seq(Nat)
    OBVIOUS
  <2> QED BY <1>1, <2>1, <2>2
<1>3. Len(s) = a /\ Len(t) = 1 /\ t[1] = a + 1 /\ Len(u) = 2 /\ u[1] = a + 1 /\ u[2] = a + 1 + 1 /\ \A i \in 1 .. a : s[i] = i
  BY <1>1, <1>2 DEF Counted
<1>4. s \o t = Counted(a + 1)
  <2>1. PICK w : w = s \o t
    OBVIOUS
  <2>2. w = [i \in 1 .. (Len(s) + Len(t)) |-> IF i <= Len(s) THEN s[i] ELSE t[i - Len(s)]]
    <3>1. /\ w \in Seq(Nat) /\ Len(w) = Len(s) + Len(t)
          /\ \A i \in 1 .. (Len(s) + Len(t)) : w[i] = IF i <= Len(s) THEN s[i] ELSE t[i - Len(s)]
      BY <2>1, ConcatProperties
    <3>2. w = [i \in 1 .. Len(w) |-> w[i]]
      BY <3>1
    <3> QED BY <3>1, <3>2
  <2>3. \A i \in 1 .. a + 1 : (i <= a => i \in 1 .. a) /\ (~(i <= a) => i - a = 1 /\ i = a + 1)
    OBVIOUS
  <2>4. Len(s) + Len(t) = a + 1
    BY <1>3
  <2>5. w = [i \in 1 .. a + 1 |-> IF i <= a THEN s[i] ELSE t[i - a]]
    BY <1>3, <2>2, <2>4
  <2>6. \A i \in 1 .. a + 1 : (IF i <= a THEN s[i] ELSE t[i - a]) = i
    BY <1>3, <2>3
  <2> QED BY <2>1, <2>5, <2>6 DEF Counted
<1>5. s \o u = Counted(a + 1 + 1)
  <2>1. PICK w : w = s \o u
    OBVIOUS
  <2>2. w = [i \in 1 .. (Len(s) + Len(u)) |-> IF i <= Len(s) THEN s[i] ELSE u[i - Len(s)]]
    <3>1. /\ w \in Seq(Nat) /\ Len(w) = Len(s) + Len(u)
          /\ \A i \in 1 .. (Len(s) + Len(u)) : w[i] = IF i <= Len(s) THEN s[i] ELSE u[i - Len(s)]
      BY <2>1, ConcatProperties
    <3>2. w = [i \in 1 .. Len(w) |-> w[i]]
      BY <3>1
    <3> QED BY <3>1, <3>2
  <2>3. \A i \in 1 .. a + 1 + 1 : (i <= a => i \in 1 .. a) /\ (~(i <= a) => (i - a = 1 /\ i = a + 1) \/ (i - a = 2 /\ i = a + 1 + 1))
    OBVIOUS
  <2>4. Len(s) + Len(u) = a + 1 + 1
    BY <1>3
  <2>5. w = [i \in 1 .. a + 1 + 1 |-> IF i <= a THEN s[i] ELSE u[i - a]]
    BY <1>3, <2>2, <2>4
  <2>6. \A i \in 1 .. a + 1 + 1 : (IF i <= a THEN s[i] ELSE u[i - a]) = i
    BY <1>3, <2>3
  <2> QED BY <2>1, <2>5, <2>6 DEF Counted
<1> QED BY <1>2, <1>4, <1>5

(* Read spread by spread, a chain counts the pages. *)
LEMMA ReadInOrder ==
  ASSUME NEW S, SpreadsOK(S), NEW n \in Nat, NEW rtl \in BOOLEAN, Chain(S, n, rtl),
         NEW R, R = [k \in DOMAIN S |-> ReadOf(S[k], rtl)]
  PROVE  FlattenSeq(R) = Counted(n)
<1>1. PICK N \in Nat : N = Len(S) /\ N >= 1 /\ DOMAIN S = 1 .. N
  BY DEF SpreadsOK
<1>2. DOMAIN R = 1 .. N /\ Len(R) = N
  BY <1>1
<1>3. PICK f : f = CHOOSE g : IsFlat(R, N, g)
  OBVIOUS
<1>4. FlattenSeq(R) = f[N]
  <2>1. f = CHOOSE g : IsFlat(R, Len(R), g)
    BY <1>2, <1>3
  <2>2. Len(R) # 0
    BY <1>1, <1>2
  <2>3. FlattenSeq(R) = (CHOOSE g : IsFlat(R, Len(R), g))[Len(R)]
    BY <2>2 DEF FlattenSeq, IsFlat, FlatTurn
  <2> QED BY <1>2, <2>1, <2>3
<1>5. IsFlat(R, N, f)
  BY <1>3, FlatExists
<1>6. \A k \in 1 .. N : f[k] = FlatTurn(R, f, k)
  BY <1>5 DEF IsFlat
<1>7. ASSUME NEW k \in 1 .. N
      PROVE  \E a \in Nat : /\ a = FirstOf(S[k], rtl)
                            /\ \/ R[k] = <<a>> /\ LastOf(S[k], rtl) = a
                               \/ R[k] = <<a, a + 1>> /\ LastOf(S[k], rtl) = a + 1
  <2>1. PICK s : s = S[k]
    OBVIOUS
  <2>2. s \in SpreadRecords /\ Paged(s)
    BY <1>1, <2>1 DEF SpreadsOK
  <2>3. Early(s, rtl) # 0 /\ Late(s, rtl) # 0 => Late(s, rtl) = Early(s, rtl) + 1
    BY <1>1, <2>1 DEF Chain
  <2>4. R[k] = ReadOf(s, rtl)
    BY <1>1, <2>1
  <2> QED BY <2>1, <2>2, <2>3, <2>4, ReadFacts
<1> DEFINE G == {k \in Nat : k \in 1 .. N => LastOf(S[k], rtl) \in Nat /\ f[k] = Counted(LastOf(S[k], rtl))}
<1>8. 0 \in G
  OBVIOUS
<1>9. ASSUME NEW k \in 1 .. N, k - 1 \in G PROVE k \in G
  <2>1. PICK a \in Nat : /\ a = FirstOf(S[k], rtl)
                         /\ \/ R[k] = <<a>> /\ LastOf(S[k], rtl) = a
                            \/ R[k] = <<a, a + 1>> /\ LastOf(S[k], rtl) = a + 1
    BY <1>7
  <2>2. LastOf(S[k], rtl) \in Nat /\ k \in Nat
    BY <2>1
  <2>3. CASE k = 1
    <3>1. f[k] = R[k]
      BY <1>6, <2>3 DEF FlatTurn
    <3>2. a = 1
      BY <2>1, <2>3 DEF Chain
    <3>3. <<1>> = Counted(1) /\ <<1, 2>> = Counted(2)
      BY DEF Counted
    <3>4. f[k] = Counted(LastOf(S[k], rtl))
      BY <2>1, <3>1, <3>2, <3>3
    <3> QED BY <2>2, <3>4
  <2>4. CASE k # 1
    <3>1. PICK j, z : j \in Nat /\ j = k - 1 /\ j \in 1 .. N /\ j \in 1 .. N - 1 /\ j + 1 = k /\ z = LastOf(S[j], rtl)
      BY <1>1, <2>4
    <3>2. z \in Nat /\ f[j] = Counted(z)
      BY <1>9, <3>1
    <3>3. a = z + 1
      BY <1>1, <2>1, <3>1 DEF Chain
    <3>4. f[k] = Counted(z) \o R[k]
      BY <1>6, <2>4, <3>1, <3>2 DEF FlatTurn
    <3>5. f[k] = Counted(LastOf(S[k], rtl))
      BY <2>1, <3>2, <3>3, <3>4, CountOn
    <3> QED BY <2>2, <3>5
  <2> QED BY <2>3, <2>4
<1>10. G \in SUBSET Nat
  OBVIOUS
<1>11. \A k \in 1 .. N : k - 1 \in G => k \in G
  BY <1>9
<1> HIDE DEF G
<1>12. N \in G
  BY <1>8, <1>10, <1>11, UpTo
<1> USE DEF G
<1>13. N \in 1 .. N /\ LastOf(S[N], rtl) = n
  BY <1>1 DEF Chain
<1> QED BY <1>4, <1>12, <1>13

(***************************************************************************)
(* Frames and moves                                                        *)
(***************************************************************************)

Sides == {"left", "right", "center"}
FrameRecords == [page : Int, hidden : BOOLEAN]
FixedRecords == [book : Layouts, index : Nat, side : Sides \cup {""}, portrait : BOOLEAN, tall : BOOLEAN,
                 left : FrameRecords, right : FrameRecords, center : FrameRecords, reported : Int,
                 orderly : BOOLEAN, from : [page : Int, by : Int]]

(* A call of goToSpread that waits for what its spread has. *)
MoveOK(t) ==
    /\ t \in [id : {t.id}, spread : SpreadRecords, side : Sides, rest : {t.rest}, stage : Sides \cup {"sections"}]
    /\ Paged(t.spread) /\ (t.side = "center" => t.spread.center # 0)
    /\ t.stage = "center" => t.spread.center # 0
    /\ t.stage = "left" => t.spread.center = 0 /\ t.spread.left # 0
    /\ t.stage = "right" => t.spread.center = 0 /\ t.spread.right # 0

(* Nothing is left of another spread while a call waits for its frames. *)
Under(F, t) ==
    /\ t.stage \in {"left", "center"} => F.left = NoFrame /\ F.right = NoFrame /\ F.center = NoFrame
    /\ t.stage = "right" => F.center = NoFrame /\ F.left.page = t.spread.left

(* A spread on the screen: both pages, or one of them in a tall window. *)
InPlace(F, s) ==
    IF s.center # 0
    THEN F.center.page = s.center /\ ~F.center.hidden /\ F.left = NoFrame /\ F.right = NoFrame /\ F.side = "center"
    ELSE /\ F.center = NoFrame /\ F.left.page = s.left /\ F.right.page = s.right
         /\ (F.side = "left" /\ s.left # 0) \/ (F.side = "right" /\ s.right # 0)
         /\ IF F.portrait THEN \/ s.left # 0 /\ ~F.left.hidden /\ F.right.hidden
                               \/ s.right # 0 /\ ~F.right.hidden /\ F.left.hidden
            ELSE ~F.left.hidden /\ ~F.right.hidden

SeenOn(F) == {g.page : g \in {g \in {F.left, F.right, F.center} : g.page > 0 /\ ~g.hidden}}

(* A turn ends at the next page; while it waits, the page it will show is the next one. *)
EnteredBy(by, rtl) == IF (by = 1) = rtl THEN "right" ELSE "left"
Reached(s, by, rtl) == IF by = 1 THEN FirstOf(s, rtl) ELSE LastOf(s, rtl)
TurnOK(F, M) ==
    LET q == F.from.page + F.from.by
    IN  /\ F.index # 0 /\ F.from.by \in {1, -1}
        /\ M = {} /\ F.portrait => IF q \in 1 .. Len(F.book.pages) THEN SeenOn(F) = {q} /\ F.reported = q
                                   ELSE SeenOn(F) = {F.from.page}
        /\ \A t \in M : t.side = EnteredBy(F.from.by, F.book.rtl) /\ q = Reached(t.spread, F.from.by, F.book.rtl)

(* The frames are those of the spread that was asked for. *)
ShowOK(F, M) ==
    LET S == Spreads(F.book)
    IN  /\ F \in FixedRecords /\ F.index <= Len(S) /\ \A t \in M : MoveOK(t)
        /\ F.index = 0 => M = {} /\ F.left = NoFrame /\ F.right = NoFrame /\ F.center = NoFrame /\ F.side = ""
        /\ F.orderly => /\ \A t, u \in M : t = u
                        /\ \A t \in M : t.spread = S[F.index] /\ Under(F, t)
                        /\ M = {} /\ F.index # 0 => InPlace(F, S[F.index])

FixedOK(F, M) ==
    /\ ShowOK(F, M)
    /\ F.orderly /\ F.from.page # 0 /\ ~Doubled(F.book) => TurnOK(F, M)

FixedInv == FixedOK(fixed, moves)

(* The books and their spreads. *)
LEMMA LayoutFacts ==
  ASSUME NEW b \in Layouts
  PROVE  /\ b.rtl \in BOOLEAN /\ b.pages \in Seq(Properties) /\ b.pages # <<>> /\ SpreadsOK(Spreads(b))
         /\ b.spread = "none" \/ ~Doubled(b) => Chain(Spreads(b), Len(b.pages), b.rtl)
<1>1. b.rtl \in BOOLEAN /\ b.pages \in Seq(Properties) /\ b.pages # <<>>
  BY LayoutsAssumption DEF Properties
<1> QED BY <1>1, SpreadsFacts

LEMMA SpreadAt ==
  ASSUME NEW b \in Layouts, NEW i \in Nat, i # 0, i <= Len(Spreads(b)), NEW s, s = Spreads(b)[i]
  PROVE  s \in SpreadRecords /\ Paged(s) /\ s.left \in Nat /\ s.right \in Nat /\ s.center \in Nat
<1>1. PICK S : S = Spreads(b) /\ SpreadsOK(S)
  BY LayoutFacts
<1>2. i \in 1 .. Len(S) /\ S \in Seq(SpreadRecords) /\ s = S[i]
  BY <1>1 DEF SpreadsOK
<1>3. s \in SpreadRecords /\ Paged(s)
  BY <1>1, <1>2 DEF SpreadsOK
<1> QED BY <1>3 DEF SpreadRecords

LEMMA FrameFacts ==
  /\ NoFrame \in FrameRecords /\ NoFrame.page = -1 /\ NoFrame.hidden = FALSE
  /\ \A n \in Nat : Framed(n) \in FrameRecords /\ Framed(n).page = n /\ Framed(n).hidden = FALSE
BY DEF NoFrame, Framed, FrameRecords

LEMMA FieldTypes ==
  ASSUME NEW F \in FixedRecords
  PROVE  /\ F.book \in Layouts /\ F.index \in Nat /\ F.side \in Sides \cup {""} /\ F.portrait \in BOOLEAN
         /\ F.tall \in BOOLEAN /\ F.left \in FrameRecords /\ F.right \in FrameRecords /\ F.center \in FrameRecords
         /\ F.reported \in Int /\ F.orderly \in BOOLEAN /\ F.from \in [page : Int, by : Int]
BY DEF FixedRecords

(* Everything but the frames, the side, the window and the report. *)
Alike(F, G) == G.book = F.book /\ G.index = F.index /\ G.orderly = F.orderly /\ G.from = F.from

(* #render shows the page of the side. *)
LEMMA RenderFacts ==
  ASSUME NEW F \in FixedRecords, NEW side \in Sides, NEW R, R = Render(F, side)
  PROVE  /\ R \in FixedRecords /\ Alike(F, R) /\ R.side = F.side /\ R.reported = F.reported
         /\ R.left.page = F.left.page /\ R.right.page = F.right.page /\ R.center.page = F.center.page
         /\ F.left = NoFrame => R.left = NoFrame
         /\ F.right = NoFrame => R.right = NoFrame
         /\ F.center = NoFrame => R.center = NoFrame
         /\ F.center # NoFrame /\ side # "left" => ~R.center.hidden
         /\ F.center = NoFrame /\ F.left # NoFrame => (R.left.hidden <=> R.portrait /\ side # "left")
         /\ F.center = NoFrame /\ F.right # NoFrame => (R.right.hidden <=> R.portrait /\ side # "right")
<1>1. PICK p \in BOOLEAN : p = (F.book.spread \notin {"both", "portrait"} /\ F.tall)
  OBVIOUS
<1>2. side # ""
  BY DEF Sides
<1>3. CASE F.center # NoFrame
  <2>0. PICK h \in BOOLEAN : h = (p /\ side = "left")
    OBVIOUS
  <2>1. PICK c : c = [F.center EXCEPT !.hidden = h]
    OBVIOUS
  <2>2. c \in FrameRecords /\ c.page = F.center.page /\ (side # "left" => ~c.hidden)
    BY <2>0, <2>1, FieldTypes DEF FrameRecords
  <2>3. R = [F EXCEPT !.portrait = p, !.center = c]
    BY <1>1, <1>2, <1>3, <2>0, <2>1 DEF Render
  <2>4. /\ R \in FixedRecords /\ R.center = c /\ R.portrait = p /\ R.left = F.left /\ R.right = F.right
        /\ R.book = F.book /\ R.index = F.index /\ R.orderly = F.orderly /\ R.from = F.from
        /\ R.side = F.side /\ R.reported = F.reported
    BY <1>1, <2>2, <2>3 DEF FixedRecords
  <2> QED BY <1>3, <2>2, <2>4 DEF Alike
<1>4. CASE F.center = NoFrame
  <2>1. PICK h \in BOOLEAN, k \in BOOLEAN : h = (p /\ "left" # side) /\ k = (p /\ "right" # side)
    OBVIOUS
  <2>2. PICK l, r : /\ l = IF F.left = NoFrame THEN NoFrame ELSE [F.left EXCEPT !.hidden = h]
                    /\ r = IF F.right = NoFrame THEN NoFrame ELSE [F.right EXCEPT !.hidden = k]
    OBVIOUS
  <2>3. R = [F EXCEPT !.portrait = p, !.left = l, !.right = r]
    BY <1>1, <1>2, <1>4, <2>1, <2>2 DEF Render
  <2>4. /\ l \in FrameRecords /\ l.page = F.left.page /\ (F.left = NoFrame => l = NoFrame)
        /\ F.left # NoFrame => l.hidden = h
    BY <2>1, <2>2, FieldTypes, FrameFacts DEF FrameRecords
  <2>5. /\ r \in FrameRecords /\ r.page = F.right.page /\ (F.right = NoFrame => r = NoFrame)
        /\ F.right # NoFrame => r.hidden = k
    BY <2>1, <2>2, FieldTypes, FrameFacts DEF FrameRecords
  <2>6. /\ R \in FixedRecords /\ R.center = F.center /\ R.portrait = p /\ R.left = l /\ R.right = r
        /\ R.book = F.book /\ R.index = F.index /\ R.orderly = F.orderly /\ R.from = F.from
        /\ R.side = F.side /\ R.reported = F.reported
    BY <1>1, <2>3, <2>4, <2>5 DEF FixedRecords
  <2>7. F.left # NoFrame => (R.left.hidden <=> R.portrait /\ side # "left")
    BY <2>1, <2>4, <2>6
  <2>8. F.right # NoFrame => (R.right.hidden <=> R.portrait /\ side # "right")
    BY <2>1, <2>5, <2>6
  <2> QED BY <1>4, <2>4, <2>5, <2>6, <2>7, <2>8 DEF Alike
<1> QED BY <1>3, <1>4

(* The pages a reader sees. *)
LEMMA SeenFacts ==
  ASSUME NEW F \in FixedRecords, NEW x
  PROVE  x \in SeenOn(F) <=> \/ x = F.left.page /\ x > 0 /\ ~F.left.hidden
                             \/ x = F.right.page /\ x > 0 /\ ~F.right.hidden
                             \/ x = F.center.page /\ x > 0 /\ ~F.center.hidden
BY DEF SeenOn

(* The page that a tall window shows of a spread. *)
PageOn(s, side) ==
    IF s.center # 0 THEN s.center
    ELSE IF s.left = 0 THEN s.right ELSE IF s.right = 0 THEN s.left ELSE IF side = "left" THEN s.left ELSE s.right

LEMMA PageReached ==
  ASSUME NEW s \in SpreadRecords, Paged(s), NEW rtl \in BOOLEAN, NEW by \in {1, -1}
  PROVE  PageOn(s, EnteredBy(by, rtl)) = Reached(s, by, rtl) /\ EnteredBy(by, rtl) \in Sides
<1>1. CASE rtl
  BY <1>1 DEF PageOn, EnteredBy, Reached, FirstOf, LastOf, Early, Late, Paged, Sides
<1>2. CASE ~rtl
  BY <1>2 DEF PageOn, EnteredBy, Reached, FirstOf, LastOf, Early, Late, Paged, Sides
<1> QED BY <1>1, <1>2

(* A spread in place is on the screen. *)
LEMMA InPlaceSeen ==
  ASSUME NEW F \in FixedRecords, NEW s \in SpreadRecords, Paged(s), InPlace(F, s)
  PROVE  /\ F.center.page = (IF s.center # 0 THEN s.center ELSE -1)
         /\ s.center = 0 => F.left.page = s.left /\ F.right.page = s.right
         /\ \E x : x \in SeenOn(F)
<1>1. s.center \in Nat /\ s.left \in Nat /\ s.right \in Nat
  BY DEF SpreadRecords
<1>2. CASE s.center # 0
  <2>1. F.center.page = s.center /\ ~F.center.hidden /\ s.center > 0
    BY <1>1, <1>2 DEF InPlace
  <2>2. s.center \in SeenOn(F)
    BY <2>1, SeenFacts
  <2> QED BY <1>2, <2>1, <2>2
<1>3. CASE s.center = 0
  <2>1. F.center = NoFrame /\ F.left.page = s.left /\ F.right.page = s.right
    BY <1>3 DEF InPlace
  <2>2. (s.left # 0 /\ ~F.left.hidden) \/ (s.right # 0 /\ ~F.right.hidden)
    BY <1>3 DEF InPlace, Paged
  <2>3. s.left \in SeenOn(F) \/ s.right \in SeenOn(F)
    BY <1>1, <2>1, <2>2, SeenFacts
  <2> QED BY <1>3, <2>1, <2>3, FrameFacts
<1> QED BY <1>1, <1>2, <1>3

(* In a tall window it is one page; the other page of the spread, if there is one, is hidden. *)
LEMMA TallSeen ==
  ASSUME NEW F \in FixedRecords, NEW s \in SpreadRecords, Paged(s), InPlace(F, s), NEW v \in {"left", "right"},
         s.center = 0 => IF v = "left" THEN s.left # 0 /\ ~F.left.hidden /\ (F.right.hidden \/ s.right = 0)
                                       ELSE s.right # 0 /\ ~F.right.hidden /\ (F.left.hidden \/ s.left = 0)
  PROVE  SeenOn(F) = {IF s.center # 0 THEN s.center ELSE IF v = "left" THEN s.left ELSE s.right}
<1>1. s.center \in Nat /\ s.left \in Nat /\ s.right \in Nat
  BY DEF SpreadRecords
<1>2. CASE s.center # 0
  <2>1. /\ F.center.page = s.center /\ ~F.center.hidden /\ s.center > 0 /\ F.left = NoFrame /\ F.right = NoFrame
        /\ F.left.page = -1 /\ F.right.page = -1
    BY <1>1, <1>2, FrameFacts DEF InPlace
  <2>2. \A x : x \in SeenOn(F) <=> x = s.center
    BY <2>1, SeenFacts
  <2> QED BY <1>2, <2>2
<1>3. CASE s.center = 0 /\ v = "left"
  <2>1. /\ F.center.page = -1 /\ F.left.page = s.left /\ F.right.page = s.right
        /\ s.left > 0 /\ ~F.left.hidden /\ (F.right.hidden \/ s.right = 0)
    BY <1>1, <1>3, FrameFacts DEF InPlace
  <2>2. \A x : x \in SeenOn(F) <=> x = s.left
    BY <2>1, SeenFacts
  <2> QED BY <1>3, <2>2
<1>4. CASE s.center = 0 /\ v # "left"
  <2>1. /\ F.center.page = -1 /\ F.left.page = s.left /\ F.right.page = s.right
        /\ s.right > 0 /\ ~F.right.hidden /\ (F.left.hidden \/ s.left = 0)
    BY <1>1, <1>4, FrameFacts DEF InPlace
  <2>2. \A x : x \in SeenOn(F) <=> x = s.right
    BY <2>1, SeenFacts
  <2> QED BY <1>4, <2>2
<1> QED BY <1>2, <1>3, <1>4

(* The frames have the pages of a spread. *)
Filled(F, s) ==
    IF s.center # 0 THEN F.center.page = s.center /\ F.left = NoFrame /\ F.right = NoFrame
    ELSE F.center = NoFrame /\ F.left.page = s.left /\ F.right.page = s.right

LEMMA IndexFacts ==
  ASSUME NEW F \in FixedRecords, F.index # 0, F.index <= Len(Spreads(F.book)), NEW s, s = Spreads(F.book)[F.index]
  PROVE  /\ IndexOfPage(F) \in Int
         /\ IndexOfPage(F) = IF s.center # 0 THEN s.center
                             ELSE IF F.side = "left" THEN (IF s.left # 0 THEN s.left ELSE s.right)
                             ELSE (IF s.right # 0 THEN s.right ELSE s.left)
<1>1. s.center \in Nat /\ s.left \in Nat /\ s.right \in Nat
  BY FieldTypes, SpreadAt
<1>2. IndexOfPage(F) = IF s.center # 0 THEN s.center
                       ELSE IF F.side = "left" THEN (IF s.left # 0 THEN s.left ELSE s.right)
                       ELSE (IF s.right # 0 THEN s.right ELSE s.left)
  BY DEF IndexOfPage
<1> QED BY <1>1, <1>2

(* The end of goToSpread. *)
LEMMA OpenedFacts ==
  ASSUME NEW F \in FixedRecords, F.index # 0, F.index <= Len(Spreads(F.book)), NEW s, s = Spreads(F.book)[F.index],
         NEW side \in Sides, NEW G, G = Opened(F, side)
  PROVE  /\ G \in FixedRecords /\ Alike(F, G)
         /\ Filled(F, s) /\ (side = "center" => s.center # 0) =>
              /\ InPlace(G, s)
              /\ G.portrait => SeenOn(G) = {PageOn(s, side)} /\ G.reported = PageOn(s, side)
<1>1. PICK z : z = IF F.center # NoFrame THEN "center"
                   ELSE IF F.left.page = 0 THEN "right" ELSE IF F.right.page = 0 THEN "left" ELSE side
  OBVIOUS
<1>2. z \in Sides
  BY <1>1 DEF Sides
<1>3. PICK E : E = [F EXCEPT !.side = z]
  OBVIOUS
<1>4. /\ E \in FixedRecords /\ Alike(F, E) /\ E.side = z
      /\ E.left = F.left /\ E.right = F.right /\ E.center = F.center
  BY <1>2, <1>3 DEF FixedRecords, Alike
<1>5. PICK R : R = Render(E, z)
  OBVIOUS
<1>6. /\ R \in FixedRecords /\ Alike(E, R) /\ R.side = z
      /\ R.left.page = F.left.page /\ R.right.page = F.right.page /\ R.center.page = F.center.page
      /\ F.left = NoFrame => R.left = NoFrame
      /\ F.right = NoFrame => R.right = NoFrame
      /\ F.center = NoFrame => R.center = NoFrame
      /\ F.center # NoFrame /\ z # "left" => ~R.center.hidden
      /\ F.center = NoFrame /\ F.left # NoFrame => (R.left.hidden <=> R.portrait /\ z # "left")
      /\ F.center = NoFrame /\ F.right # NoFrame => (R.right.hidden <=> R.portrait /\ z # "right")
  BY <1>2, <1>4, <1>5, RenderFacts
<1>7. R.book = F.book /\ R.index = F.index
  BY <1>4, <1>6 DEF Alike
<1>8. PICK n : n = IndexOfPage(R)
  OBVIOUS
<1>9. n \in Int /\ n = IF s.center # 0 THEN s.center
                       ELSE IF z = "left" THEN (IF s.left # 0 THEN s.left ELSE s.right)
                       ELSE (IF s.right # 0 THEN s.right ELSE s.left)
  BY <1>6, <1>7, <1>8, IndexFacts
<1>10. G = [R EXCEPT !.reported = n]
  BY <1>1, <1>3, <1>5, <1>8 DEF Opened
<1>11. /\ G \in FixedRecords /\ Alike(R, G) /\ G.left = R.left /\ G.right = R.right /\ G.center = R.center
       /\ G.side = R.side /\ G.portrait = R.portrait /\ G.reported = n
  BY <1>6, <1>9, <1>10 DEF FixedRecords, Alike
<1>12. Alike(F, G)
  BY <1>4, <1>6, <1>11 DEF Alike
<1>13. s \in SpreadRecords /\ Paged(s) /\ s.center \in Nat /\ s.left \in Nat /\ s.right \in Nat
  BY FieldTypes, SpreadAt
<1>14. ASSUME Filled(F, s), side = "center" => s.center # 0
       PROVE  /\ InPlace(G, s)
              /\ G.portrait => SeenOn(G) = {PageOn(s, side)} /\ G.reported = PageOn(s, side)
  <2>1. CASE s.center # 0
    <3>1. F.center # NoFrame /\ F.left = NoFrame /\ F.right = NoFrame /\ F.center.page = s.center
      BY <1>13, <1>14, <2>1, FrameFacts DEF Filled
    <3>2. z = "center" /\ n = s.center
      BY <1>1, <1>9, <2>1, <3>1
    <3>3. InPlace(G, s)
      BY <1>6, <1>11, <2>1, <3>1, <3>2 DEF InPlace
    <3>4. SeenOn(G) = {s.center}
      BY <1>11, <1>13, <2>1, <3>3, TallSeen
    <3> QED BY <1>11, <2>1, <3>2, <3>3, <3>4 DEF PageOn
  <2>2. CASE s.center = 0
    <3>1. F.center = NoFrame /\ F.left # NoFrame /\ F.right # NoFrame /\ F.left.page = s.left /\ F.right.page = s.right
      BY <1>13, <1>14, <2>2, FrameFacts DEF Filled
    <3>2. z \in {"left", "right"} /\ (z = "left" => s.left # 0) /\ (z = "right" => s.right # 0)
      BY <1>1, <1>2, <1>13, <1>14, <2>2, <3>1 DEF Paged, Sides
    <3>3. InPlace(G, s)
      BY <1>6, <1>11, <2>2, <3>1, <3>2 DEF InPlace
    <3>4. PageOn(s, side) = IF z = "left" THEN s.left ELSE s.right
      BY <1>1, <1>13, <1>14, <2>2, <3>1 DEF PageOn, Sides, Paged
    <3>5. n = PageOn(s, side)
      BY <1>9, <2>2, <3>2, <3>4
    <3>6. ASSUME G.portrait PROVE SeenOn(G) = {PageOn(s, side)}
      <4>1. IF z = "left" THEN s.left # 0 /\ ~G.left.hidden /\ G.right.hidden
                          ELSE s.right # 0 /\ ~G.right.hidden /\ G.left.hidden
        BY <1>6, <1>11, <3>1, <3>2, <3>6
      <4> QED BY <1>11, <1>13, <2>2, <3>2, <3>3, <3>4, <4>1, TallSeen
    <3> QED BY <1>11, <3>3, <3>5, <3>6
  <2> QED BY <2>1, <2>2
<1> QED BY <1>11, <1>12, <1>14

(* A side that has a page to show. *)
HasPage(s, side) == (s.center # 0 /\ side # "left") \/ (side = "left" /\ s.left # 0) \/ (side = "right" /\ s.right # 0)

LEMMA RenderKeeps ==
  ASSUME NEW F, NEW M, ShowOK(F, M), NEW side \in Sides, NEW R, R = Render(F, side),
         F.orderly /\ M = {} /\ F.index # 0 => HasPage(Spreads(F.book)[F.index], side)
  PROVE  ShowOK(R, M) /\ Alike(F, R)
<1>1. F \in FixedRecords
  BY DEF ShowOK
<1>2. /\ R \in FixedRecords /\ Alike(F, R) /\ R.side = F.side
      /\ R.left.page = F.left.page /\ R.right.page = F.right.page /\ R.center.page = F.center.page
      /\ F.left = NoFrame => R.left = NoFrame
      /\ F.right = NoFrame => R.right = NoFrame
      /\ F.center = NoFrame => R.center = NoFrame
      /\ F.center # NoFrame /\ side # "left" => ~R.center.hidden
      /\ F.center = NoFrame /\ F.left # NoFrame => (R.left.hidden <=> R.portrait /\ side # "left")
      /\ F.center = NoFrame /\ F.right # NoFrame => (R.right.hidden <=> R.portrait /\ side # "right")
  BY <1>1, RenderFacts
<1>3. R.book = F.book /\ R.index = F.index /\ R.orderly = F.orderly
  BY <1>2 DEF Alike
<1>4. ASSUME NEW t \in M, Under(F, t) PROVE Under(R, t)
  BY <1>2, <1>4 DEF Under
<1>5. ASSUME F.orderly, M = {}, F.index # 0, NEW s, s = Spreads(F.book)[F.index] PROVE InPlace(R, s)
  <2>1. InPlace(F, s) /\ HasPage(s, side)
    BY <1>5 DEF ShowOK
  <2>2. s.center \in Nat /\ s.left \in Nat /\ s.right \in Nat /\ Paged(s)
    BY <1>1, <1>5, FieldTypes, SpreadAt DEF ShowOK
  <2>3. CASE s.center # 0
    <3>0. side # "left"
      BY <2>1, <2>2, <2>3 DEF HasPage, Paged
    <3>1. F.center # NoFrame /\ F.left = NoFrame /\ F.right = NoFrame /\ F.center.page = s.center /\ F.side = "center"
      BY <2>1, <2>2, <2>3, FrameFacts DEF InPlace
    <3> QED BY <1>2, <2>3, <3>0, <3>1 DEF InPlace
  <2>4. CASE s.center = 0
    <3>1. F.center = NoFrame /\ F.left # NoFrame /\ F.right # NoFrame /\ F.left.page = s.left /\ F.right.page = s.right
      BY <2>1, <2>2, <2>4, FrameFacts DEF InPlace
    <3>2. (F.side = "left" /\ s.left # 0) \/ (F.side = "right" /\ s.right # 0)
      BY <2>1, <2>4 DEF InPlace
    <3>3. (side = "left" /\ s.left # 0) \/ (side = "right" /\ s.right # 0)
      BY <2>1, <2>4 DEF HasPage
    <3> QED BY <1>2, <2>4, <3>1, <3>2, <3>3 DEF InPlace
  <2> QED BY <2>3, <2>4
<1> QED BY <1>2, <1>3, <1>4, <1>5 DEF ShowOK

(* Turning the window. *)
LEMMA ResizeKeeps ==
  ASSUME NEW F, NEW M, FixedOK(F, M), NEW F2, F2 = Render([F EXCEPT !.tall = ~@, !.from = [page |-> 0, by |-> 0]], F.side)
  PROVE  FixedOK(F2, M)
<1>1. F \in FixedRecords /\ ShowOK(F, M)
  BY DEF FixedOK, ShowOK
<1>2. PICK E : E = [F EXCEPT !.tall = ~@, !.from = [page |-> 0, by |-> 0]]
  OBVIOUS
<1>3. /\ E \in FixedRecords /\ E.from = [page |-> 0, by |-> 0] /\ E.book = F.book /\ E.index = F.index /\ E.side = F.side
      /\ E.left = F.left /\ E.right = F.right /\ E.center = F.center /\ E.orderly = F.orderly /\ E.portrait = F.portrait
  <2>1. PICK h, z : h \in BOOLEAN /\ h = ~F.tall /\ z = [page |-> 0, by |-> 0]
    OBVIOUS
  <2>2. z \in [page : Int, by : Int]
    BY <2>1
  <2>3. E = [F EXCEPT !.tall = h, !.from = z]
    BY <1>2, <2>1, Zenon
  <2> QED BY <1>1, <2>1, <2>2, <2>3 DEF FixedRecords
<1>4. E.from.page = 0
  BY <1>3
<1>5. ShowOK(E, M)
  BY <1>1, <1>3 DEF ShowOK, Under, InPlace
<1>6. CASE F.side = ""
  <2>1. F2 = E
    BY <1>2, <1>6 DEF Render
  <2> QED BY <1>4, <1>5, <2>1 DEF FixedOK
<1>7. CASE F.side # ""
  <2>1. F.side \in Sides
    BY <1>1, <1>7, FieldTypes
  <2>2. E.orderly /\ M = {} /\ E.index # 0 => HasPage(Spreads(E.book)[E.index], F.side)
    BY <1>3, <1>5 DEF ShowOK, InPlace, HasPage
  <2>3. F2 = Render(E, F.side)
    BY <1>2
  <2>4. ShowOK(F2, M) /\ Alike(E, F2)
    BY <1>5, <2>1, <2>2, <2>3, RenderKeeps
  <2>5. F2.from.page = 0
    BY <1>4, <2>4 DEF Alike
  <2> QED BY <2>4, <2>5 DEF FixedOK
<1> QED BY <1>6, <1>7

(* A call of an orderly element is the only one. *)
LEMMA OnlyMove ==
  ASSUME NEW F, NEW M, ShowOK(F, M), NEW t \in M
  PROVE  /\ F \in FixedRecords /\ MoveOK(t) /\ F.index # 0 /\ F.index <= Len(Spreads(F.book))
         /\ F.orderly => M = {t} /\ t.spread = Spreads(F.book)[F.index] /\ Under(F, t)
<1>1. /\ F \in FixedRecords /\ MoveOK(t) /\ F.index # 0 /\ F.index <= Len(Spreads(F.book))
      /\ F.orderly => (\A u \in M : t = u) /\ t.spread = Spreads(F.book)[F.index] /\ Under(F, t)
  BY DEF ShowOK
<1>2. F.orderly => M = {t}
  BY <1>1
<1> QED BY <1>1, <1>2

(* Another section of the spread is awaited. *)
LEMMA SectionLoadsKeeps ==
  ASSUME NEW F, NEW M, FixedOK(F, M), NEW t \in M, NEW r, NEW M2, t.stage = "sections",
         M2 = (M \ {t}) \cup {[t EXCEPT !.rest = r]}
  PROVE  FixedOK(F, M2)
<1>1. ShowOK(F, M)
  BY DEF FixedOK
<1>2. PICK u : u = [t EXCEPT !.rest = r]
  OBVIOUS
<1>3. MoveOK(t)
  BY <1>1, OnlyMove
<1>4. /\ u \in [id : {u.id}, spread : SpreadRecords, side : Sides, rest : {u.rest}, stage : Sides \cup {"sections"}]
      /\ u.spread = t.spread /\ u.side = t.side /\ u.stage = "sections"
  <2>1. t \in [id : {t.id}, spread : SpreadRecords, side : Sides, rest : {t.rest}, stage : Sides \cup {"sections"}]
    BY <1>3 DEF MoveOK
  <2>2. u.id = t.id /\ u.spread = t.spread /\ u.side = t.side /\ u.stage = t.stage /\ u.rest = r
    BY <1>2, <2>1
  <2>3. u \in [id : {t.id}, spread : SpreadRecords, side : Sides, rest : {r}, stage : Sides \cup {"sections"}]
    BY <1>2, <2>1
  <2> QED BY <2>2, <2>3
<1>5. MoveOK(u)
  BY <1>3, <1>4 DEF MoveOK
<1>6. F.orderly => M2 = {u}
  BY <1>1, <1>2, OnlyMove
<1>7. /\ F \in FixedRecords /\ F.index # 0 /\ F.index <= Len(Spreads(F.book))
      /\ F.orderly => M = {t} /\ t.spread = Spreads(F.book)[F.index]
  BY <1>1, OnlyMove
<1>8. Under(F, u)
  BY <1>4 DEF Under
<1>9. ShowOK(F, M2)
  <2>1. \A v \in M2 : MoveOK(v)
    BY <1>1, <1>2, <1>5 DEF ShowOK
  <2> QED BY <1>4, <1>6, <1>7, <1>8, <2>1 DEF ShowOK
<1>10. ASSUME F.orderly, F.from.page # 0, ~Doubled(F.book) PROVE TurnOK(F, M2)
  <2>1. TurnOK(F, M) /\ M = {t} /\ M2 = {u}
    BY <1>6, <1>7, <1>10 DEF FixedOK
  <2> QED BY <1>4, <2>1 DEF TurnOK
<1> QED BY <1>9, <1>10 DEF FixedOK

LEMMA SectionLoadFailsKeeps ==
  ASSUME NEW F, NEW M, FixedOK(F, M), NEW t \in M, NEW F2, NEW M2, F2 = [F EXCEPT !.orderly = FALSE], M2 = M \ {t}
  PROVE  FixedOK(F2, M2)
<1>1. ShowOK(F, M) /\ F \in FixedRecords /\ F.index # 0
  BY OnlyMove DEF FixedOK
<1>2. /\ F2 \in FixedRecords /\ F2.orderly = FALSE /\ F2.index = F.index /\ F2.book = F.book
  BY <1>1 DEF FixedRecords
<1>3. ShowOK(F2, M2)
  BY <1>1, <1>2 DEF ShowOK
<1> QED BY <1>2, <1>3 DEF FixedOK

(* A chain has pages of the book only. *)
LEMMA ChainRange ==
  ASSUME NEW S, SpreadsOK(S), NEW n \in Nat, NEW rtl \in BOOLEAN, Chain(S, n, rtl), NEW k \in 1 .. Len(S)
  PROVE  /\ FirstOf(S[k], rtl) \in 1 .. n /\ LastOf(S[k], rtl) \in 1 .. n
         /\ FirstOf(S[k], rtl) <= LastOf(S[k], rtl)
<1>1. PICK N \in Nat : N = Len(S) /\ N >= 1
  BY DEF SpreadsOK
<1>2. PICK a, z : a = [j \in 1 .. N |-> FirstOf(S[j], rtl)] /\ z = [j \in 1 .. N |-> LastOf(S[j], rtl)]
  OBVIOUS
<1>3. ASSUME NEW j \in 1 .. N PROVE a[j] \in Nat /\ z[j] \in Nat /\ a[j] <= z[j]
  <2>1. PICK s : s = S[j]
    OBVIOUS
  <2>2. s \in SpreadRecords /\ Paged(s)
    BY <1>1, <2>1 DEF SpreadsOK
  <2>3. Early(s, rtl) # 0 /\ Late(s, rtl) # 0 => Late(s, rtl) = Early(s, rtl) + 1
    BY <1>1, <2>1 DEF Chain
  <2>4. PICK c \in Nat : /\ c = FirstOf(s, rtl)
                         /\ \/ ReadOf(s, rtl) = <<c>> /\ LastOf(s, rtl) = c
                            \/ ReadOf(s, rtl) = <<c, c + 1>> /\ LastOf(s, rtl) = c + 1
    BY <2>2, <2>3, ReadFacts
  <2>5. a[j] = c /\ (z[j] = c \/ z[j] = c + 1)
    BY <1>2, <2>1, <2>4
  <2> QED BY <2>5
<1>4. a[1] = 1 /\ z[N] = n /\ \A j \in 1 .. N - 1 : a[j + 1] = z[j] + 1
  BY <1>1, <1>2 DEF Chain
<1> DEFINE U == {j \in Nat : j \in 1 .. N => a[j] >= 1}
           D == {j \in Nat : j \in 0 .. N - 1 => z[N - j] <= n}
<1>5. ASSUME NEW j \in 1 .. N PROVE a[j] >= 1
  <2>1. 0 \in U
    OBVIOUS
  <2>2. ASSUME NEW i \in 1 .. j, i - 1 \in U PROVE i \in U
    <3>1. CASE i = 1
      BY <1>4, <3>1
    <3>2. CASE i # 1
      <4>1. PICK h \in Nat : h = i - 1 /\ h \in 1 .. N - 1 /\ h \in 1 .. N /\ h + 1 = i /\ i \in 1 .. N
        BY <1>1, <2>2, <3>2
      <4>2. a[h] \in Nat /\ z[h] \in Nat /\ a[h] <= z[h] /\ a[i] = z[h] + 1
        BY <1>3, <1>4, <4>1
      <4>3. a[i] >= 1
        BY <4>2
      <4> QED BY <4>1, <4>3
    <3> QED BY <3>1, <3>2
  <2>3. U \in SUBSET Nat /\ j \in Nat
    OBVIOUS
  <2>4. \A i \in 1 .. j : i - 1 \in U => i \in U
    BY <2>2
  <2> HIDE DEF U
  <2>5. j \in U
    BY <2>1, <2>3, <2>4, UpTo
  <2> USE DEF U
  <2> QED BY <2>5
<1>6. ASSUME NEW j \in 0 .. N - 1 PROVE z[N - j] <= n
  <2>1. 0 \in D
    BY <1>1, <1>4
  <2>2. ASSUME NEW i \in 1 .. j, i - 1 \in D PROVE i \in D
    <3>1. PICK h \in Nat, g \in Nat : h = N - i /\ g = N - (i - 1) /\ h \in 1 .. N /\ h \in 1 .. N - 1 /\ g = h + 1 /\ g \in 1 .. N
                                      /\ i - 1 \in 0 .. N - 1
      <4>1. i \in Nat /\ i >= 1 /\ i <= N - 1
        BY <1>1, <1>6, <2>2
      <4>2. /\ N - i \in Nat /\ N - (i - 1) \in Nat /\ N - i \in 1 .. N /\ N - i \in 1 .. N - 1
            /\ N - (i - 1) = (N - i) + 1 /\ N - (i - 1) \in 1 .. N /\ i - 1 \in 0 .. N - 1
        BY <4>1
      <4> QED BY <4>2
    <3>2. z[g] <= n
      BY <2>2, <3>1
    <3>3. a[g] = z[h] + 1 /\ a[g] \in Nat /\ z[g] \in Nat /\ a[g] <= z[g] /\ z[h] \in Nat
      BY <1>3, <1>4, <3>1
    <3>4. z[h] <= n
      BY <3>2, <3>3
    <3> QED BY <3>1, <3>4
  <2>3. D \in SUBSET Nat /\ j \in Nat
    OBVIOUS
  <2>4. \A i \in 1 .. j : i - 1 \in D => i \in D
    BY <2>2
  <2> HIDE DEF D
  <2>5. j \in D
    BY <2>1, <2>3, <2>4, UpTo
  <2> USE DEF D
  <2> QED BY <2>5
<1>7. k \in 1 .. N
  BY <1>1
<1>8. PICK j \in 0 .. N - 1 : N - j = k
  <2>1. N - k \in 0 .. N - 1 /\ N - (N - k) = k
    BY <1>7
  <2> QED BY <2>1
<1>9. a[k] \in Nat /\ z[k] \in Nat /\ a[k] <= z[k] /\ a[k] >= 1 /\ z[k] <= n
  BY <1>3, <1>5, <1>6, <1>7, <1>8
<1>10. a[k] = FirstOf(S[k], rtl) /\ z[k] = LastOf(S[k], rtl)
  BY <1>2, <1>7
<1> QED BY <1>9, <1>10

(* A turn goes on with its call. *)
LEMMA MoveGoes ==
  ASSUME NEW F, NEW M, NEW F2, NEW t \in M, NEW u, TurnOK(F, M), Alike(F, F2), u.side = t.side, u.spread = t.spread
  PROVE  TurnOK(F2, {u})
BY DEF TurnOK, Alike

(* The sections are there: the frames begin. *)
LEMMA ShowSpreadKeeps ==
  ASSUME NEW F, NEW M, FixedOK(F, M), NEW t \in M, t.stage = "sections", NEW w, w = WithFrames(Cleared(F), t),
         NEW F2, F2 = w.f, NEW M2, M2 = {m \in M : m.stage = "sections" /\ m.id # t.id} \cup {[t EXCEPT !.stage = w.wait]}
  PROVE  FixedOK(F2, M2)
<1>1. /\ ShowOK(F, M) /\ F \in FixedRecords /\ MoveOK(t) /\ F.index # 0 /\ F.index <= Len(Spreads(F.book))
      /\ F.orderly => M = {t} /\ t.spread = Spreads(F.book)[F.index]
  BY OnlyMove DEF FixedOK
<1>2. PICK s, C : s = t.spread /\ C = Cleared(F)
  OBVIOUS
<1>3. s \in SpreadRecords /\ Paged(s) /\ (t.side = "center" => s.center # 0)
  BY <1>1, <1>2 DEF MoveOK
<1>4. /\ C \in FixedRecords /\ Alike(F, C)
      /\ C.left = NoFrame /\ C.right = NoFrame /\ C.center = NoFrame
  BY <1>1, <1>2, FrameFacts DEF FixedRecords, Cleared, Alike
<1>5. /\ F2 \in FixedRecords /\ Alike(F, F2) /\ F2.right = NoFrame /\ F2.center = NoFrame
      /\ F2.left = IF s.center = 0 /\ s.left = 0 THEN Framed(0) ELSE NoFrame
  <2>1. F2 = IF s.center = 0 /\ s.left = 0 THEN [C EXCEPT !.left = Framed(0)] ELSE C
    BY <1>2 DEF WithFrames
  <2>2. CASE s.center = 0 /\ s.left = 0
    <3>1. F2 = [C EXCEPT !.left = Framed(0)] /\ Framed(0) \in FrameRecords
      BY <2>1, <2>2, FrameFacts
    <3> QED BY <1>4, <2>2, <3>1 DEF FixedRecords, Alike
  <2>3. CASE ~(s.center = 0 /\ s.left = 0)
    BY <1>4, <2>1, <2>3
  <2> QED BY <2>2, <2>3
<1>6. w.wait = IF s.center # 0 THEN "center" ELSE IF s.left # 0 THEN "left" ELSE "right"
  BY <1>2 DEF WithFrames
<1>7. PICK u, p : p = w.wait /\ u = [t EXCEPT !.stage = p]
  OBVIOUS
<1>8. /\ u \in [id : {u.id}, spread : SpreadRecords, side : Sides, rest : {u.rest}, stage : Sides \cup {"sections"}]
      /\ u.spread = s /\ u.side = t.side /\ u.stage = p
  <2>1. t \in [id : {t.id}, spread : SpreadRecords, side : Sides, rest : {t.rest}, stage : Sides \cup {"sections"}]
    BY <1>1 DEF MoveOK
  <2>2. p \in Sides
    BY <1>6, <1>7 DEF Sides
  <2>3. u.id = t.id /\ u.spread = t.spread /\ u.side = t.side /\ u.stage = p /\ u.rest = t.rest
    BY <1>7, <2>1
  <2>4. u \in [id : {t.id}, spread : SpreadRecords, side : Sides, rest : {t.rest}, stage : Sides \cup {"sections"}]
    BY <1>7, <2>1, <2>2
  <2> QED BY <1>2, <2>3, <2>4
<1>9. MoveOK(u)
  BY <1>3, <1>6, <1>7, <1>8 DEF MoveOK, Paged
<1>10. Under(F2, u)
  BY <1>3, <1>5, <1>6, <1>7, <1>8, FrameFacts DEF Under
<1>11. F.orderly => M2 = {u}
  BY <1>1, <1>7
<1>12. F2.book = F.book /\ F2.index = F.index /\ F2.orderly = F.orderly /\ F2.from = F.from
  BY <1>5 DEF Alike
<1>13. \A v \in M2 : MoveOK(v)
  BY <1>1, <1>7, <1>9 DEF ShowOK
<1>14. ShowOK(F2, M2)
  BY <1>1, <1>2, <1>5, <1>8, <1>10, <1>11, <1>12, <1>13 DEF ShowOK
<1>15. ASSUME F.orderly, F.from.page # 0, ~Doubled(F.book) PROVE TurnOK(F2, M2)
  <2>1. TurnOK(F, M)
    BY <1>15 DEF FixedOK
  <2> QED BY <1>2, <1>5, <1>8, <1>11, <1>15, <2>1, MoveGoes
<1> QED BY <1>12, <1>14, <1>15 DEF FixedOK

(* The left page is there, the right one is to come. *)
LEMMA LeftArrivesKeeps ==
  ASSUME NEW F, NEW M, FixedOK(F, M), NEW t \in M, t.stage = "left", t.spread.right # 0,
         NEW F2, F2 = [F EXCEPT !.left = Framed(t.spread.left)], NEW M2, M2 = (M \ {t}) \cup {[t EXCEPT !.stage = "right"]}
  PROVE  FixedOK(F2, M2)
<1>1. /\ ShowOK(F, M) /\ F \in FixedRecords /\ MoveOK(t) /\ F.index # 0 /\ F.index <= Len(Spreads(F.book))
      /\ F.orderly => M = {t} /\ t.spread = Spreads(F.book)[F.index] /\ Under(F, t)
  BY OnlyMove DEF FixedOK
<1>2. t.spread \in SpreadRecords /\ t.spread.left \in Nat /\ t.spread.center = 0
  BY <1>1 DEF MoveOK, SpreadRecords
<1>3. PICK l \in FrameRecords : l = Framed(t.spread.left) /\ l.page = t.spread.left
  BY <1>2, FrameFacts
<1>4. F2 \in FixedRecords /\ Alike(F, F2) /\ F2.left = l /\ F2.center = F.center /\ F2.side = F.side
  BY <1>1, <1>3 DEF FixedRecords, Alike
<1>5. PICK u : u = [t EXCEPT !.stage = "right"]
  OBVIOUS
<1>6. /\ u \in [id : {u.id}, spread : SpreadRecords, side : Sides, rest : {u.rest}, stage : Sides \cup {"sections"}]
      /\ u.spread = t.spread /\ u.side = t.side /\ u.stage = "right"
  <2>1. t \in [id : {t.id}, spread : SpreadRecords, side : Sides, rest : {t.rest}, stage : Sides \cup {"sections"}]
    BY <1>1 DEF MoveOK
  <2>2. "right" \in Sides
    BY DEF Sides
  <2>3. u.id = t.id /\ u.spread = t.spread /\ u.side = t.side /\ u.stage = "right" /\ u.rest = t.rest
    BY <1>5, <2>1
  <2>4. u \in [id : {t.id}, spread : SpreadRecords, side : Sides, rest : {t.rest}, stage : Sides \cup {"sections"}]
    BY <1>5, <2>1, <2>2
  <2> QED BY <2>3, <2>4
<1>7. MoveOK(u)
  BY <1>1, <1>2, <1>6 DEF MoveOK
<1>8. F.orderly => M2 = {u} /\ Under(F2, u)
  BY <1>1, <1>3, <1>4, <1>5, <1>6 DEF Under
<1>9. F2.book = F.book /\ F2.index = F.index /\ F2.orderly = F.orderly /\ F2.from = F.from
  BY <1>4 DEF Alike
<1>10. \A v \in M2 : MoveOK(v)
  BY <1>1, <1>5, <1>7 DEF ShowOK
<1>11. ShowOK(F2, M2)
  BY <1>1, <1>4, <1>6, <1>8, <1>9, <1>10 DEF ShowOK
<1>12. ASSUME F.orderly, F.from.page # 0, ~Doubled(F.book) PROVE TurnOK(F2, M2)
  <2>1. TurnOK(F, M)
    BY <1>12 DEF FixedOK
  <2> QED BY <1>4, <1>6, <1>8, <1>12, <2>1, MoveGoes
<1> QED BY <1>9, <1>11, <1>12 DEF FixedOK

(* The last frame of a spread is there, E is the element with it. *)
LEMMA OpensKeeps ==
  ASSUME NEW F, NEW M, FixedOK(F, M), NEW t \in M, NEW E \in FixedRecords, Alike(F, E), F.orderly => Filled(E, t.spread),
         NEW F2, F2 = Opened(E, t.side), NEW M2, M2 = M \ {t}
  PROVE  FixedOK(F2, M2)
<1>1. /\ ShowOK(F, M) /\ F \in FixedRecords /\ MoveOK(t) /\ F.index # 0 /\ F.index <= Len(Spreads(F.book))
      /\ F.orderly => M = {t} /\ t.spread = Spreads(F.book)[F.index]
  BY OnlyMove DEF FixedOK
<1>2. PICK s : s = Spreads(F.book)[F.index]
  OBVIOUS
<1>3. t.side \in Sides /\ (t.side = "center" => t.spread.center # 0)
  BY <1>1 DEF MoveOK
<1>4. E.book = F.book /\ E.index = F.index
  BY DEF Alike
<1>5. /\ F2 \in FixedRecords /\ Alike(E, F2)
      /\ Filled(E, s) /\ (t.side = "center" => s.center # 0) =>
              /\ InPlace(F2, s)
              /\ F2.portrait => SeenOn(F2) = {PageOn(s, t.side)} /\ F2.reported = PageOn(s, t.side)
  BY <1>1, <1>2, <1>3, <1>4, OpenedFacts
<1>6. F2.book = F.book /\ F2.index = F.index /\ F2.orderly = F.orderly /\ F2.from = F.from
  BY <1>5 DEF Alike
<1>7. ASSUME F.orderly
      PROVE  /\ M2 = {} /\ t.spread = s /\ InPlace(F2, s)
             /\ F2.portrait => SeenOn(F2) = {PageOn(s, t.side)} /\ F2.reported = PageOn(s, t.side)
  BY <1>1, <1>2, <1>3, <1>5, <1>7
<1>8. ShowOK(F2, M2)
  BY <1>1, <1>2, <1>5, <1>6, <1>7 DEF ShowOK
<1>9. ASSUME F.orderly, F.from.page # 0, ~Doubled(F.book) PROVE TurnOK(F2, M2)
  <2>1. TurnOK(F, M)
    BY <1>9 DEF FixedOK
  <2>2. PICK by, rtl, b, n : by = F.from.by /\ b = F.book /\ rtl = b.rtl /\ n = Len(b.pages)
    OBVIOUS
  <2>3. /\ by \in {1, -1} /\ t.side = EnteredBy(by, rtl) /\ F.from.page + by = Reached(s, by, rtl)
    BY <1>7, <1>9, <2>1, <2>2 DEF TurnOK
  <2>4. b \in Layouts /\ s \in SpreadRecords /\ Paged(s) /\ F.index \in Nat
    BY <1>1, <1>2, <2>2, FieldTypes, SpreadAt
  <2>5. rtl \in BOOLEAN /\ SpreadsOK(Spreads(b)) /\ Chain(Spreads(b), n, rtl) /\ n \in Nat
    BY <1>9, <2>2, <2>4, LayoutFacts
  <2>6. F.index \in 1 .. Len(Spreads(b))
    BY <1>1, <2>2, <2>4, <2>5 DEF SpreadsOK
  <2>7. Reached(s, by, rtl) \in 1 .. n
    BY <1>2, <2>2, <2>5, <2>6, ChainRange DEF Reached
  <2>8. PageOn(s, t.side) = Reached(s, by, rtl)
    BY <2>3, <2>4, <2>5, PageReached
  <2> QED BY <1>1, <1>6, <1>7, <1>9, <2>2, <2>3, <2>7, <2>8 DEF TurnOK
<1> QED BY <1>6, <1>8, <1>9 DEF FixedOK

(* Only the page a turn comes from is another. *)
SameBut(F, f) ==
    /\ f.book = F.book /\ f.index = F.index /\ f.side = F.side /\ f.portrait = F.portrait /\ f.tall = F.tall
    /\ f.left = F.left /\ f.right = F.right /\ f.center = F.center /\ f.reported = F.reported /\ f.orderly = F.orderly

LEMMA FromKeeps ==
  ASSUME NEW F, NEW M, ShowOK(F, M), NEW z \in [page : Int, by : Int], NEW f, f = [F EXCEPT !.from = z]
  PROVE  f \in FixedRecords /\ SameBut(F, f) /\ f.from = z /\ ShowOK(f, M) /\ SeenOn(f) = SeenOn(F)
<1>1. F \in FixedRecords
  BY DEF ShowOK
<1>2. f \in FixedRecords /\ SameBut(F, f) /\ f.from = z
  BY <1>1 DEF FixedRecords, SameBut
<1>3. ShowOK(f, M)
  <2>1. \A t \in M : Under(F, t) => Under(f, t)
    BY <1>2 DEF SameBut, Under
  <2>2. \A x : InPlace(F, x) => InPlace(f, x)
    BY <1>2 DEF SameBut, InPlace
  <2>3. f.book = F.book /\ f.index = F.index /\ f.side = F.side /\ f.orderly = F.orderly
        /\ f.left = F.left /\ f.right = F.right /\ f.center = F.center
    BY <1>2 DEF SameBut
  <2> QED BY <1>2, <2>1, <2>2, <2>3 DEF ShowOK
<1>4. SeenOn(f) = SeenOn(F)
  BY <1>2 DEF SameBut, SeenOn
<1> QED BY <1>2, <1>3, <1>4

(* A turn begins at the one page on the screen. *)
LEMMA PressedFacts ==
  ASSUME NEW F, ShowOK(F, moves), NEW by \in {1, -1}, NEW f, f = Pressed(F, by)
  PROVE  /\ f \in FixedRecords /\ SameBut(F, f) /\ ShowOK(f, moves)
         /\ f.from.page # 0 => moves = {} /\ F.orderly /\ f.from.by = by /\ SeenOn(F) = {f.from.page}
<1>1. F \in FixedRecords
  BY DEF ShowOK
<1>2. PICK seen : seen = {g \in {F.left, F.right, F.center} : g.page > 0 /\ ~g.hidden}
  OBVIOUS
<1>3. IsFiniteSet(seen)
  <2>1. IsFiniteSet({F.left, F.right, F.center})
    <3>1. IsFiniteSet({F.left}) /\ {F.left, F.right} = {F.left} \cup {F.right}
          /\ {F.left, F.right, F.center} = {F.left, F.right} \cup {F.center}
      BY FS_Singleton
    <3>2. IsFiniteSet({F.left, F.right})
      BY <3>1, FS_AddElement
    <3> QED BY <3>1, <3>2, FS_AddElement
  <2>2. seen \subseteq {F.left, F.right, F.center}
    BY <1>2
  <2> QED BY <2>1, <2>2, FS_Subset
<1>4. PICK z : z = IF moves = {} /\ F.orderly /\ Cardinality(seen) = 1
                   THEN [page |-> (CHOOSE g \in seen : TRUE).page, by |-> by] ELSE [page |-> 0, by |-> 0]
  OBVIOUS
<1>5. f = [F EXCEPT !.from = z]
  BY <1>2, <1>4 DEF Pressed
<1>6. /\ z \in [page : Int, by : Int]
      /\ z.page # 0 => moves = {} /\ F.orderly /\ z.by = by /\ SeenOn(F) = {z.page}
  <2>1. CASE moves = {} /\ F.orderly /\ Cardinality(seen) = 1
    <3>1. PICK g : seen = {g}
      BY <1>3, <2>1, FS_Singleton
    <3>2. (CHOOSE h \in seen : TRUE) = g
      BY <3>1
    <3>3. g \in FrameRecords
      BY <1>1, <1>2, <3>1, FieldTypes
    <3>4. g.page \in Int
      BY <3>3 DEF FrameRecords
    <3>5. z = [page |-> g.page, by |-> by]
      BY <1>4, <2>1, <3>2
    <3>6. SeenOn(F) = {g.page}
      BY <1>2, <3>1 DEF SeenOn
    <3> QED BY <2>1, <3>4, <3>5, <3>6
  <2>2. CASE ~(moves = {} /\ F.orderly /\ Cardinality(seen) = 1)
    BY <1>4, <2>2
  <2> QED BY <2>1, <2>2
<1>7. PICK M : M = moves
  OBVIOUS
<1>8. ShowOK(F, M)
  BY <1>7
<1>9. f \in FixedRecords /\ SameBut(F, f) /\ f.from = z /\ ShowOK(f, M)
  BY <1>5, <1>6, <1>8, FromKeeps
<1> QED BY <1>6, <1>7, <1>9

(* The side a turn goes to, and its page of a spread. *)
Toward(by, rtl) == IF (by = 1) = rtl THEN "left" ELSE "right"
PageAt(s, side) == IF side = "left" THEN s.left ELSE s.right
FrameAt(F, side) == IF side = "left" THEN F.left ELSE F.right
Ahead(F, side) == /\ F.center = NoFrame /\ FrameAt(F, side).page # 0 /\ F.portrait
                  /\ FrameAt(F, side) # NoFrame /\ FrameAt(F, side).hidden

LEMMA TowardFacts ==
  ASSUME NEW s \in SpreadRecords, NEW rtl \in BOOLEAN, NEW by \in {1, -1}
  PROVE  /\ Toward(by, rtl) \in {"left", "right"}
         /\ EnteredBy(by, rtl) = IF Toward(by, rtl) = "left" THEN "right" ELSE "left"
         /\ PageAt(s, Toward(by, rtl)) = IF by = 1 THEN Late(s, rtl) ELSE Early(s, rtl)
         /\ PageAt(s, EnteredBy(by, rtl)) = IF by = 1 THEN Early(s, rtl) ELSE Late(s, rtl)
<1>1. CASE rtl
  BY <1>1 DEF Toward, EnteredBy, PageAt, Early, Late
<1>2. CASE ~rtl
  BY <1>2 DEF Toward, EnteredBy, PageAt, Early, Late
<1> QED BY <1>1, <1>2

(* The page that is left when nothing of the spread is ahead. *)
LEMMA EdgePage ==
  ASSUME NEW F \in FixedRecords, NEW s \in SpreadRecords, Paged(s), InPlace(F, s), NEW rtl \in BOOLEAN, NEW by \in {1, -1},
         NEW p, SeenOn(F) = {p}, ~Ahead(F, Toward(by, rtl))
  PROVE  p = IF by = 1 THEN LastOf(s, rtl) ELSE FirstOf(s, rtl)
<1>1. s.center \in Nat /\ s.left \in Nat /\ s.right \in Nat
  BY DEF SpreadRecords
<1>2. PICK side \in {"left", "right"}, back \in {"left", "right"} :
         side = Toward(by, rtl) /\ back = EnteredBy(by, rtl) /\ back = IF side = "left" THEN "right" ELSE "left"
  BY TowardFacts
<1>3. CASE s.center # 0
  <2>1. F.center.page = s.center /\ ~F.center.hidden /\ s.center > 0
    BY <1>1, <1>3 DEF InPlace
  <2>2. s.center \in SeenOn(F)
    BY <2>1, SeenFacts
  <2> QED BY <1>3, <2>2 DEF FirstOf, LastOf
<1>4. CASE s.center = 0
  <2>1. F.center = NoFrame /\ F.left.page = s.left /\ F.right.page = s.right /\ F.left # NoFrame /\ F.right # NoFrame
        /\ F.center.page = -1
    BY <1>1, <1>4, FrameFacts DEF InPlace
  <2>2. PageAt(s, side) = (IF by = 1 THEN Late(s, rtl) ELSE Early(s, rtl))
        /\ PageAt(s, back) = (IF by = 1 THEN Early(s, rtl) ELSE Late(s, rtl))
    BY <1>2, TowardFacts
  <2>3. CASE PageAt(s, side) # 0
    <3>1. ~FrameAt(F, side).hidden
      <4>1. ~F.portrait => ~F.left.hidden /\ ~F.right.hidden
        BY <1>4 DEF InPlace
      <4> QED BY <1>2, <2>1, <2>3, <4>1 DEF Ahead, FrameAt, PageAt
    <3>2. PageAt(s, side) \in SeenOn(F)
      BY <1>1, <1>2, <2>1, <2>3, <3>1, SeenFacts DEF FrameAt, PageAt
    <3>3. p = PageAt(s, side)
      BY <3>2
    <3> QED BY <1>4, <2>2, <2>3, <3>3 DEF FirstOf, LastOf
  <2>4. CASE PageAt(s, side) = 0
    <3>1. p \in SeenOn(F)
      OBVIOUS
    <3>2. p > 0 /\ (p = s.left \/ p = s.right)
      BY <2>1, <3>1, SeenFacts
    <3>3. p = PageAt(s, back)
      BY <1>2, <2>4, <3>2 DEF PageAt
    <3> QED BY <1>4, <2>2, <2>4, <3>3 DEF FirstOf, LastOf
  <2> QED BY <2>3, <2>4
<1> QED BY <1>3, <1>4

(* A page of the spread that was hidden is shown. *)
LEMMA SideKeeps ==
  ASSUME NEW F, NEW M, FixedOK(F, M), NEW f, f \in FixedRecords, SameBut(F, f), ShowOK(f, M), NEW by \in {1, -1},
         f.from.page # 0 => M = {} /\ F.orderly /\ f.from.by = by /\ SeenOn(F) = {f.from.page},
         NEW side \in Sides, side = Toward(by, F.book.rtl), Ahead(F, side),
         NEW E \in FixedRecords, E.side = side, Alike(f, E), E.portrait = f.portrait,
         E.left = f.left, E.right = f.right, E.center = f.center, NEW R, R = Render(E, side), NEW F2, F2 = [R EXCEPT !.reported = IndexOfPage(R)]
  PROVE  FixedOK(F2, M)
<1>1. F \in FixedRecords /\ ShowOK(F, M)
  BY DEF FixedOK, ShowOK
<1>2. PICK b, n, rtl, S : b = F.book /\ n = Len(b.pages) /\ rtl = b.rtl /\ S = Spreads(b)
  OBVIOUS
<1>3. b \in Layouts /\ rtl \in BOOLEAN /\ SpreadsOK(S) /\ (~Doubled(b) => Chain(S, n, rtl)) /\ n \in Nat
  <2>1. b \in Layouts
    BY <1>1, <1>2, FieldTypes
  <2>2. /\ b.rtl \in BOOLEAN /\ b.pages \in Seq(Properties) /\ SpreadsOK(Spreads(b))
        /\ ~Doubled(b) => Chain(Spreads(b), Len(b.pages), b.rtl)
    BY <2>1, LayoutFacts
  <2> QED BY <1>2, <2>1, <2>2
<1>4. F.index \in Nat /\ F.index # 0 /\ F.index <= Len(S) /\ F.index \in 1 .. Len(S)
  <2>1. F.index # 0
    BY <1>1 DEF ShowOK, Ahead, FrameAt
  <2>2. F.index \in Nat /\ F.index <= Len(S) /\ Len(S) \in Nat
    <3>1. F.index \in Nat /\ F.index <= Len(S)
      BY <1>1, <1>2, FieldTypes DEF ShowOK
    <3>2. Len(S) \in Nat
      BY <1>3 DEF SpreadsOK
    <3> QED BY <3>1, <3>2
  <2> QED BY <2>1, <2>2
<1>5. PICK s : s = S[F.index]
  OBVIOUS
<1>6. s \in SpreadRecords /\ Paged(s) /\ s.left \in Nat /\ s.right \in Nat /\ s.center \in Nat
  BY <1>2, <1>3, <1>4, <1>5, SpreadAt
<1>7. /\ side \in {"left", "right"} /\ side = Toward(by, rtl)
      /\ PageAt(s, side) = (IF by = 1 THEN Late(s, rtl) ELSE Early(s, rtl))
      /\ PageAt(s, IF side = "left" THEN "right" ELSE "left") = IF by = 1 THEN Early(s, rtl) ELSE Late(s, rtl)
  BY <1>2, <1>3, <1>6, TowardFacts
<1>9. /\ E \in FixedRecords /\ E.side = side /\ Alike(f, E) /\ E.portrait = F.portrait
      /\ E.left = F.left /\ E.right = F.right /\ E.center = F.center
  BY DEF SameBut
<1>10. E.book = b /\ E.index = F.index /\ E.orderly = F.orderly /\ E.from = f.from
  BY <1>2, <1>9 DEF Alike, SameBut
(* On the screen is the other page of the spread. *)
<1>11. ASSUME F.orderly, M = {}
       PROVE  /\ InPlace(F, s) /\ s.center = 0 /\ PageAt(s, side) # 0 /\ F.left # NoFrame /\ F.right # NoFrame
              /\ F.left.page = s.left /\ F.right.page = s.right /\ F.center = NoFrame
              /\ SeenOn(F) = {PageAt(s, IF side = "left" THEN "right" ELSE "left")}
              /\ PageAt(s, IF side = "left" THEN "right" ELSE "left") # 0
  <2>1. InPlace(F, s)
    BY <1>1, <1>2, <1>4, <1>5, <1>11 DEF ShowOK
  <2>2. s.center = 0
    BY <1>6, <2>1, FrameFacts DEF InPlace, Ahead
  <2>3. F.left.page = s.left /\ F.right.page = s.right /\ F.left # NoFrame /\ F.right # NoFrame /\ F.center = NoFrame
    BY <1>6, <2>1, <2>2, FrameFacts DEF InPlace
  <2>4. PageAt(s, side) # 0
    BY <1>7, <2>3 DEF Ahead, FrameAt, PageAt
  <2>5. PICK v \in {"left", "right"} : v = IF side = "left" THEN "right" ELSE "left"
    OBVIOUS
  <2>6. IF v = "left" THEN s.left # 0 /\ ~F.left.hidden /\ F.right.hidden
                      ELSE s.right # 0 /\ ~F.right.hidden /\ F.left.hidden
    BY <1>7, <2>1, <2>2, <2>5 DEF InPlace, Ahead, FrameAt
  <2>7. SeenOn(F) = {IF v = "left" THEN s.left ELSE s.right}
    BY <1>1, <1>6, <2>1, <2>2, <2>6, TallSeen
  <2> QED BY <2>1, <2>2, <2>3, <2>4, <2>5, <2>6, <2>7 DEF PageAt
<1>12. ShowOK(E, M)
  <2>1. \A t \in M : Under(F, t) => Under(E, t)
    BY <1>9 DEF Under
  <2>2. F.orderly /\ M = {} => InPlace(E, s)
    BY <1>7, <1>9, <1>11 DEF InPlace, PageAt
  <2> QED BY <1>1, <1>2, <1>4, <1>5, <1>9, <1>10, <2>1, <2>2 DEF ShowOK
<1>13. E.orderly /\ M = {} /\ E.index # 0 => HasPage(Spreads(E.book)[E.index], side)
  BY <1>2, <1>5, <1>7, <1>10, <1>11 DEF HasPage, PageAt
<1>14. ShowOK(R, M) /\ Alike(E, R)
  BY <1>12, <1>13, RenderKeeps
<1>15. /\ R \in FixedRecords /\ R.side = side
       /\ F.center = NoFrame /\ F.left # NoFrame => (R.left.hidden <=> R.portrait /\ side # "left")
       /\ F.center = NoFrame /\ F.right # NoFrame => (R.right.hidden <=> R.portrait /\ side # "right")
  <2>1. /\ R \in FixedRecords /\ R.side = E.side
        /\ E.center = NoFrame /\ E.left # NoFrame => (R.left.hidden <=> R.portrait /\ side # "left")
        /\ E.center = NoFrame /\ E.right # NoFrame => (R.right.hidden <=> R.portrait /\ side # "right")
    BY RenderFacts
  <2> QED BY <1>9, <2>1
<1>16. R.book = b /\ R.index = F.index /\ R.orderly = F.orderly /\ R.from = f.from
  BY <1>10, <1>14 DEF Alike
<1>17. PICK i : i = IndexOfPage(R)
  OBVIOUS
<1>18. i \in Int /\ i = IF s.center # 0 THEN s.center
                        ELSE IF side = "left" THEN (IF s.left # 0 THEN s.left ELSE s.right)
                        ELSE (IF s.right # 0 THEN s.right ELSE s.left)
  BY <1>2, <1>4, <1>5, <1>15, <1>16, <1>17, IndexFacts
<1>19. F2 = [R EXCEPT !.reported = i]
  BY <1>17
<1>20. /\ F2 \in FixedRecords /\ F2.reported = i /\ F2.book = b /\ F2.index = F.index /\ F2.orderly = F.orderly /\ F2.from = f.from
       /\ F2.left = R.left /\ F2.right = R.right /\ F2.center = R.center /\ F2.side = R.side /\ F2.portrait = R.portrait
  BY <1>15, <1>16, <1>18, <1>19 DEF FixedRecords
<1>21. ShowOK(F2, M)
  <2>1. \A t \in M : Under(R, t) => Under(F2, t)
    BY <1>20 DEF Under
  <2>2. \A x : InPlace(R, x) => InPlace(F2, x)
    BY <1>20 DEF InPlace
  <2>3. F.index <= Len(S) /\ \A t \in M : MoveOK(t)
    BY <1>1, <1>4 DEF ShowOK
  <2>4. ASSUME F.orderly
        PROVE  (\A t, u \in M : t = u) /\ (\A t \in M : t.spread = s /\ Under(R, t)) /\ (M = {} => InPlace(R, s))
    BY <1>2, <1>4, <1>5, <1>14, <1>16, <2>4 DEF ShowOK
  <2>5. S = Spreads(F2.book) /\ s = S[F2.index] /\ F2.index # 0
    BY <1>2, <1>4, <1>5, <1>20
  <2> QED BY <1>20, <2>1, <2>2, <2>3, <2>4, <2>5 DEF ShowOK
<1>22. ASSUME F.orderly, f.from.page # 0, ~Doubled(b) PROVE TurnOK(F2, M)
  <2>1. PICK p, q : p = f.from.page /\ q = PageAt(s, side)
    OBVIOUS
  <2>2. M = {} /\ f.from.by = by /\ SeenOn(F) = {p} /\ Chain(S, n, rtl)
    BY <1>3, <1>22, <2>1
  <2>3. /\ s.center = 0 /\ q # 0 /\ p # 0 /\ p = PageAt(s, IF side = "left" THEN "right" ELSE "left")
        /\ F.left # NoFrame /\ F.right # NoFrame /\ F.center = NoFrame
    BY <1>11, <1>22, <2>1, <2>2
  <2>4. PICK u \in Nat, v \in Nat : u = Early(s, rtl) /\ v = Late(s, rtl)
    BY <1>6 DEF Early, Late
  <2>5. u # 0 /\ v # 0 /\ (IF by = 1 THEN p = u /\ q = v ELSE p = v /\ q = u)
    BY <1>7, <2>1, <2>3, <2>4
  <2>6. v = u + 1
    BY <1>4, <1>5, <2>2, <2>4, <2>5 DEF Chain
  <2>7. p + by = q
    BY <2>5, <2>6
  <2>8. q \in 1 .. n
    <3>1. FirstOf(s, rtl) \in 1 .. n /\ LastOf(s, rtl) \in 1 .. n
      BY <1>3, <1>4, <1>5, <2>2, ChainRange
    <3>2. FirstOf(s, rtl) = u /\ LastOf(s, rtl) = v
      BY <2>3, <2>4, <2>5 DEF FirstOf, LastOf
    <3> QED BY <2>5, <3>1, <3>2
  <2>9. i = q
    BY <1>7, <1>18, <2>1, <2>3 DEF PageAt
  <2>10. ASSUME F2.portrait PROVE SeenOn(F2) = {q}
    <3>1. InPlace(F2, s)
      BY <1>2, <1>4, <1>5, <1>20, <1>21, <1>22, <2>2 DEF ShowOK
    <3>2. IF side = "left" THEN s.left # 0 /\ ~F2.left.hidden /\ F2.right.hidden
                           ELSE s.right # 0 /\ ~F2.right.hidden /\ F2.left.hidden
      BY <1>7, <1>15, <1>20, <2>1, <2>3, <2>10 DEF PageAt
    <3>3. SeenOn(F2) = {IF side = "left" THEN s.left ELSE s.right}
      <4>1. PICK h \in {"left", "right"} : h = side
        BY <1>7
      <4>2. s.center = 0 => IF h = "left" THEN s.left # 0 /\ ~F2.left.hidden /\ (F2.right.hidden \/ s.right = 0)
                            ELSE s.right # 0 /\ ~F2.right.hidden /\ (F2.left.hidden \/ s.left = 0)
        BY <3>2, <4>1
      <4>3. SeenOn(F2) = {IF s.center # 0 THEN s.center ELSE IF h = "left" THEN s.left ELSE s.right}
        BY <1>6, <1>20, <3>1, <4>2, TallSeen
      <4> QED BY <2>3, <4>1, <4>3
    <3> QED BY <2>1, <3>3 DEF PageAt
  <2>11. F2.from.page = p /\ F2.from.by = by /\ F2.book = b /\ F2.index # 0 /\ F2.reported = q /\ n = Len(F2.book.pages)
    BY <1>2, <1>4, <1>20, <2>1, <2>2, <2>9
  <2> QED BY <2>2, <2>7, <2>8, <2>10, <2>11 DEF TurnOK
<1> QED BY <1>20, <1>21, <1>22 DEF FixedOK

(* Another spread is asked for. *)
LEMMA NewMove ==
  ASSUME NEW f, NEW M, ShowOK(f, M), NEW F2 \in FixedRecords, F2.book = f.book, F2.index # 0,
         F2.index <= Len(Spreads(f.book)), F2.orderly => M = {},
         NEW u, MoveOK(u), u.stage = "sections", u.spread = Spreads(f.book)[F2.index], NEW M2, M2 = M \cup {u}
  PROVE  ShowOK(F2, M2)
<1>1. Under(F2, u)
  BY DEF Under
<1>2. \A v \in M2 : MoveOK(v)
  BY DEF ShowOK
<1>3. F2.orderly => M2 = {u}
  OBVIOUS
<1> QED BY <1>1, <1>2, <1>3 DEF ShowOK

LEMMA AskedFacts ==
  ASSUME NEW e, NEW s \in SpreadRecords, Paged(s), NEW side \in Sides, side = "center" => s.center # 0, NEW r, NEW u,
         u = [id |-> e, spread |-> s, side |-> side, rest |-> r, stage |-> "sections"]
  PROVE  MoveOK(u) /\ u.stage = "sections" /\ u.spread = s /\ u.side = side
<1>1. /\ u \in [id : {u.id}, spread : SpreadRecords, side : Sides, rest : {u.rest}, stage : Sides \cup {"sections"}]
      /\ u.spread = s /\ u.side = side /\ u.stage = "sections"
  OBVIOUS
<1> QED BY <1>1 DEF MoveOK

(* goToSpread, up to its first wait. *)
LEMMA GoesKeeps ==
  ASSUME NEW f, ShowOK(f, moves), NEW S, S = Spreads(f.book), NEW i \in Int, NEW side \in Sides,
         i \in 1 .. Len(S) => (side = "center" => S[i].center # 0) /\ (i = f.index => HasPage(S[i], side)),
         GoToSpread(f, i, side)
  PROVE  /\ ShowOK(fixed', moves') /\ fixed'.book = f.book /\ fixed'.from = f.from
         /\ \/ i \notin 1 .. Len(S) /\ fixed' = f /\ moves' = moves
            \/ i \in 1 .. Len(S) /\ i = f.index
            \/ /\ i \in 1 .. Len(S) /\ fixed'.index = i /\ i # 0
               /\ fixed'.orderly => moves = {} /\ \E u : moves' = {u} /\ u.spread = S[i] /\ u.side = side
<1>1. PICK M, e, n : M = moves /\ e = events /\ n = Len(S)
  OBVIOUS
<1>2. ShowOK(f, M) /\ f \in FixedRecords /\ f.book \in Layouts
  BY <1>1, FieldTypes DEF ShowOK
<1>3. n \in Nat /\ SpreadsOK(S)
  BY <1>1, <1>2, LayoutFacts DEF SpreadsOK
<1>4. CASE i < 1 \/ i > n
  <2>1. fixed' = f /\ moves' = moves
    BY <1>1, <1>4 DEF GoToSpread
  <2>2. i \notin 1 .. n
    BY <1>3, <1>4
  <2> QED BY <1>1, <1>2, <2>1, <2>2
<1>5. CASE i \in 1 .. n /\ i = f.index
  <2>1. PICK R : R = Render(f, side)
    OBVIOUS
  <2>2. ~(i < 1 \/ i > n)
    BY <1>3, <1>5
  <2>3. fixed' = R /\ moves' = moves
    BY <1>1, <1>5, <2>1, <2>2 DEF GoToSpread
  <2>4. f.orderly /\ M = {} /\ f.index # 0 => HasPage(Spreads(f.book)[f.index], side)
    BY <1>1, <1>5
  <2>5. ShowOK(R, M) /\ Alike(f, R)
    BY <1>2, <2>1, <2>4, RenderKeeps
  <2>6. R.book = f.book /\ R.from = f.from
    BY <2>5 DEF Alike
  <2> QED BY <1>1, <1>5, <2>3, <2>5, <2>6
<1>6. CASE i \in 1 .. n /\ i # f.index
  <2>1. ~(i < 1 \/ i > n)
    BY <1>3, <1>6
  <2>2. PICK s, r : s = S[i] /\ r = IF s.center # 0 THEN <<s.center>> ELSE Given(s.left) \o Given(s.right)
    OBVIOUS
  <2>3. PICK u : u = [id |-> e, spread |-> s, side |-> side, rest |-> r, stage |-> "sections"]
    OBVIOUS
  <2>4. PICK F2, M2 : F2 = [f EXCEPT !.index = i, !.orderly = M = {}] /\ M2 = M \cup {u}
    OBVIOUS
  <2>5. fixed' = F2 /\ moves' = M2
    BY <1>1, <1>6, <2>1, <2>2, <2>3, <2>4 DEF GoToSpread
  <2>6. PICK h \in BOOLEAN : h = (M = {})
    OBVIOUS
  <2>7. F2 = [f EXCEPT !.index = i, !.orderly = h]
    BY <2>4, <2>6, Zenon
  <2>8. i \in Nat /\ i # 0 /\ i <= n
    BY <1>3, <1>6
  <2>9. F2 \in FixedRecords /\ F2.book = f.book /\ F2.from = f.from /\ F2.index = i /\ (F2.orderly => M = {})
    BY <1>2, <2>6, <2>7, <2>8 DEF FixedRecords
  <2>10. s \in SpreadRecords /\ Paged(s) /\ (side = "center" => s.center # 0)
    BY <1>1, <1>3, <1>6, <2>2 DEF SpreadsOK
  <2>11. MoveOK(u) /\ u.stage = "sections" /\ u.spread = s /\ u.side = side
    BY <2>3, <2>10, AskedFacts
  <2>12. F2.index # 0 /\ F2.index <= Len(Spreads(f.book)) /\ u.spread = Spreads(f.book)[F2.index]
    BY <1>1, <2>2, <2>8, <2>9, <2>11
  <2>13. ShowOK(F2, M2)
    <3>1. M2 = M \cup {u}
      BY <2>4
    <3> QED BY <1>2, <2>9, <2>11, <2>12, <3>1, NewMove
  <2>14. F2.orderly => M = {} /\ M2 = {u}
    BY <2>4, <2>9
  <2> QED BY <1>1, <1>6, <2>2, <2>5, <2>8, <2>9, <2>11, <2>13, <2>14
<1>7. (i < 1 \/ i > n) \/ i \in 1 .. n
  BY <1>3
<1> QED BY <1>4, <1>5, <1>6, <1>7

(* A turn to another spread, or past an end of the book. *)
LEMMA SpreadTurns ==
  ASSUME NEW F, FixedOK(F, moves), NEW f, f \in FixedRecords, SameBut(F, f), ShowOK(f, moves), NEW by \in {1, -1},
         f.from.page # 0 => moves = {} /\ F.orderly /\ f.from.by = by /\ SeenOn(F) = {f.from.page},
         ~Ahead(F, Toward(by, F.book.rtl)), NEW i \in Int, i = F.index + by, NEW side, side = EnteredBy(by, F.book.rtl),
         GoToSpread(f, i, side)
  PROVE  FixedOK(fixed', moves')
<1>1. F \in FixedRecords /\ ShowOK(F, moves)
  BY DEF FixedOK, ShowOK
<1>2. PICK b, n, rtl, S : b = F.book /\ n = Len(b.pages) /\ rtl = b.rtl /\ S = Spreads(b)
  OBVIOUS
<1>3. b \in Layouts /\ rtl \in BOOLEAN /\ SpreadsOK(S) /\ (~Doubled(b) => Chain(S, n, rtl)) /\ n \in Nat
  <2>1. b \in Layouts
    BY <1>1, <1>2, FieldTypes
  <2>2. /\ b.rtl \in BOOLEAN /\ b.pages \in Seq(Properties) /\ SpreadsOK(Spreads(b))
        /\ ~Doubled(b) => Chain(Spreads(b), Len(b.pages), b.rtl)
    BY <2>1, LayoutFacts
  <2> QED BY <1>2, <2>1, <2>2
<1>4. PICK N \in Nat, k \in Nat : N = Len(S) /\ k = F.index /\ k <= N /\ i = k + by /\ N >= 1
  <2>1. F.index \in Nat /\ F.index <= Len(S)
    BY <1>1, <1>2, FieldTypes DEF ShowOK
  <2>2. Len(S) \in Nat /\ Len(S) >= 1
    BY <1>3 DEF SpreadsOK
  <2> QED BY <2>1, <2>2
<1>5. side \in {"left", "right"} /\ side \in Sides /\ i # f.index
  <2>1. side \in {"left", "right"}
    BY DEF EnteredBy
  <2>2. f.index = k /\ i # k
    BY <1>4 DEF SameBut
  <2> QED BY <2>1, <2>2 DEF Sides
<1>6. f.book = b /\ f.index = k /\ S = Spreads(f.book)
  BY <1>2, <1>4 DEF SameBut
<1>7. /\ ShowOK(fixed', moves') /\ fixed'.book = b /\ fixed'.from = f.from
      /\ \/ i \notin 1 .. N /\ fixed' = f /\ moves' = moves
         \/ /\ i \in 1 .. N /\ fixed'.index = i /\ i # 0
            /\ fixed'.orderly => moves = {} /\ \E u : moves' = {u} /\ u.spread = S[i] /\ u.side = side
  <2>1. i \in 1 .. Len(S) => (side = "center" => S[i].center # 0) /\ (i = f.index => HasPage(S[i], side))
    BY <1>5
  <2>2. /\ ShowOK(fixed', moves') /\ fixed'.book = f.book /\ fixed'.from = f.from
        /\ \/ i \notin 1 .. Len(S) /\ fixed' = f /\ moves' = moves
           \/ i \in 1 .. Len(S) /\ i = f.index
           \/ /\ i \in 1 .. Len(S) /\ fixed'.index = i /\ i # 0
              /\ fixed'.orderly => moves = {} /\ \E u : moves' = {u} /\ u.spread = S[i] /\ u.side = side
    BY <1>5, <1>6, <2>1, GoesKeeps
  <2> QED BY <1>4, <1>5, <1>6, <2>2
<1>8. ASSUME fixed'.orderly, f.from.page # 0, ~Doubled(b) PROVE TurnOK(fixed', moves')
  <2>1. PICK p : p = f.from.page /\ moves = {} /\ F.orderly /\ f.from.by = by /\ SeenOn(F) = {p} /\ Chain(S, n, rtl)
    BY <1>3, <1>8
  <2>2. k # 0
    <3>1. p \in SeenOn(F)
      BY <2>1
    <3>2. ~(F.left = NoFrame /\ F.right = NoFrame /\ F.center = NoFrame)
      BY <1>1, <3>1, SeenFacts, FrameFacts
    <3> QED BY <1>1, <1>4, <3>2 DEF ShowOK
  <2>3. PICK s : s = S[k]
    OBVIOUS
  <2>4. k \in 1 .. N /\ s \in SpreadRecords /\ Paged(s) /\ InPlace(F, s)
    <3>1. k \in 1 .. N
      BY <1>4, <2>2
    <3>2. s \in SpreadRecords /\ Paged(s)
      BY <1>3, <1>4, <2>3, <3>1 DEF SpreadsOK
    <3>3. InPlace(F, s)
      BY <1>1, <1>2, <1>4, <2>1, <2>2, <2>3 DEF ShowOK
    <3> QED BY <3>1, <3>2, <3>3
  <2>5. p = IF by = 1 THEN LastOf(s, rtl) ELSE FirstOf(s, rtl)
    <3>1. ~Ahead(F, Toward(by, rtl))
      BY <1>2
    <3> QED BY <1>1, <1>3, <2>1, <2>4, <3>1, EdgePage
  <2>6. FirstOf(s, rtl) \in 1 .. n /\ LastOf(s, rtl) \in 1 .. n
    BY <1>3, <1>4, <2>1, <2>3, <2>4, ChainRange
  <2>7. fixed'.from.page = p /\ fixed'.from.by = by /\ fixed'.book = b /\ n = Len(fixed'.book.pages) /\ b.rtl = rtl
    BY <1>2, <1>7, <2>1
  <2>8. CASE i \notin 1 .. N /\ fixed' = f /\ moves' = moves
    <3>1. p + by \notin 1 .. n
      <4>1. CASE by = 1
        <5>1. k = N
          BY <1>4, <2>4, <2>8, <4>1
        <5>2. p = n
          BY <1>4, <2>1, <2>3, <2>5, <4>1, <5>1 DEF Chain
        <5> QED BY <1>3, <4>1, <5>2
      <4>2. CASE by = -1
        <5>1. k = 1
          BY <1>4, <2>4, <2>8, <4>2
        <5>2. p = 1
          BY <2>1, <2>3, <2>5, <4>2, <5>1 DEF Chain
        <5> QED BY <1>3, <4>2, <5>2
      <4> QED BY <4>1, <4>2
    <3>2. SeenOn(f) = {p}
      BY <2>1 DEF SeenOn, SameBut
    <3>3. fixed'.index # 0
      BY <1>6, <2>2, <2>8
    <3> QED BY <2>1, <2>7, <2>8, <3>1, <3>2, <3>3 DEF TurnOK
  <2>9. CASE /\ i \in 1 .. N /\ fixed'.index = i /\ i # 0
             /\ fixed'.orderly => moves = {} /\ \E u : moves' = {u} /\ u.spread = S[i] /\ u.side = side
    <3>1. PICK u, M2 : M2 = {u} /\ moves' = M2 /\ u.spread = S[i] /\ u.side = side
      BY <1>8, <2>9
    <3>2. p + by = Reached(S[i], by, rtl)
      <4>1. CASE by = 1
        <5>1. k \in 1 .. N - 1 /\ i = k + 1
          BY <1>4, <2>4, <2>9, <4>1
        <5>2. FirstOf(S[k + 1], rtl) = LastOf(S[k], rtl) + 1
          BY <1>4, <2>1, <5>1 DEF Chain
        <5> QED BY <2>3, <2>5, <4>1, <5>1, <5>2 DEF Reached
      <4>2. CASE by = -1
        <5>1. i \in 1 .. N - 1 /\ k = i + 1
          BY <1>4, <2>4, <2>9, <4>2
        <5>2. FirstOf(S[i + 1], rtl) = LastOf(S[i], rtl) + 1
          BY <1>4, <2>1, <5>1 DEF Chain
        <5>3. LastOf(S[i], rtl) \in 1 .. n
          BY <1>3, <1>4, <2>1, <2>9, ChainRange
        <5>4. p = LastOf(S[i], rtl) + 1
          BY <2>3, <2>5, <4>2, <5>1, <5>2
        <5>5. p + by = LastOf(S[i], rtl)
          BY <4>2, <5>3, <5>4
        <5> QED BY <4>2, <5>5 DEF Reached
      <4> QED BY <4>1, <4>2
    <3>3. u.side = EnteredBy(by, rtl)
      BY <1>2, <3>1
    <3> QED BY <2>7, <2>9, <3>1, <3>2, <3>3 DEF TurnOK
  <2> QED BY <1>7, <2>8, <2>9
<1> QED BY <1>7, <1>8 DEF FixedOK

(* The steps. *)
LEMMA FrameArrivesKeeps ==
  ASSUME FixedInv, NEW t \in moves, FrameArrives(t)
  PROVE  FixedInv'
<1>1. PICK F, M, s : F = fixed /\ M = moves /\ s = t.spread
  OBVIOUS
<1>2. FixedOK(F, M) /\ t \in M /\ ShowOK(F, M)
  BY <1>1 DEF FixedInv, FixedOK
<1>3. F \in FixedRecords /\ MoveOK(t) /\ (F.orderly => Under(F, t))
  BY <1>2, OnlyMove
<1>4. s \in SpreadRecords /\ Paged(s) /\ s.left \in Nat /\ s.right \in Nat /\ s.center \in Nat
  BY <1>1, <1>3 DEF MoveOK, SpreadRecords
<1>5. SUFFICES FixedOK(fixed', moves')
  BY DEF FixedInv
<1>6. CASE t.stage = "left" /\ s.right # 0
  <2>1. PICK F2, M2 : F2 = [F EXCEPT !.left = Framed(t.spread.left)] /\ M2 = (M \ {t}) \cup {[t EXCEPT !.stage = "right"]}
    OBVIOUS
  <2>2. fixed' = F2 /\ moves' = M2
    BY <1>1, <1>6, <2>1 DEF FrameArrives
  <2>3. FixedOK(F2, M2)
    BY <1>1, <1>2, <1>6, <2>1, LeftArrivesKeeps
  <2> QED BY <2>2, <2>3
<1>7. CASE t.stage \in Sides /\ ~(t.stage = "left" /\ s.right # 0)
  <2>1. PICK E, l, r, c : /\ l = Framed(s.left) /\ r = Framed(IF t.stage = "left" THEN 0 ELSE s.right) /\ c = Framed(s.center)
                          /\ E = IF t.stage = "left" THEN [F EXCEPT !.left = l, !.right = r]
                                 ELSE IF t.stage = "right" THEN [F EXCEPT !.right = r] ELSE [F EXCEPT !.center = c]
    OBVIOUS
  <2>2. /\ l \in FrameRecords /\ r \in FrameRecords /\ c \in FrameRecords
        /\ l.page = s.left /\ c.page = s.center /\ r.page = IF t.stage = "left" THEN 0 ELSE s.right
    BY <1>4, <2>1, FrameFacts
  <2>3. PICK F2, M2 : F2 = Opened(E, t.side) /\ M2 = M \ {t}
    OBVIOUS
  <2>4. fixed' = F2 /\ moves' = M2
    <3>1. CASE t.stage = "left"
      <4>1. E = [[F EXCEPT !.left = Framed(s.left)] EXCEPT !.right = Framed(0)]
        BY <2>1, <3>1
      <4> QED BY <1>1, <1>7, <2>3, <3>1, <4>1 DEF FrameArrives
    <3>2. CASE t.stage = "right"
      BY <1>1, <1>7, <2>1, <2>3, <3>2 DEF FrameArrives
    <3>3. CASE t.stage = "center"
      BY <1>1, <1>7, <2>1, <2>3, <3>3 DEF FrameArrives
    <3> QED BY <1>7, <3>1, <3>2, <3>3 DEF Sides
  <2>5. E \in FixedRecords /\ Alike(F, E)
    BY <1>3, <2>1, <2>2 DEF FixedRecords, Alike
  <2>6. ASSUME F.orderly PROVE Filled(E, s)
    <3>1. Under(F, t)
      BY <1>3, <2>6
    <3>2. CASE t.stage = "left"
      <4>1. E.left = l /\ E.right = r /\ E.center = F.center /\ F.center = NoFrame /\ s.center = 0 /\ s.right = 0
        BY <1>1, <1>3, <1>7, <2>1, <3>1, <3>2 DEF FixedRecords, Under, MoveOK
      <4> QED BY <2>2, <3>2, <4>1 DEF Filled
    <3>3. CASE t.stage = "right"
      <4>1. E.left = F.left /\ F.left.page = s.left /\ E.right = r /\ E.center = F.center /\ F.center = NoFrame /\ s.center = 0
        BY <1>1, <1>3, <2>1, <3>1, <3>3 DEF FixedRecords, Under, MoveOK
      <4> QED BY <2>2, <3>3, <4>1 DEF Filled
    <3>4. CASE t.stage = "center"
      <4>1. E.left = NoFrame /\ E.right = NoFrame /\ E.center = c /\ s.center # 0
        BY <1>1, <1>3, <2>1, <3>1, <3>4 DEF FixedRecords, Under, MoveOK
      <4> QED BY <2>2, <4>1 DEF Filled
    <3> QED BY <1>7, <3>2, <3>3, <3>4 DEF Sides
  <2>7. FixedOK(F2, M2)
    BY <1>1, <1>2, <2>3, <2>5, <2>6, OpensKeeps
  <2> QED BY <2>4, <2>7
<1> QED BY <1>6, <1>7 DEF FrameArrives, Sides

LEMMA SectionLoadsStep ==
  ASSUME FixedInv, NEW t \in moves, SectionLoads(t)
  PROVE  FixedInv'
<1>1. PICK F, M : F = fixed /\ M = moves
  OBVIOUS
<1>2. FixedOK(F, M) /\ t \in M /\ t.stage = "sections"
  BY <1>1 DEF FixedInv, SectionLoads
<1>3. SUFFICES FixedOK(fixed', moves')
  BY DEF FixedInv
<1>4. CASE Len(t.rest) > 1
  <2>1. PICK r, M2 : r = Tail(t.rest) /\ M2 = (M \ {t}) \cup {[t EXCEPT !.rest = r]}
    OBVIOUS
  <2>2. fixed' = F /\ moves' = M2
    BY <1>1, <1>4, <2>1 DEF SectionLoads
  <2>3. FixedOK(F, M2)
    BY <1>2, <2>1, SectionLoadsKeeps
  <2> QED BY <2>2, <2>3
<1>5. CASE ~(Len(t.rest) > 1)
  <2>1. ShowSpread(t)
    BY <1>5 DEF SectionLoads
  <2>2. PICK w : w = WithFrames(Cleared(F), t)
    OBVIOUS
  <2>3. PICK F2, M2 : F2 = w.f /\ M2 = {m \in M : m.stage = "sections" /\ m.id # t.id} \cup {[t EXCEPT !.stage = w.wait]}
    OBVIOUS
  <2>4. fixed' = F2 /\ moves' = M2
    BY <1>1, <2>1, <2>2, <2>3 DEF ShowSpread
  <2>5. FixedOK(F2, M2)
    BY <1>2, <2>2, <2>3, ShowSpreadKeeps
  <2> QED BY <2>4, <2>5
<1> QED BY <1>4, <1>5

LEMMA SectionLoadFailsStep ==
  ASSUME FixedInv, NEW t \in moves, SectionLoadFails(t)
  PROVE  FixedInv'
<1>1. PICK F, M, F2, M2 : F = fixed /\ M = moves /\ F2 = [F EXCEPT !.orderly = FALSE] /\ M2 = M \ {t}
  OBVIOUS
<1>2. FixedOK(F, M) /\ t \in M
  BY <1>1 DEF FixedInv
<1>3. fixed' = F2 /\ moves' = M2
  BY <1>1 DEF SectionLoadFails
<1>4. FixedOK(F2, M2)
  BY <1>1, <1>2, SectionLoadFailsKeeps
<1> QED BY <1>3, <1>4 DEF FixedInv

LEMMA ResizeStep ==
  ASSUME FixedInv, Resize
  PROVE  FixedInv'
<1>1. PICK F, M, F2 : F = fixed /\ M = moves /\ F2 = Render([F EXCEPT !.tall = ~@, !.from = [page |-> 0, by |-> 0]], F.side)
  OBVIOUS
<1>2. FixedOK(F, M)
  BY <1>1 DEF FixedInv
<1>3. fixed' = F2 /\ moves' = M
  BY <1>1, Zenon DEF Resize
<1>4. FixedOK(F2, M)
  BY <1>1, <1>2, ResizeKeeps
<1> QED BY <1>3, <1>4 DEF FixedInv

LEMMA TurnPageStep ==
  ASSUME FixedInv, NEW by \in {1, -1}, TurnPage(by)
  PROVE  FixedInv'
<1>1. PICK F, M, f, side : F = fixed /\ M = moves /\ f = Pressed(F, by) /\ side = Toward(by, F.book.rtl)
  OBVIOUS
<1>2. FixedOK(F, moves) /\ ShowOK(F, moves) /\ F \in FixedRecords
  BY <1>1 DEF FixedInv, FixedOK, ShowOK
<1>3. /\ f \in FixedRecords /\ SameBut(F, f) /\ ShowOK(f, moves)
      /\ f.from.page # 0 => moves = {} /\ F.orderly /\ f.from.by = by /\ SeenOn(F) = {f.from.page}
  BY <1>1, <1>2, PressedFacts
<1>4. side \in {"left", "right"}
  BY <1>1 DEF Toward
<1>5. GoSide(side) <=> Ahead(F, side)
  <2>1. CASE side = "left"
    BY <1>1, <2>1 DEF GoSide, Ahead, FrameAt
  <2>2. CASE side = "right"
    BY <1>1, <2>2 DEF GoSide, Ahead, FrameAt
  <2> QED BY <1>4, <2>1, <2>2
<1>6. SUFFICES FixedOK(fixed', moves')
  BY DEF FixedInv
<1>7. CASE GoSide(side)
  <2>1. PICK E, R, F2 : E = [f EXCEPT !.side = side] /\ R = Render(E, side) /\ F2 = [R EXCEPT !.reported = IndexOfPage(R)]
    OBVIOUS
  <2>2. fixed' = F2 /\ moves' = M
    BY <1>1, <1>7, <2>1 DEF TurnPage, Toward
  <2>3. side \in Sides
    BY <1>4 DEF Sides
  <2>4. /\ E \in FixedRecords /\ E.side = side /\ Alike(f, E) /\ E.portrait = f.portrait
        /\ E.left = f.left /\ E.right = f.right /\ E.center = f.center
    BY <1>3, <2>1, <2>3 DEF FixedRecords, Alike
  <2>5. FixedOK(F, M) /\ ShowOK(f, M) /\ Ahead(F, side)
        /\ (f.from.page # 0 => M = {} /\ F.orderly /\ f.from.by = by /\ SeenOn(F) = {f.from.page})
    BY <1>1, <1>2, <1>3, <1>5, <1>7
  <2>6. R = Render(E, side) /\ F2 = [R EXCEPT !.reported = IndexOfPage(R)] /\ side = Toward(by, F.book.rtl)
    BY <1>1, <2>1
  <2>7. FixedOK(F2, M)
    BY <1>3, <2>3, <2>4, <2>5, <2>6, SideKeeps
  <2> QED BY <2>2, <2>7
<1>8. CASE ~GoSide(side)
  <2>1. F.index \in Nat
    BY <1>2, FieldTypes
  <2>2. PICK i, back : i \in Int /\ i = F.index + by /\ back = EnteredBy(by, F.book.rtl)
    BY <2>1
  <2>3. back = IF side = "left" THEN "right" ELSE "left"
    BY <1>1, <2>2 DEF Toward, EnteredBy
  <2>4. GoToSpread(f, i, back)
    BY <1>1, <1>8, <2>2, <2>3 DEF TurnPage, Toward
  <2>5. ~Ahead(F, Toward(by, F.book.rtl))
    BY <1>1, <1>5, <1>8
  <2> QED BY <1>2, <1>3, <2>2, <2>4, <2>5, SpreadTurns
<1> QED BY <1>7, <1>8

LEMMA GoToPageStep ==
  ASSUME FixedInv, NEW p \in DOMAIN fixed.book.pages, GoToPage(p)
  PROVE  FixedInv'
<1>1. PICK F, M, z, f, S : F = fixed /\ M = moves /\ z = [page |-> 0, by |-> 0] /\ f = [F EXCEPT !.from = z] /\ S = Spreads(F.book)
  OBVIOUS
<1>2. ShowOK(F, M) /\ F \in FixedRecords /\ F.book \in Layouts
  BY <1>1, FieldTypes DEF FixedInv, FixedOK, ShowOK
<1>3. p # 0 /\ SpreadsOK(S)
  <2>1. F.book.pages \in Seq(Properties) /\ SpreadsOK(S)
    BY <1>1, <1>2, LayoutFacts
  <2> QED BY <1>1, <2>1
<1>4. SameBut(F, f) /\ f.from = z /\ ShowOK(f, M)
  BY <1>1, <1>2, FromKeeps
<1>5. PICK x \in [index : DOMAIN S, side : {"left", "right", "center"}] :
         S[x.index][x.side] = p /\ GoToSpread(f, x.index, x.side)
  <2> DEFINE all == Spreads(fixed.book)
             at == [index : DOMAIN all, side : {"left", "right", "center"}]
             found == {y \in at : all[y.index][y.side] = p}
  <2>1. /\ found # {}
        /\ GoToSpread([fixed EXCEPT !.from = [page |-> 0, by |-> 0]], (CHOOSE y \in found : TRUE).index, (CHOOSE y \in found : TRUE).side)
    BY DEF GoToPage
  <2> HIDE DEF found
  <2>2. PICK x : x = CHOOSE y \in found : TRUE
    OBVIOUS
  <2>3. x \in found
    BY <2>1, <2>2
  <2>4. GoToSpread(f, x.index, x.side)
    BY <1>1, <2>1, <2>2, Zenon
  <2>5. x \in at /\ all[x.index][x.side] = p
    BY <2>3 DEF found
  <2>6. all = S
    BY <1>1
  <2> QED BY <2>4, <2>5, <2>6
<1>6. PICK i \in DOMAIN S, side \in Sides : i = x.index /\ side = x.side
  BY <1>5 DEF Sides
<1>7. S[i][side] # 0 /\ GoToSpread(f, i, side) /\ i \in Int /\ i \in 1 .. Len(S)
  BY <1>3, <1>5, <1>6 DEF SpreadsOK
<1>8. (side = "center" => S[i].center # 0) /\ HasPage(S[i], side)
  BY <1>6, <1>7 DEF HasPage, Sides
<1>9. ShowOK(f, moves) /\ S = Spreads(f.book)
  BY <1>1, <1>4 DEF SameBut
<1>10. ShowOK(fixed', moves') /\ fixed'.from = f.from
  BY <1>6, <1>7, <1>8, <1>9, GoesKeeps
<1>11. fixed'.from.page = 0
  BY <1>1, <1>4, <1>10
<1> QED BY <1>10, <1>11 DEF FixedInv, FixedOK

LEMMA FixedSteps ==
  ASSUME FixedInv, FixedNext \/ UNCHANGED <<fixed, moves>>
  PROVE  FixedInv'
<1>1. CASE UNCHANGED <<fixed, moves>>
  BY <1>1 DEF FixedInv
<1>2. CASE External /\ (Resize \/ (\E by \in {1, -1} : TurnPage(by)) \/ (\E p \in DOMAIN fixed.book.pages : GoToPage(p)))
  BY <1>2, ResizeStep, TurnPageStep, GoToPageStep
<1>3. CASE Internal /\ \E t \in moves : SectionLoads(t) \/ SectionLoadFails(t) \/ FrameArrives(t)
  BY <1>3, SectionLoadsStep, SectionLoadFailsStep, FrameArrivesKeeps
<1> QED BY <1>1, <1>2, <1>3 DEF FixedNext

LEMMA FixedStarts ==
  ASSUME FixedInit
  PROVE  FixedInv
<1>1. PICK b \in Layouts, tall \in BOOLEAN :
          fixed = [book |-> b, index |-> 0, side |-> "", portrait |-> FALSE, tall |-> tall,
                   left |-> NoFrame, right |-> NoFrame, center |-> NoFrame, reported |-> 0,
                   orderly |-> TRUE, from |-> [page |-> 0, by |-> 0]]
  BY DEF FixedInit
<1>2. PICK z, F : z = [page |-> 0, by |-> 0] /\ F = fixed
  OBVIOUS
<1>3. z \in [page : Int, by : Int] /\ z.page = 0 /\ NoFrame \in FrameRecords
  BY <1>2, FrameFacts
<1>4. F \in FixedRecords
  BY <1>1, <1>2, <1>3 DEF FixedRecords
<1>5. /\ F.index = 0 /\ F.left = NoFrame /\ F.right = NoFrame /\ F.center = NoFrame /\ F.side = "" /\ F.from = z
      /\ F.book = b
  BY <1>1, <1>2
<1>6. Len(Spreads(b)) \in Nat
  BY LayoutFacts DEF SpreadsOK
<1>7. moves = {}
  BY DEF FixedInit
<1>8. ShowOK(F, {})
  <2>1. F.index <= Len(Spreads(F.book))
    <3>1. PICK m \in Nat : m = Len(Spreads(b))
      BY <1>6
    <3>2. 0 <= m
      OBVIOUS
    <3> QED BY <1>5, <3>1, <3>2, Zenon
  <2> QED BY <1>4, <1>5, <2>1 DEF ShowOK
<1>9. FixedOK(F, {})
  BY <1>3, <1>5, <1>8 DEF FixedOK
<1> QED BY <1>2, <1>7, <1>9 DEF FixedInv

LEMMA FixedImplies ==
  ASSUME FixedInv
  PROVE  SpreadsSafe
<1>1. PICK F, M, b, n, rtl, S : F = fixed /\ M = moves /\ b = F.book /\ n = Len(b.pages) /\ rtl = b.rtl /\ S = Spreads(b)
  OBVIOUS
<1>2. FixedOK(F, M) /\ ShowOK(F, M) /\ F \in FixedRecords /\ b \in Layouts /\ F.index \in Nat
  BY <1>1, FieldTypes DEF FixedInv, FixedOK, ShowOK
<1>3. /\ rtl \in BOOLEAN /\ b.pages \in Seq(Properties) /\ SpreadsOK(S)
      /\ b.spread = "none" \/ ~Doubled(b) => Chain(S, n, rtl)
  BY <1>1, <1>2, LayoutFacts
<1>4. n \in Nat /\ DOMAIN b.pages = 1 .. n
  BY <1>1, <1>3
<1>5. PagesInOrder
  <2>1. PICK R : R = [k \in DOMAIN S |-> ReadOf(S[k], rtl)]
    OBVIOUS
  <2>2. b.spread = "none" \/ ~Doubled(b) => FlattenSeq(R) = Counted(n)
    BY <1>3, <1>4, <2>1, ReadInOrder
  <2>3. Counted(n) = [i \in DOMAIN b.pages |-> i]
    BY <1>4 DEF Counted
  <2> QED BY <1>1, <2>1, <2>2, <2>3 DEF PagesInOrder, ReadOf
<1>6. OnScreen = SeenOn(F)
  BY <1>1 DEF OnScreen, SeenOn
<1>7. SpreadShown
  <2>1. SUFFICES ASSUME Settled PROVE /\ F.center.page = (IF Current.center # 0 THEN Current.center ELSE -1)
                                      /\ Current.center = 0 => F.left.page = Current.left /\ F.right.page = Current.right
                                      /\ OnScreen # {}
    BY <1>1 DEF SpreadShown
  <2>2. PICK s : s = S[F.index]
    OBVIOUS
  <2>3. Current = s
    BY <1>1, <2>2 DEF Current
  <2>4. F.orderly /\ M = {} /\ F.index # 0 /\ F.index <= Len(S)
    BY <1>1, <1>2, <2>1 DEF Settled, ShowOK
  <2>5. InPlace(F, s)
    BY <1>1, <1>2, <2>2, <2>4 DEF ShowOK
  <2>6. s \in SpreadRecords /\ Paged(s)
    BY <1>1, <1>2, <2>2, <2>4, SpreadAt
  <2>7. /\ F.center.page = (IF s.center # 0 THEN s.center ELSE -1)
        /\ s.center = 0 => F.left.page = s.left /\ F.right.page = s.right
        /\ \E x : x \in SeenOn(F)
    BY <1>2, <2>5, <2>6, InPlaceSeen
  <2> QED BY <1>6, <2>3, <2>7
<1>8. NoPageSkipped
  <2>1. ASSUME Settled, F.from.page # 0, F.portrait, ~Doubled(b), NEW q, q = F.from.page + F.from.by
        PROVE  IF q \in 1 .. n THEN SeenOn(F) = {q} /\ F.reported = q ELSE SeenOn(F) = {F.from.page}
    <3>1. TurnOK(F, M) /\ M = {}
      BY <1>1, <1>2, <2>1 DEF Settled, FixedOK
    <3> QED BY <1>1, <2>1, <3>1 DEF TurnOK
  <2> QED BY <1>1, <1>4, <1>6, <2>1 DEF NoPageSkipped
<1> QED BY <1>5, <1>7, <1>8 DEF SpreadsSafe

(***************************************************************************)
(* The reader                                                              *)
(***************************************************************************)

(* A step of the reader is a step of one part, and leaves the others alone. *)
LEMMA PartsStep ==
  ASSUME [Next]_vars
  PROVE  /\ PreviewNext \/ UNCHANGED <<preview, voices>>
         /\ ThemeNext \/ UNCHANGED <<setting, tabs>>
         /\ ChromeNext \/ UNCHANGED <<page, chrome>>
         /\ ZoomNext \/ UNCHANGED <<zoom, touch, hands>>
         /\ PaginatorNext \/ UNCHANGED <<pager, pagerTasks>>
         /\ MarksNext \/ UNCHANGED <<marks, wire, kept>>
         /\ FixedNext \/ UNCHANGED <<fixed, moves>>
<1>1. CASE BookNext
  BY <1>1, Zenon DEF BookNext, textAloudVars, placeVars, layoutVars, pageVars, choiceVars, playerVars
<1>2. CASE SpeechNext /\ UNCHANGED <<layoutVars, pageVars, choiceVars>>
  BY <1>2, Zenon DEF layoutVars, pageVars, choiceVars
<1>3. CASE UNCHANGED vars
  BY <1>3, Zenon DEF vars, textAloudVars, placeVars, layoutVars, pageVars, choiceVars, playerVars
<1>4. QED
  BY <1>1, <1>2, <1>3, Zenon DEF Next

(* Whoever presses, answers or plays, and in whatever order requests and       *)
(* elements settle: one voice sounds, and it has the lease; nothing is left of *)
(* a sample that has ended; and the voice that is selected is in the list      *)
(* (VoiceSelector.tsx, tts-audio-focus.ts, useTTSVoices.ts).                   *)
THEOREM ReaderPreviewSafe == Spec => []PreviewSafe
<1>1. Init => PreviewInv
  BY PreviewStarts DEF Init
<1>2. PreviewInv /\ [Next]_vars => PreviewInv'
  BY PartsStep, PreviewSteps
<1>3. PreviewInv => PreviewSafe
  BY PreviewImplies
<1>4. QED
  BY <1>1, <1>2, <1>3, PTL DEF Spec

(* For any number of tabs, any presets and any range of sizes: a tab that has *)
(* heard of the last write shows what is stored, its chrome has the colour of *)
(* the book or of the app whichever effect ran last, the text has the styles  *)
(* of the theme whenever it was changed, and a change of one setting keeps    *)
(* the other (useReaderTheme.ts, useShelfTheme.ts, ThemeProvider.tsx,         *)
(* useFoliateView.ts).                                                        *)
THEOREM ReaderThemesSafe == Spec => ThemesSafe
<1>1. Init => ThemeInv
  BY ThemeStarts DEF Init
<1>2. ThemeInv /\ [Next]_vars => ThemeInv'
  BY PartsStep, ThemeSteps
<1>3. ThemeInv => ThemesAgree /\ ChromeFollows /\ TextFollows
  BY ThemeImplies
<1>4. ThemeInv /\ [Next]_vars =>
        [setting' # setting /\ (\A t \in Tabs : ~tabs[t].told) =>
          \/ PresetOf(setting') = PresetOf(setting)
          \/ GetSnapshot(setting').size = GetSnapshot(setting).size
          \/ setting' = DefaultReaderTheme]_themeVars
  BY PartsStep, ThemeKeepsOthers
<1>5. QED
  BY <1>1, <1>2, <1>3, <1>4, PTL DEF Spec, ThemesSafe, OthersKept

(* For any book and any number of fingers: the header and the table of        *)
(* contents end where the page wants them, whichever frames and effects are   *)
(* still to run; the refs of the image know exactly the fingers that are on   *)
(* it and a drag does not jump; and nobody leaves the reader from an open     *)
(* image that listens (useReaderChrome.ts, useReaderControls.ts,              *)
(* useReaderImageZoom.ts).                                                    *)
THEOREM ReaderControlsSafe == Spec => ControlsSafe
<1>1. Init => ChromeInv /\ ZoomInv
  BY ChromeStarts, ZoomStarts DEF Init
<1>2. ChromeInv /\ ZoomInv /\ [Next]_vars => ChromeInv' /\ ZoomInv'
  BY PartsStep, ChromeSteps, ZoomSteps
<1>3. ChromeInv /\ ZoomInv => HeaderShown /\ TocLocated /\ PointersAccounted /\ DragHolds
  BY ChromeImplies, ZoomImplies
<1>4. ChromeInv /\ [Next]_vars => [page.zoom /\ chrome.image /\ page.here => page'.here]_chromeVars
  BY PartsStep, ImageKeepsReader
<1>5. QED
  BY <1>1, <1>2, <1>3, <1>4, PTL DEF Spec, ControlsSafe, OneThingAtATime

(* For any book, page sizes, and order in which turns, jumps, swipes, loads    *)
(* and reflows interleave: at rest the reader sees the place they went to last *)
(* and the index is that of the section shown, a turn leaves a section only    *)
(* behind its text, and the lock is held by a turn that can still release it,  *)
(* or has lost its view (paginator.js).                                        *)
THEOREM ReaderPagesSafe == Spec => PagesSafe
<1>1. Init => PageInv
  BY PageStarts DEF Init
<1>2. PageInv /\ [Next]_vars => PageInv'
  BY PartsStep, PageSteps
<1>3. PageInv => PlaceKept /\ IndexMatchesView /\ LockAccounted
  BY PageImplies
<1>4. PageInv /\ [Next]_vars =>
        [LET t == pagerTasks["turn"]
         IN  (t.stage = "scroll" /\ t.dir > 0 /\ ~t.disturbed /\ pager.ready /\ pagerTasks'["turn"].stage = "load")
                 => (t.to - 1) * pager.size >= Length(pager)]_pagerVars
  BY PartsStep, PageEnds
<1>5. QED
  BY <1>1, <1>2, <1>3, <1>4, PTL DEF Spec, PagesSafe, LeavesAtEnd

(* For any positions and any order in which calls reach the server, are        *)
(* answered or fail: once nothing is under way the reader's list is the        *)
(* server's, deletions that failed included, unless a list was read across     *)
(* another call or an answer was lost; and one position gets one bookmark      *)
(* (useReaderBookmarks.ts).                                                    *)
THEOREM ReaderBookmarksSafe == Spec => []BookmarksSafe
<1>1. Init => MarksInv
  BY MarksStarts DEF Init
<1>2. MarksInv /\ [Next]_vars => MarksInv'
  <2>1. ASSUME MarksInv, UNCHANGED <<marks, wire, kept>> PROVE MarksInv'
    BY <2>1 DEF MarksInv
  <2> QED BY <2>1, PartsStep, MarksSteps
<1>3. MarksInv => BookmarksSafe
  BY MarksImplies
<1>4. QED
  BY <1>1, <1>2, <1>3, PTL DEF Spec

(* For any book of a fixed layout and any order in which turns, jumps, loads,   *)
(* failures and turns of the window interleave: the spreads hold every section  *)
(* once and in its order, calls that do not overlap leave the spread that was   *)
(* asked for on the screen and nothing of another, and in a tall window a turn  *)
(* leads to the next page or the one before and reports it (fixed-layout.js).   *)
THEOREM ReaderSpreadsSafe == Spec => []SpreadsSafe
<1>1. Init => FixedInv
  BY FixedStarts DEF Init
<1>2. FixedInv /\ [Next]_vars => FixedInv'
  BY PartsStep, FixedSteps
<1>3. FixedInv => SpreadsSafe
  BY FixedImplies
<1>4. QED
  BY <1>1, <1>2, <1>3, PTL DEF Spec
=============================================================================
